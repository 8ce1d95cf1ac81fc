--------------------------- MODULE RunRepository ---------------------------
(***************************************************************************)
(* The PostgreSQL tables behind durable chat runs (chat_sessions,          *)
(* chat_turns, chat_runs) and the repository methods that change them.     *)
(* Each method runs in one transaction under SELECT ... FOR UPDATE, so it  *)
(* is one atomic action; a call that raises changes nothing and is the     *)
(* negation of the action's guard.  RepoSpec lets any number of callers call   *)
(* any method with any worker and any token already allocated: what it     *)
(* promises holds whatever the workers above it do.                        *)
(***************************************************************************)
EXTENDS Integers

CONSTANTS
  Sessions,      \* chat session ids
  Requests,      \* client request ids (idempotency keys)
  Runs,          \* run ids
  Workers,       \* worker ids: one per API process lifetime
  Nil,           \* NULL in a column, None as an argument
  MaxFencing     \* bound: tokens one session may allocate

ASSUME NilAssumption == Nil \notin Sessions \union Requests \union Runs \union Workers
ASSUME MaxFencingAssumption == MaxFencing \in Nat

VARIABLES
  run,           \* [Runs -> Row]: chat_runs
  session,       \* [Sessions -> SessionRow]: chat_sessions
  turns          \* [Sessions -> set of TurnRow]: chat_turns

repoVars == <<run, session, turns>>

Active      == {"queued", "running", "waiting_input", "cancel_requested"}
Leased      == {"running", "cancel_requested"}
Recoverable == {"queued", "running", "cancel_requested"}
Terminal    == {"completed", "failed", "cancelled", "interrupted"}

(* Timestamps are compared with the stale cutoff only, hence three values. *)
Ages == {"null", "fresh", "stale"}

(* "absent": no such row yet; "deleted": the row went with its session.    *)
Row == [status: Active \union Terminal \union {"absent", "deleted"},
        session: Sessions \union {Nil}, request: Requests \union {Nil},
        worker: Workers \union {Nil}, token: Nat,
        heartbeat: Ages, created: {"fresh", "stale"},
        checkpoint: BOOLEAN, result: Nat]

SessionRow == [state: {"unborn", "open", "deleted"}, next: Nat \ {0}, fence: Nat]

(* `by' is the run a turn answers, Nil for a turn of the product chat.     *)
TurnRow == [index: Nat, request: Requests, by: Runs \union {Nil}]

(* A run's foreign keys are not null and name a session that lives as long.  *)
Anchored(r) ==
  /\ run[r].session \in Sessions
  /\ run[r].request \in Requests
  /\ session[run[r].session].state = IF run[r].status = "deleted" THEN "deleted" ELSE "open"

RepoTypeOK ==
  /\ run \in [Runs -> Row]
  /\ \A r \in Runs : run[r].status # "absent" => Anchored(r)
  /\ session \in [Sessions -> SessionRow]
  /\ \A s \in Sessions : session[s].state = "unborn" => session[s].next = 1
  /\ turns \in [Sessions -> SUBSET TurnRow]

NewRow(status, s, q) ==
  [status |-> status, session |-> s, request |-> q, worker |-> Nil, token |-> 0,
   heartbeat |-> "null", created |-> "fresh", checkpoint |-> FALSE, result |-> 0]

Home(r)        == run[r].session
Exists(r)      == run[r].status \in Active \union Terminal
Open(s)        == session[s].state = "open"
HasTurn(s, q)  == \E t \in turns[s] : t.request = q

---------------------------------------------------------------------------
(* Sessions and turns: PostgresChatRepository.                             *)

RepoInit ==
  /\ run = [r \in Runs |-> NewRow("absent", Nil, Nil)]
  /\ session = [s \in Sessions |-> [state |-> "unborn", next |-> 1, fence |-> 0]]
  /\ turns = [s \in Sessions |-> {}]

CreateSession(s) ==
  /\ session[s].state = "unborn"
  /\ session' = [session EXCEPT ![s].state = "open"]
  /\ UNCHANGED <<run, turns>>

(* ON DELETE CASCADE takes the session's runs and turns along.             *)
DeleteSession(s) ==
  /\ Open(s)
  /\ session' = [session EXCEPT ![s].state = "deleted"]
  /\ turns' = [turns EXCEPT ![s] = {}]
  /\ run' = [r \in Runs |-> IF Exists(r) /\ run[r].session = s
                            THEN [run[r] EXCEPT !.status = "deleted"]
                            ELSE run[r]]

(* Broken variant: the token is read but not advanced.                     *)
AllocateSameToken(s) == Open(s) /\ UNCHANGED repoVars

AllocateFencingToken(s) ==
  /\ Open(s)
  /\ session[s].fence < MaxFencing
  /\ session' = [session EXCEPT ![s].fence = @ + 1]
  /\ UNCHANGED <<run, turns>>

(* Broken variant: the turn is stored, the counter is not.                 *)
AddTurnKeepIndex(s, q, by) ==
  /\ turns' = [turns EXCEPT ![s] = @ \union
                 {[index |-> session[s].next, request |-> q, by |-> by]}]
  /\ UNCHANGED session

AddTurn(s, q, by) ==
  /\ turns' = [turns EXCEPT ![s] = @ \union
                 {[index |-> session[s].next, request |-> q, by |-> by]}]
  /\ session' = [session EXCEPT ![s].next = @ + 1]

(* The product chat appends without any fencing token; a request that      *)
(* already has a turn is replayed.                                         *)
AppendDialogueTurn(s, q) ==
  /\ Open(s)
  /\ ~HasTurn(s, q)
  /\ AddTurn(s, q, Nil)
  /\ UNCHANGED run

---------------------------------------------------------------------------
(* Runs: PostgresChatRunRepository.                                        *)

SetRow(r, row) == run' = [run EXCEPT ![r] = row]

(* Broken variant: no check for an active run of the session.              *)
CreateRunBeside(r, s, q) ==
  /\ run[r].status = "absent"
  /\ Open(s)
  /\ \A o \in Runs : Exists(o) /\ run[o].session = s => run[o].request # q
  /\ SetRow(r, NewRow("queued", s, q))
  /\ UNCHANGED <<session, turns>>

(* Broken variant: the repeated request is not looked for.                 *)
CreateRunAgain(r, s, q) ==
  /\ run[r].status = "absent"
  /\ Open(s)
  /\ \A o \in Runs : run[o].session = s => run[o].status \notin Active
  /\ SetRow(r, NewRow("queued", s, q))
  /\ UNCHANGED <<session, turns>>

(* A request already seen is replayed, a session with an active run         *)
(* refuses: neither changes a row.                                         *)
CreateRun(r, s, q) ==
  /\ run[r].status = "absent"
  /\ Open(s)
  /\ \A o \in Runs : Exists(o) /\ run[o].session = s =>
        run[o].request # q /\ run[o].status \notin Active
  /\ SetRow(r, NewRow("queued", s, q))
  /\ UNCHANGED <<session, turns>>

Owns(r, w, t) == run[r].worker = w /\ run[r].token = t

MarkRunningAccepts(r, w, t) ==
  \/ run[r].status = "queued"
  \/ run[r].status = "running" /\ Owns(r, w, t)

MarkRunning(r, w, t) ==
  /\ run[r].status = "queued"
  /\ SetRow(r, [run[r] EXCEPT !.status = "running", !.worker = w,
                              !.token = t, !.heartbeat = "fresh"])
  /\ UNCHANGED <<session, turns>>

PauseAccepts(r, w, t) == run[r].status = "running" /\ Owns(r, w, t)

(* Broken variant: the pause keeps its owner.                              *)
PauseKeepsOwner(r, w, t) ==
  /\ PauseAccepts(r, w, t)
  /\ SetRow(r, [run[r] EXCEPT !.status = "waiting_input", !.checkpoint = TRUE])
  /\ UNCHANGED <<session, turns>>

MarkWaitingInput(r, w, t) ==
  /\ PauseAccepts(r, w, t)
  /\ SetRow(r, [run[r] EXCEPT !.status = "waiting_input", !.worker = Nil,
                              !.token = 0, !.heartbeat = "null",
                              !.checkpoint = TRUE])
  /\ UNCHANGED <<session, turns>>

(* Broken variant: any row with a checkpoint may be resumed.               *)
ResumeAnyCheckpoint(r) ==
  /\ run[r].checkpoint
  /\ SetRow(r, [run[r] EXCEPT !.status = "queued", !.heartbeat = "null"])
  /\ UNCHANGED <<session, turns>>

ResumeCheckpoint(r) ==
  /\ run[r].status = "waiting_input"
  /\ run[r].checkpoint
  /\ SetRow(r, [run[r] EXCEPT !.status = "queued", !.heartbeat = "null"])
  /\ UNCHANGED <<session, turns>>

UpdateHeartbeat(r, w) ==
  /\ run[r].worker = w
  /\ run[r].status \in Leased
  /\ SetRow(r, [run[r] EXCEPT !.heartbeat = "fresh"])
  /\ UNCHANGED <<session, turns>>

(* "already_requested" and the terminal refusal change nothing.            *)
RequestCancel(r) ==
  /\ run[r].status \in Active \ {"cancel_requested"}
  /\ SetRow(r, IF run[r].status = "waiting_input"
               THEN [run[r] EXCEPT !.status = "cancelled", !.heartbeat = "null",
                                   !.checkpoint = FALSE]
               ELSE [run[r] EXCEPT !.status = "cancel_requested",
                                   !.heartbeat = "fresh"])
  /\ UNCHANGED <<session, turns>>

(* _mark_terminal: w = Nil checks no owner.  Repeating a terminal status     *)
(* already reached succeeds and changes nothing.                           *)
MayMark(r, w, allowed) ==
  /\ w # Nil => run[r].worker = w
  /\ run[r].status \in allowed

MarkTerminal(r, status, w, allowed) ==
  /\ MayMark(r, w, allowed)
  /\ SetRow(r, [run[r] EXCEPT !.status = status, !.heartbeat = "fresh",
                              !.checkpoint = FALSE])
  /\ UNCHANGED <<session, turns>>

CancelAccepts(r, w)    == MayMark(r, w, {"cancel_requested"})
FailAccepts(r, w)      == MayMark(r, w, {"queued", "running"})
InterruptAccepts(r, w) == MayMark(r, w, Recoverable)

MarkCancelled(r, w)   == MarkTerminal(r, "cancelled", w, {"cancel_requested"})
MarkFailed(r, w)      == MarkTerminal(r, "failed", w, {"queued", "running"})
MarkInterrupted(r, w) == MarkTerminal(r, "interrupted", w, Recoverable)

(* Broken variant: the cutoff alone decides, whatever the status.          *)
StaleWhateverStatus == {r \in Runs : Exists(r) /\
  \/ run[r].heartbeat = "stale"
  \/ run[r].heartbeat = "null" /\ run[r].created = "stale"}

(* Broken variant: requested cancels are left to their worker.             *)
StaleQueuedOrRunning == {r \in Runs :
  /\ run[r].status \in {"queued", "running"}
  /\ \/ run[r].heartbeat = "stale"
     \/ run[r].heartbeat = "null" /\ run[r].created = "stale"}

StaleRuns == {r \in Runs :
  /\ run[r].status \in Recoverable
  /\ \/ run[r].heartbeat = "stale"
     \/ run[r].heartbeat = "null" /\ run[r].created = "stale"}

(* One transaction for all rows found; worker, token and checkpoint stay.  *)
InterruptStaleRuns ==
  /\ StaleRuns # {}
  /\ run' = [r \in Runs |-> IF r \in StaleRuns
                            THEN [run[r] EXCEPT !.status = "interrupted"]
                            ELSE run[r]]
  /\ UNCHANGED <<session, turns>>

(* Broken variant: a requested cancel is overlooked.                       *)
CompleteDespiteCancel(r, w, t, expected) ==
  LET s == run[r].session IN
  /\ Owns(r, w, t)
  /\ run[r].status \in Leased
  /\ session[s].fence = t
  /\ session[s].next = expected
  /\ ~HasTurn(s, run[r].request)

(* Broken variant: the expected turn number is not compared.               *)
CompleteAnyIndex(r, w, t, expected) ==
  LET s == run[r].session IN
  /\ Owns(r, w, t)
  /\ run[r].status = "running"
  /\ session[s].fence = t
  /\ ~HasTurn(s, run[r].request)

(* The turn and the terminal status in one transaction.  The last conjunct  *)
(* is the unique (session, request) constraint of chat_turns.              *)
CompleteAccepts(r, w, t, expected) ==
  LET s == run[r].session IN
  /\ Owns(r, w, t)
  /\ run[r].status = "running"
  /\ session[s].fence = t
  /\ session[s].next = expected
  /\ ~HasTurn(s, run[r].request)

(* Broken variant: the run's status is left to a later transaction.        *)
StoreTurnOnly(r, w, t, expected) ==
  /\ CompleteAccepts(r, w, t, expected)
  /\ AddTurn(run[r].session, run[r].request, r)
  /\ UNCHANGED run

CompleteWithTurn(r, w, t, expected) ==
  /\ CompleteAccepts(r, w, t, expected)
  /\ AddTurn(run[r].session, run[r].request, r)
  /\ SetRow(r, [run[r] EXCEPT !.status = "completed",
                              !.result = session[run[r].session].next,
                              !.heartbeat = "fresh", !.checkpoint = FALSE])

(* The clock passes the stale cutoff of the timestamp the sweeper would     *)
(* look at: the heartbeat, or created_at of a row that has none.           *)
PassCutoff(r) ==
  /\ run[r].status \in Recoverable
  /\ \/ run[r].heartbeat = "fresh" /\ SetRow(r, [run[r] EXCEPT !.heartbeat = "stale"])
     \/ /\ run[r].heartbeat = "null"
        /\ run[r].created = "fresh"
        /\ SetRow(r, [run[r] EXCEPT !.created = "stale"])
  /\ UNCHANGED <<session, turns>>

---------------------------------------------------------------------------
SessionNext ==
  \E s \in Sessions :
    \/ CreateSession(s)
    \/ DeleteSession(s)
    \/ AllocateFencingToken(s)
    \/ \E q \in Requests : AppendDialogueTurn(s, q)

OwnerNext(r, w) ==
  \/ UpdateHeartbeat(r, w)
  \/ Exists(r) /\ \E t \in 1..session[run[r].session].fence :
       \/ MarkRunning(r, w, t)
       \/ MarkWaitingInput(r, w, t)
       \/ CompleteWithTurn(r, w, t, session[run[r].session].next)

RunNext ==
  \E r \in Runs :
    \/ \E s \in Sessions, q \in Requests : CreateRun(r, s, q)
    \/ \E w \in Workers : OwnerNext(r, w)
    \/ ResumeCheckpoint(r)
    \/ RequestCancel(r)
    \/ \E w \in Workers \union {Nil} :
         \/ MarkCancelled(r, w)
         \/ MarkFailed(r, w)
         \/ MarkInterrupted(r, w)
    \/ PassCutoff(r)

RepoNext == SessionNext \/ RunNext \/ InterruptStaleRuns

RepoSpec == RepoInit /\ [][RepoNext]_repoVars

---------------------------------------------------------------------------
(* What the tables promise.                                                *)

(* A session never has two runs in an active status: create_or_get_run's   *)
(* check and every later transition keep what uq_chat_runs_active_session  *)
(* would otherwise have to refuse.                                         *)
OneActiveRun ==
  \A r, o \in Runs :
    /\ run[r].status \in Active
    /\ run[o].status \in Active
    /\ run[r].session = run[o].session
    => r = o

(* Turn indices of a session are exactly 1 .. next_turn_index - 1, one turn *)
(* each, although two writers (a fenced run and the unfenced product chat) *)
(* increment the counter, and no request is answered twice.                *)
TurnsContiguous ==
  \A s \in Sessions :
    /\ \A t \in turns[s] : t.index \in 1..(session[s].next - 1)
    /\ Open(s) => \A i \in 1..(session[s].next - 1) : \E t \in turns[s] : t.index = i
    /\ \A t, u \in turns[s] : t.index = u.index \/ t.request = u.request => t = u

(* A run is completed exactly when the dialogue holds its turn: the row's  *)
(* result names that turn, filed under the run's own request, and no       *)
(* failed, cancelled, interrupted or waiting run ever left one behind.     *)
CompletedIffAnswered ==
  /\ \A r \in Runs : run[r].status = "completed" =>
       \E t \in turns[run[r].session] :
         t.by = r /\ t.index = run[r].result /\ t.request = run[r].request
  /\ \A s \in Sessions : \A t \in turns[s] : t.by # Nil =>
       /\ run[t.by].status = "completed"
       /\ run[t.by].session = s
       /\ run[t.by].result = t.index

(* Two runs of a session never serve the same request.                     *)
OneRunPerRequest ==
  \A r, o \in Runs :
    Exists(r) /\ Exists(o) /\ run[r].session = run[o].session
      /\ run[r].request = run[o].request => r = o

(* The owner columns a status calls for.                                   *)
OwnerFits(row) ==
  /\ row.status = "running" =>
       row.worker # Nil /\ row.token # 0 /\ row.heartbeat # "null"
  /\ row.status \in {"queued", "waiting_input"} =>
       row.worker = Nil /\ row.token = 0 /\ row.heartbeat = "null"
  /\ row.status = "waiting_input" => row.checkpoint

(* A live row's owner columns agree with its status: leased rows that run   *)
(* name a worker and a token, a queued or waiting row names none, and a     *)
(* waiting row has the checkpoint a resume needs.                          *)
OwnershipMatchesStatus == \A r \in Runs : OwnerFits(run[r])

(* A terminal row is never written again (late heartbeats, late failures,  *)
(* sweeps, repeated cancels): it can only disappear with its session.      *)
TerminalIsFinal ==
  [][\A r \in Runs : run[r].status \in Terminal =>
       run'[r] = run[r] \/ run'[r].status = "deleted"]_repoVars

(* Once a cancel is recorded the run can no longer answer, pause or go      *)
(* back to work: it ends cancelled or interrupted.                         *)
CancelSticks ==
  [][\A r \in Runs : run[r].status = "cancel_requested" =>
       run'[r].status \in {"cancel_requested", "cancelled", "interrupted", "deleted"}]_repoVars

---------------------------------------------------------------------------
(* The tables implement the client's view of them.                         *)

PhaseOf(status) ==
  CASE status \in {"queued", "running"} -> "working"
    [] status = "waiting_input"         -> "asking"
    [] status = "cancel_requested"      -> "stopping"
    [] status = "completed"             -> "answered"
    [] status = "absent"                -> "none"
    [] status = "deleted"               -> "gone"
    [] OTHER                            -> status

TurnAt(s, i) == CHOOSE t \in turns[s] : t.index = i

DialogueOf(s) ==
  IF Open(s)
  THEN [i \in 1..(session[s].next - 1) |->
          [request |-> TurnAt(s, i).request, by |-> TurnAt(s, i).by]]
  ELSE <<>>

Ledger == INSTANCE RunLedger WITH
  phase     <- [r \in Runs |-> PhaseOf(run[r].status)],
  home      <- [r \in Runs |-> run[r].session],
  dialogue  <- [s \in Sessions |-> DialogueOf(s)],
  forgotten <- {s \in Sessions : session[s].state = "deleted"}

(* Every transaction of every caller is a step of the client's view or     *)
(* invisible to it: no interleaving answers a run twice, reorders or       *)
(* rewrites the dialogue, revives an ended run, or starts a second one.    *)
ImplementsLedger == Ledger!Spec

=============================================================================
