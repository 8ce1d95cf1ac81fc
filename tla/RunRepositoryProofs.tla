------------------------ MODULE RunRepositoryProofs ------------------------
(***************************************************************************)
(* What the tables promise, for any number of sessions, requests, runs and *)
(* workers and any number of tokens.                                       *)
(*                                                                         *)
(* The statements that rewrite one live row (heartbeats, pauses, cancels,  *)
(* failures, ...) are first reduced to one shape, Rewrite; every invariant *)
(* is then a case on eight kinds of transaction.                           *)
(*                                                                         *)
(* The last part shows that the tables implement the client's view of them *)
(* (RunLedger): every transaction is one step of the ledger or invisible   *)
(* to it.  The dialogue of a session is read off its turns by index, so    *)
(* that proof rests on TurnsContiguous: each index below the counter has   *)
(* one turn.                                                               *)
(***************************************************************************)
EXTENDS RunRepository, Sequences, SequenceTheorems, TLAPS

---------------------------------------------------------------------------
(* One row at a time.                                                      *)

(* The status changes a statement on a single live row may make.           *)
Moves(from, to) ==
  \/ from \in Active /\ to = from
  \/ from = "queued" /\ to = "running"
  \/ from = "running" /\ to = "waiting_input"
  \/ from = "waiting_input" /\ to \in {"queued", "cancelled"}
  \/ from \in {"queued", "running"} /\ to \in {"cancel_requested", "failed"}
  \/ from = "cancel_requested" /\ to = "cancelled"
  \/ from \in Recoverable /\ to = "interrupted"

(* r's row is replaced by one of the same session, request and result.     *)
Rewrite(r) ==
  /\ UNCHANGED <<session, turns>>
  /\ \E row \in Row :
       /\ run' = [run EXCEPT ![r] = row]
       /\ row.session = run[r].session
       /\ row.request = run[r].request
       /\ row.result = run[r].result
       /\ Moves(run[r].status, row.status)
       /\ OwnerFits(run[r]) => OwnerFits(row)

(* The statements of OwnerNext that rewrite a row.                         *)
LEMMA OwnerRewrites ==
  ASSUME RepoTypeOK, NEW r \in Runs, NEW w \in Workers,
         NEW t \in Nat \ {0},
         \/ UpdateHeartbeat(r, w)
         \/ MarkRunning(r, w, t)
         \/ MarkWaitingInput(r, w, t)
  PROVE  Rewrite(r)
<1>0. run[r] \in Row BY DEF RepoTypeOK
<1>1. CASE UpdateHeartbeat(r, w)
  <2> DEFINE row == [run[r] EXCEPT !.heartbeat = "fresh"]
  <2>1. row \in Row BY <1>0 DEF Row, Ages
  <2>2. Moves(run[r].status, row.status)
    BY <1>0, <1>1 DEF UpdateHeartbeat, Moves, Leased, Active, Row
  <2>3. OwnerFits(run[r]) => OwnerFits(row)
    BY <1>0, <1>1 DEF UpdateHeartbeat, OwnerFits, Leased, Row
  <2>4. row.session = run[r].session /\ row.request = run[r].request /\ row.result = run[r].result
    BY <1>0 DEF Row
  <2> QED BY <1>1, <2>1, <2>2, <2>3, <2>4 DEF UpdateHeartbeat, SetRow, Rewrite
<1>2. CASE MarkRunning(r, w, t)
  <2> DEFINE row == [run[r] EXCEPT !.status = "running", !.worker = w,
                                   !.token = t, !.heartbeat = "fresh"]
  <2>1. row \in Row BY <1>0 DEF Row, Ages, Active
  <2>2. Moves(run[r].status, row.status)
    BY <1>0, <1>2 DEF MarkRunning, Moves, Row
  <2>3. OwnerFits(row)
    BY <1>0, NilAssumption DEF OwnerFits, Row
  <2>4. row.session = run[r].session /\ row.request = run[r].request /\ row.result = run[r].result
    BY <1>0 DEF Row
  <2> QED BY <1>2, <2>1, <2>2, <2>3, <2>4 DEF MarkRunning, SetRow, Rewrite
<1>3. CASE MarkWaitingInput(r, w, t)
  <2> DEFINE row == [run[r] EXCEPT !.status = "waiting_input", !.worker = Nil,
                                   !.token = 0, !.heartbeat = "null",
                                   !.checkpoint = TRUE]
  <2>1. row \in Row BY <1>0 DEF Row, Ages, Active
  <2>2. Moves(run[r].status, row.status)
    BY <1>0, <1>3 DEF MarkWaitingInput, PauseAccepts, Moves, Row
  <2>3. OwnerFits(row)
    BY <1>0 DEF OwnerFits, Row
  <2>4. row.session = run[r].session /\ row.request = run[r].request /\ row.result = run[r].result
    BY <1>0 DEF Row
  <2> QED BY <1>3, <2>1, <2>2, <2>3, <2>4 DEF MarkWaitingInput, SetRow, Rewrite
<1> QED BY <1>1, <1>2, <1>3

(* The statements anybody may issue, and the clock.                        *)
LEMMA CallerRewrites ==
  ASSUME RepoTypeOK, NEW r \in Runs,
         \/ ResumeCheckpoint(r)
         \/ RequestCancel(r)
         \/ PassCutoff(r)
         \/ \E w \in Workers \union {Nil} :
              MarkCancelled(r, w) \/ MarkFailed(r, w) \/ MarkInterrupted(r, w)
  PROVE  Rewrite(r)
<1>0. run[r] \in Row BY DEF RepoTypeOK
<1>1. CASE ResumeCheckpoint(r)
  <2> DEFINE row == [run[r] EXCEPT !.status = "queued", !.heartbeat = "null"]
  <2>1. row \in Row BY <1>0 DEF Row, Ages, Active
  <2>2. Moves(run[r].status, row.status)
    BY <1>0, <1>1 DEF ResumeCheckpoint, Moves, Row
  <2>3. OwnerFits(run[r]) => OwnerFits(row)
    BY <1>0, <1>1 DEF ResumeCheckpoint, OwnerFits, Row
  <2>4. row.session = run[r].session /\ row.request = run[r].request /\ row.result = run[r].result
    BY <1>0 DEF Row
  <2> QED BY <1>1, <2>1, <2>2, <2>3, <2>4 DEF ResumeCheckpoint, SetRow, Rewrite
<1>2. CASE RequestCancel(r) /\ run[r].status = "waiting_input"
  <2> DEFINE row == [run[r] EXCEPT !.status = "cancelled", !.heartbeat = "null",
                                   !.checkpoint = FALSE]
  <2>1. row \in Row BY <1>0 DEF Row, Ages, Terminal
  <2>2. Moves(run[r].status, row.status)
    BY <1>0, <1>2 DEF Moves, Row
  <2>3. OwnerFits(row)
    BY <1>0 DEF OwnerFits, Row
  <2>4. row.session = run[r].session /\ row.request = run[r].request /\ row.result = run[r].result
    BY <1>0 DEF Row
  <2> QED BY <1>2, <2>1, <2>2, <2>3, <2>4 DEF RequestCancel, SetRow, Rewrite
<1>3. CASE RequestCancel(r) /\ run[r].status # "waiting_input"
  <2> DEFINE row == [run[r] EXCEPT !.status = "cancel_requested", !.heartbeat = "fresh"]
  <2>1. row \in Row BY <1>0 DEF Row, Ages, Active
  <2>2. Moves(run[r].status, row.status)
    BY <1>0, <1>3 DEF RequestCancel, Moves, Row, Active
  <2>3. OwnerFits(row)
    BY <1>0 DEF OwnerFits, Row
  <2>4. row.session = run[r].session /\ row.request = run[r].request /\ row.result = run[r].result
    BY <1>0 DEF Row
  <2> QED BY <1>3, <2>1, <2>2, <2>3, <2>4 DEF RequestCancel, SetRow, Rewrite
<1>4. CASE PassCutoff(r) /\ run[r].heartbeat = "fresh"
  <2> DEFINE row == [run[r] EXCEPT !.heartbeat = "stale"]
  <2>1. row \in Row BY <1>0 DEF Row, Ages
  <2>2. Moves(run[r].status, row.status)
    BY <1>0, <1>4 DEF PassCutoff, Moves, Row, Active, Recoverable
  <2>3. OwnerFits(run[r]) => OwnerFits(row)
    BY <1>0, <1>4 DEF PassCutoff, OwnerFits, Row, Recoverable
  <2>4. row.session = run[r].session /\ row.request = run[r].request /\ row.result = run[r].result
    BY <1>0 DEF Row
  <2> QED BY <1>4, <2>1, <2>2, <2>3, <2>4 DEF PassCutoff, SetRow, Rewrite
<1>5. CASE PassCutoff(r) /\ run[r].heartbeat # "fresh"
  <2> DEFINE row == [run[r] EXCEPT !.created = "stale"]
  <2>1. row \in Row BY <1>0 DEF Row, Ages
  <2>2. Moves(run[r].status, row.status)
    BY <1>0, <1>5 DEF PassCutoff, Moves, Row, Active, Recoverable
  <2>3. OwnerFits(run[r]) => OwnerFits(row)
    BY <1>0, <1>5 DEF PassCutoff, OwnerFits, Row, Recoverable
  <2>4. row.session = run[r].session /\ row.request = run[r].request /\ row.result = run[r].result
    BY <1>0 DEF Row
  <2> QED BY <1>5, <2>1, <2>2, <2>3, <2>4 DEF PassCutoff, SetRow, Rewrite
<1>6. ASSUME NEW w \in Workers \union {Nil},
             MarkCancelled(r, w) \/ MarkFailed(r, w) \/ MarkInterrupted(r, w)
      PROVE  Rewrite(r)
  <2>1. PICK status \in Terminal :
          /\ Moves(run[r].status, status)
          /\ SetRow(r, [run[r] EXCEPT !.status = status, !.heartbeat = "fresh",
                                      !.checkpoint = FALSE])
          /\ UNCHANGED <<session, turns>>
    BY <1>6 DEF MarkCancelled, MarkFailed, MarkInterrupted, MarkTerminal, MayMark,
                Moves, Terminal, Recoverable
  <2> DEFINE row == [run[r] EXCEPT !.status = status, !.heartbeat = "fresh",
                                   !.checkpoint = FALSE]
  <2>2. row \in Row /\ row.status = status BY <1>0 DEF Row, Ages
  <2>3. OwnerFits(row) BY <2>2 DEF OwnerFits, Terminal
  <2>4. row.session = run[r].session /\ row.request = run[r].request /\ row.result = run[r].result
    BY <1>0 DEF Row
  <2> QED BY <2>1, <2>2, <2>3, <2>4 DEF SetRow, Rewrite
<1> QED BY <1>1, <1>2, <1>3, <1>4, <1>5, <1>6 DEF ResumeCheckpoint, RequestCancel

(* Every transaction is of one of eight kinds.                             *)
LEMMA TransactionKinds ==
  ASSUME RepoTypeOK, RepoNext
  PROVE  \/ \E s \in Sessions :
              \/ CreateSession(s)
              \/ DeleteSession(s)
              \/ AllocateFencingToken(s)
              \/ \E q \in Requests : AppendDialogueTurn(s, q)
         \/ \E r \in Runs, s \in Sessions, q \in Requests : CreateRun(r, s, q)
         \/ \E r \in Runs : Rewrite(r)
         \/ \E r \in Runs, w \in Workers :
              \E t \in Nat : CompleteWithTurn(r, w, t, session[run[r].session].next)
         \/ InterruptStaleRuns
<1>1. CASE SessionNext BY <1>1 DEF SessionNext
<1>2. CASE RunNext
  <2>1. ASSUME NEW r \in Runs, NEW w \in Workers, OwnerNext(r, w)
        PROVE  \/ Rewrite(r)
               \/ \E t \in Nat : CompleteWithTurn(r, w, t, session[run[r].session].next)
    <3>1. CASE UpdateHeartbeat(r, w)
      <4>1. 1 \in Nat \ {0} OBVIOUS
      <4> QED BY <3>1, <4>1, OwnerRewrites
    <3>2. CASE ~UpdateHeartbeat(r, w)
      <4>1. Exists(r) BY <2>1, <3>2 DEF OwnerNext
      <4>2. session[run[r].session].fence \in Nat
        BY <4>1 DEF Exists, RepoTypeOK, Anchored, SessionRow, Active, Terminal
      <4>3. PICK t \in 1..session[run[r].session].fence :
              \/ MarkRunning(r, w, t)
              \/ MarkWaitingInput(r, w, t)
              \/ CompleteWithTurn(r, w, t, session[run[r].session].next)
        BY <2>1, <3>2 DEF OwnerNext
      <4>4. t \in Nat \ {0} BY <4>2, <4>3
      <4> QED BY <4>3, <4>4, OwnerRewrites
    <3> QED BY <3>1, <3>2
  <2> QED BY <1>2, <2>1, CallerRewrites DEF RunNext
<1> QED BY <1>1, <1>2 DEF RepoNext

---------------------------------------------------------------------------
(* Types.                                                                  *)

(* A turn added at the session's counter keeps both tables' types.         *)
LEMMA AddTurnType ==
  ASSUME RepoTypeOK, NEW s \in Sessions, NEW q \in Requests,
         NEW by \in Runs \union {Nil}, AddTurn(s, q, by), Open(s)
  PROVE  /\ session' \in [Sessions -> SessionRow]
         /\ \A z \in Sessions : session'[z].state = session[z].state
         /\ \A z \in Sessions : session'[z].state = "unborn" => session'[z].next = 1
         /\ turns' \in [Sessions -> SUBSET TurnRow]
<1>1. session[s] \in SessionRow /\ session[s].state = "open" BY DEF RepoTypeOK, Open
<1> DEFINE row == [session[s] EXCEPT !.next = @ + 1]
<1>2. row \in SessionRow /\ row.state = "open" BY <1>1 DEF SessionRow
<1>3. session' = [session EXCEPT ![s] = row] BY DEF AddTurn
<1>4. session' \in [Sessions -> SessionRow] BY <1>2, <1>3 DEF RepoTypeOK
<1>5. \A z \in Sessions : session'[z].state = session[z].state
  BY <1>1, <1>2, <1>3 DEF RepoTypeOK
<1>6. \A z \in Sessions : session'[z].state = "unborn" => session'[z].next = 1
  BY <1>2, <1>3 DEF RepoTypeOK
<1>7. [index |-> session[s].next, request |-> q, by |-> by] \in TurnRow
  BY <1>1 DEF SessionRow, TurnRow
<1>8. turns' \in [Sessions -> SUBSET TurnRow]
  BY <1>7 DEF AddTurn, RepoTypeOK
<1> QED BY <1>4, <1>5, <1>6, <1>8

(* A row replaced by a row of the same keys keeps the types.               *)
LEMMA RewriteType ==
  ASSUME RepoTypeOK, NEW r \in Runs, Rewrite(r)
  PROVE  RepoTypeOK'
<1>1. PICK row \in Row :
        /\ run' = [run EXCEPT ![r] = row]
        /\ row.session = run[r].session
        /\ row.request = run[r].request
        /\ run[r].status \notin {"absent", "deleted"}
        /\ row.status # "deleted"
  BY DEF Rewrite, Moves, Active, Recoverable
<1>2. run' \in [Runs -> Row] BY <1>1 DEF RepoTypeOK
<1>3. \A o \in Runs : run'[o].status # "absent" => Anchored(o)'
  BY <1>1 DEF RepoTypeOK, Rewrite, Anchored
<1> QED BY <1>2, <1>3 DEF Rewrite, RepoTypeOK

(* A run completed in the dialogue keeps the types.                        *)
LEMMA CompleteType ==
  ASSUME RepoTypeOK, NEW r \in Runs, NEW w \in Workers, NEW t \in Nat,
         CompleteWithTurn(r, w, t, session[run[r].session].next)
  PROVE  RepoTypeOK'
<1>0. run[r] \in Row /\ run[r].status = "running"
  BY DEF RepoTypeOK, CompleteWithTurn, CompleteAccepts
<1>1. /\ run[r].session \in Sessions
      /\ run[r].request \in Requests
      /\ Open(run[r].session)
  BY <1>0 DEF RepoTypeOK, Anchored, Open
<1>2. session[run[r].session].next \in Nat BY <1>1 DEF RepoTypeOK, SessionRow
<1> DEFINE row == [run[r] EXCEPT !.status = "completed",
                                 !.result = session[run[r].session].next,
                                 !.heartbeat = "fresh", !.checkpoint = FALSE]
<1>3. row \in Row BY <1>0, <1>2 DEF Row, Ages, Terminal
<1>4. /\ row.session = run[r].session
      /\ row.request = run[r].request
      /\ row.status = "completed"
  BY <1>0 DEF Row
<1>5. run' = [run EXCEPT ![r] = row] BY DEF CompleteWithTurn, SetRow
<1>6. run' \in [Runs -> Row] BY <1>3, <1>5 DEF RepoTypeOK
<1>7. AddTurn(run[r].session, run[r].request, r) BY DEF CompleteWithTurn
<1>8. \A o \in Runs : run'[o].status # "absent" => Anchored(o)'
  BY <1>0, <1>1, <1>4, <1>5, <1>7, AddTurnType DEF RepoTypeOK, Anchored
<1> QED BY <1>1, <1>6, <1>7, <1>8, AddTurnType DEF RepoTypeOK

(* A row inserted for an open session keeps the types.                     *)
LEMMA CreateRunType ==
  ASSUME RepoTypeOK, NEW r \in Runs, NEW s \in Sessions, NEW q \in Requests,
         CreateRun(r, s, q)
  PROVE  RepoTypeOK'
<1>1. NewRow("queued", s, q) \in Row BY DEF NewRow, Row, Ages, Active
<1>2. run' = [run EXCEPT ![r] = NewRow("queued", s, q)] BY DEF CreateRun, SetRow
<1>3. \A o \in Runs : run'[o].status # "absent" => Anchored(o)'
  BY <1>2 DEF CreateRun, RepoTypeOK, Anchored, Open, NewRow
<1> QED BY <1>1, <1>2, <1>3 DEF CreateRun, RepoTypeOK

(* The sweep keeps the types: one UPDATE of the status of several rows.    *)
LEMMA SweepType ==
  ASSUME RepoTypeOK, InterruptStaleRuns
  PROVE  RepoTypeOK'
<1>1. \A r \in Runs : [run[r] EXCEPT !.status = "interrupted"] \in Row
  BY DEF RepoTypeOK, Row, Terminal
<1>2. run' \in [Runs -> Row] BY <1>1 DEF InterruptStaleRuns, RepoTypeOK
<1>3. ASSUME NEW r \in Runs, run'[r].status # "absent" PROVE Anchored(r)'
  <2>1. CASE r \in StaleRuns
    <3>1. run[r] \in Row /\ run[r].status \notin {"absent", "deleted"}
      BY <2>1 DEF StaleRuns, Recoverable, RepoTypeOK
    <3>2. run'[r] = [run[r] EXCEPT !.status = "interrupted"]
      BY <2>1 DEF InterruptStaleRuns
    <3> QED BY <3>1, <3>2 DEF Anchored, RepoTypeOK, InterruptStaleRuns, Row
  <2>2. CASE r \notin StaleRuns
    BY <1>3, <2>2 DEF InterruptStaleRuns, Anchored, RepoTypeOK
  <2> QED BY <2>1, <2>2
<1> QED BY <1>2, <1>3 DEF InterruptStaleRuns, RepoTypeOK

(* Creating and deleting a session and allocating a token keep the types.  *)
LEMMA SessionType ==
  ASSUME RepoTypeOK, NEW s \in Sessions,
         CreateSession(s) \/ DeleteSession(s) \/ AllocateFencingToken(s)
  PROVE  RepoTypeOK'
<1>0. session[s] \in SessionRow BY DEF RepoTypeOK
<1>1. CASE CreateSession(s)
  <2> DEFINE row == [session[s] EXCEPT !.state = "open"]
  <2>1. row \in SessionRow /\ row.state = "open" BY <1>0 DEF SessionRow
  <2>2. session' = [session EXCEPT ![s] = row] BY <1>1 DEF CreateSession
  <2>3. \A r \in Runs : run'[r].status # "absent" => Anchored(r)'
    BY <1>1, <2>1, <2>2 DEF CreateSession, RepoTypeOK, Anchored
  <2> QED BY <1>1, <2>1, <2>2, <2>3 DEF CreateSession, RepoTypeOK
<1>2. CASE DeleteSession(s)
  <2> DEFINE row == [session[s] EXCEPT !.state = "deleted"]
  <2>1. row \in SessionRow /\ row.state = "deleted" BY <1>0 DEF SessionRow
  <2>2. session' = [session EXCEPT ![s] = row] BY <1>2 DEF DeleteSession
  <2>3. \A r \in Runs : [run[r] EXCEPT !.status = "deleted"] \in Row
    BY DEF RepoTypeOK, Row
  <2>4. run' \in [Runs -> Row] BY <1>2, <2>3 DEF DeleteSession, RepoTypeOK
  <2>5. ASSUME NEW r \in Runs, run'[r].status # "absent" PROVE Anchored(r)'
    <3>1. run[r] \in Row /\ run[r].status # "absent"
      BY <1>2, <2>5 DEF DeleteSession, Exists, Active, Terminal, RepoTypeOK
    <3>2. Anchored(r) BY <3>1 DEF RepoTypeOK
    <3>3. CASE Exists(r) /\ run[r].session = s
      <4>1. run'[r] = [run[r] EXCEPT !.status = "deleted"] BY <1>2, <3>3 DEF DeleteSession
      <4> QED BY <3>1, <3>2, <3>3, <4>1, <2>1, <2>2 DEF Anchored, Row, RepoTypeOK
    <3>4. CASE ~(Exists(r) /\ run[r].session = s)
      <4>1. run'[r] = run[r] BY <1>2, <3>4 DEF DeleteSession
      <4>2. run[r].session = s => run[r].status = "deleted"
        BY <3>1, <3>4 DEF Exists, Row, Active, Terminal
      <4> QED BY <3>2, <4>1, <4>2, <1>2, <2>1, <2>2 DEF Anchored, RepoTypeOK
    <3> QED BY <3>3, <3>4
  <2> QED BY <1>2, <2>1, <2>2, <2>4, <2>5 DEF DeleteSession, RepoTypeOK
<1>3. CASE AllocateFencingToken(s)
  <2> DEFINE row == [session[s] EXCEPT !.fence = @ + 1]
  <2>1. row \in SessionRow /\ row.state = session[s].state /\ row.next = session[s].next
    BY <1>0 DEF SessionRow
  <2>2. session' = [session EXCEPT ![s] = row] BY <1>3 DEF AllocateFencingToken
  <2>3. \A r \in Runs : run'[r].status # "absent" => Anchored(r)'
    BY <1>3, <2>1, <2>2 DEF AllocateFencingToken, RepoTypeOK, Anchored
  <2> QED BY <1>3, <2>1, <2>2, <2>3 DEF AllocateFencingToken, RepoTypeOK
<1> QED BY <1>1, <1>2, <1>3

(* Any transaction keeps the types.                                        *)
LEMMA StepType ==
  ASSUME RepoTypeOK, [RepoNext]_repoVars
  PROVE  RepoTypeOK'
<1>1. CASE RepoNext
  <2>1. ASSUME NEW s \in Sessions, NEW q \in Requests, AppendDialogueTurn(s, q)
        PROVE  RepoTypeOK'
    <3>1. Open(s) /\ AddTurn(s, q, Nil) /\ UNCHANGED run
      BY <2>1 DEF AppendDialogueTurn
    <3> QED BY <3>1, AddTurnType DEF RepoTypeOK, Anchored
  <2> QED BY <1>1, <2>1, TransactionKinds, SessionType, CreateRunType, RewriteType,
             CompleteType, SweepType
<1>2. CASE UNCHANGED repoVars
  BY <1>2 DEF repoVars, RepoTypeOK, Anchored
<1> QED BY <1>1, <1>2

(* The empty tables have their types.                                      *)
LEMMA InitType == RepoInit => RepoTypeOK
BY DEF RepoInit, RepoTypeOK, NewRow, Row, Ages, SessionRow

(* Whatever the callers of the repositories do, every row has its columns'   *)
(* types and a run's keys name a session that lives as long as the run:    *)
(* the check constraint and foreign keys of the schema never have to       *)
(* refuse a statement.                                                     *)
THEOREM TypesHold == RepoSpec => []RepoTypeOK
BY InitType, StepType, PTL DEF RepoSpec

---------------------------------------------------------------------------
(* Runs of a session exclude each other.                                   *)

(* o keeps its keys and is not brought to life.                            *)
Stays(o) ==
  /\ run'[o].session = run[o].session
  /\ run'[o].request = run[o].request
  /\ run'[o].status \in Active => run[o].status \in Active
  /\ run'[o].status \in Active \union Terminal => run[o].status \in Active \union Terminal

(* Only an INSERT makes a row active or a key appear.                      *)
LEMMA OnlyCreateAdds ==
  ASSUME RepoTypeOK, RepoNext, NEW o \in Runs
  PROVE  \/ Stays(o)
         \/ \E s \in Sessions, q \in Requests : CreateRun(o, s, q)
<1>0. run[o] \in Row /\ run \in [Runs -> Row] BY DEF RepoTypeOK
<1>1. UNCHANGED run => Stays(o) BY DEF Stays
<1>2. ASSUME NEW s \in Sessions, DeleteSession(s) PROVE Stays(o)
  BY <1>0, <1>2 DEF DeleteSession, Stays, Row, Active, Terminal
<1>3. ASSUME NEW r \in Runs, NEW s \in Sessions, NEW q \in Requests, CreateRun(r, s, q),
             r # o
      PROVE  Stays(o)
  BY <1>0, <1>3 DEF CreateRun, SetRow, Stays
<1>4. ASSUME NEW r \in Runs, Rewrite(r) PROVE Stays(o)
  BY <1>0, <1>4 DEF Rewrite, Stays, Moves, Active, Terminal, Recoverable
<1>5. ASSUME NEW r \in Runs, NEW w \in Workers, NEW t \in Nat,
             CompleteWithTurn(r, w, t, session[run[r].session].next)
      PROVE  Stays(o)
  BY <1>0, <1>5 DEF CompleteWithTurn, CompleteAccepts, SetRow, Stays, Active, Terminal, Row
<1>6. CASE InterruptStaleRuns
  BY <1>0, <1>6 DEF InterruptStaleRuns, StaleRuns, Stays, Active, Terminal, Recoverable, Row
<1>7. ASSUME NEW s \in Sessions,
             \/ CreateSession(s)
             \/ AllocateFencingToken(s)
             \/ \E q \in Requests : AppendDialogueTurn(s, q)
      PROVE  UNCHANGED run
  BY <1>7 DEF CreateSession, AllocateFencingToken, AppendDialogueTurn
<1> QED BY TransactionKinds, <1>1, <1>2, <1>3, <1>4, <1>5, <1>6, <1>7

(* The check in create_or_get_run and the other statements' guards keep    *)
(* one active run per session.                                             *)
LEMMA OneActiveStep ==
  ASSUME RepoTypeOK, OneActiveRun, [RepoNext]_repoVars
  PROVE  OneActiveRun'
<1>1. CASE RepoNext
  <2> SUFFICES ASSUME NEW r \in Runs, NEW o \in Runs,
                      run'[r].status \in Active, run'[o].status \in Active,
                      run'[r].session = run'[o].session
               PROVE  r = o
    BY DEF OneActiveRun
  <2>1. ASSUME NEW x \in Runs, NEW y \in Runs, x # y,
               NEW s \in Sessions, NEW q \in Requests, CreateRun(x, s, q)
        PROVE  run'[y].session = s => run'[y].status \notin Active
    BY <2>1 DEF CreateRun, SetRow, RepoTypeOK, Exists
  <2>2. ASSUME NEW x \in Runs, NEW s \in Sessions, NEW q \in Requests, CreateRun(x, s, q)
        PROVE  run'[x].session = s
    BY <2>2 DEF CreateRun, SetRow, RepoTypeOK, NewRow
  <2>3. CASE Stays(r) /\ Stays(o)
    BY <2>3 DEF Stays, OneActiveRun
  <2> QED BY <1>1, <2>1, <2>2, <2>3, OnlyCreateAdds
<1>2. CASE UNCHANGED repoVars
  BY <1>2 DEF repoVars, OneActiveRun
<1> QED BY <1>1, <1>2

(* A session never works on two runs, whatever calls race (the unique      *)
(* index uq_chat_runs_active_session never has to refuse a row).           *)
THEOREM OneActiveRunHolds == RepoSpec => []OneActiveRun
<1>1. RepoInit => OneActiveRun
  BY DEF RepoInit, OneActiveRun, NewRow, Active
<1> QED BY <1>1, OneActiveStep, TypesHold, PTL DEF RepoSpec

(* Replaying a known request keeps one run per request.                    *)
LEMMA OneRequestStep ==
  ASSUME RepoTypeOK, OneRunPerRequest, [RepoNext]_repoVars
  PROVE  OneRunPerRequest'
<1>1. CASE RepoNext
  <2> SUFFICES ASSUME NEW r \in Runs, NEW o \in Runs, Exists(r)', Exists(o)',
                      run'[r].session = run'[o].session,
                      run'[r].request = run'[o].request
               PROVE  r = o
    BY DEF OneRunPerRequest
  <2>1. ASSUME NEW x \in Runs, NEW y \in Runs, x # y, Exists(y)',
               NEW s \in Sessions, NEW q \in Requests, CreateRun(x, s, q)
        PROVE  run'[y].session = s => run'[y].request # q
    BY <2>1 DEF CreateRun, SetRow, RepoTypeOK, Exists
  <2>2. ASSUME NEW x \in Runs, NEW s \in Sessions, NEW q \in Requests, CreateRun(x, s, q)
        PROVE  run'[x].session = s /\ run'[x].request = q
    BY <2>2 DEF CreateRun, SetRow, RepoTypeOK, NewRow
  <2>3. CASE Stays(r) /\ Stays(o)
    BY <2>3 DEF Stays, OneRunPerRequest, Exists
  <2> QED BY <1>1, <2>1, <2>2, <2>3, OnlyCreateAdds
<1>2. CASE UNCHANGED repoVars
  BY <1>2 DEF repoVars, OneRunPerRequest, Exists
<1> QED BY <1>1, <1>2

(* A request is served by one run of its session, however often and         *)
(* however late the client repeats it.                                     *)
THEOREM OneRunPerRequestHolds == RepoSpec => []OneRunPerRequest
<1>1. RepoInit => OneRunPerRequest
  BY DEF RepoInit, OneRunPerRequest, Exists, NewRow, Active, Terminal
<1> QED BY <1>1, OneRequestStep, TypesHold, PTL DEF RepoSpec

---------------------------------------------------------------------------
(* Owner columns.                                                          *)

(* Every statement leaves the owner columns its status calls for.          *)
LEMMA OwnershipStep ==
  ASSUME RepoTypeOK, OwnershipMatchesStatus, [RepoNext]_repoVars
  PROVE  OwnershipMatchesStatus'
<1>0. run \in [Runs -> Row] BY DEF RepoTypeOK
<1> SUFFICES ASSUME NEW o \in Runs PROVE OwnerFits(run[o])'
  BY DEF OwnershipMatchesStatus
<1> USE DEF OwnershipMatchesStatus
<1>1. UNCHANGED run => OwnerFits(run[o])' BY DEF OwnerFits
<1>2. ASSUME NEW s \in Sessions, DeleteSession(s) PROVE OwnerFits(run[o])'
  BY <1>0, <1>2 DEF DeleteSession, OwnerFits, Row
<1>3. ASSUME NEW r \in Runs, NEW s \in Sessions, NEW q \in Requests, CreateRun(r, s, q)
      PROVE  OwnerFits(run[o])'
  BY <1>0, <1>3 DEF CreateRun, SetRow, OwnerFits, NewRow
<1>4. ASSUME NEW r \in Runs, Rewrite(r) PROVE OwnerFits(run[o])'
  BY <1>0, <1>4 DEF Rewrite, OwnerFits
<1>5. ASSUME NEW r \in Runs, NEW w \in Workers, NEW t \in Nat,
             CompleteWithTurn(r, w, t, session[run[r].session].next)
      PROVE  OwnerFits(run[o])'
  BY <1>0, <1>5 DEF CompleteWithTurn, SetRow, OwnerFits, Row
<1>6. CASE InterruptStaleRuns
  BY <1>0, <1>6 DEF InterruptStaleRuns, OwnerFits, Row
<1>7. ASSUME NEW s \in Sessions,
             \/ CreateSession(s)
             \/ AllocateFencingToken(s)
             \/ \E q \in Requests : AppendDialogueTurn(s, q)
      PROVE  UNCHANGED run
  BY <1>7 DEF CreateSession, AllocateFencingToken, AppendDialogueTurn
<1> QED BY TransactionKinds, <1>1, <1>2, <1>3, <1>4, <1>5, <1>6, <1>7 DEF repoVars

(* A running row always names its worker, its token and a heartbeat, and a *)
(* waiting or queued one names none: cancel notices and late writes never  *)
(* meet a half-owned run.                                                  *)
THEOREM OwnershipHolds == RepoSpec => []OwnershipMatchesStatus
<1>1. RepoInit => OwnershipMatchesStatus
  BY DEF RepoInit, OwnershipMatchesStatus, OwnerFits, NewRow
<1> QED BY <1>1, OwnershipStep, TypesHold, PTL DEF RepoSpec

---------------------------------------------------------------------------
(* The dialogue.                                                           *)

(* The turn AddTurn stores has the next index, a new request, and is the   *)
(* only change.                                                            *)
LEMMA ContiguousAppend ==
  ASSUME RepoTypeOK, TurnsContiguous, NEW s \in Sessions, NEW q \in Requests,
         NEW by \in Runs \union {Nil}, AddTurn(s, q, by), ~HasTurn(s, q)
  PROVE  TurnsContiguous'
<1> DEFINE n == session[s].next
           new == [index |-> n, request |-> q, by |-> by]
<1>1. session[s] \in SessionRow /\ n \in Nat \ {0} BY DEF RepoTypeOK, SessionRow
<1>2. session' \in [Sessions -> SessionRow]
  <2>1. [session[s] EXCEPT !.next = @ + 1] \in SessionRow BY <1>1 DEF SessionRow
  <2> QED BY <2>1 DEF AddTurn, RepoTypeOK
<1>3. session'[s].next = n + 1 /\ session'[s].state = session[s].state
  BY <1>1 DEF AddTurn, RepoTypeOK, SessionRow
<1>4. turns'[s] = turns[s] \union {new} BY DEF AddTurn, RepoTypeOK
<1>5. ASSUME NEW z \in Sessions, z # s
      PROVE  turns'[z] = turns[z] /\ session'[z] = session[z]
  BY <1>5 DEF AddTurn, RepoTypeOK
<1>6. turns[s] \subseteq TurnRow BY DEF RepoTypeOK
<1>7. \A t \in turns[s] : t.index \in 1..(n - 1) BY DEF TurnsContiguous
<1>8. \A t \in turns'[s] : t.index \in 1..n BY <1>1, <1>4, <1>7
<1>9. ASSUME Open(s)' PROVE \A i \in 1..n : \E t \in turns'[s] : t.index = i
  <2>1. Open(s) BY <1>3, <1>9 DEF Open
  <2>2. \A i \in 1..(n - 1) : \E t \in turns[s] : t.index = i
    BY <2>1 DEF TurnsContiguous
  <2>3. ASSUME NEW i \in 1..n PROVE \E t \in turns'[s] : t.index = i
    <3>1. CASE i = n
      <4>1. new \in turns'[s] /\ new.index = n BY <1>4
      <4> QED BY <3>1, <4>1
    <3>2. CASE i # n
      <4>1. i \in 1..(n - 1) BY <1>1, <3>2
      <4> QED BY <1>4, <2>2, <4>1
    <3> QED BY <3>1, <3>2
  <2> QED BY <2>3
<1>10. ASSUME NEW t \in turns'[s], NEW u \in turns'[s],
              t.index = u.index \/ t.request = u.request
       PROVE  t = u
  <2>1. \A v \in turns[s] : v.index # n BY <1>1, <1>7
  <2>2. \A v \in turns[s] : v.request # q BY DEF HasTurn
  <2>3. CASE t \in turns[s] /\ u \in turns[s] BY <1>10, <2>3 DEF TurnsContiguous
  <2> QED BY <1>4, <1>10, <2>1, <2>2, <2>3
<1>11. (n + 1) - 1 = n BY <1>1
<1> QED BY <1>3, <1>5, <1>8, <1>9, <1>10, <1>11 DEF TurnsContiguous, Open

(* Both writers and the other statements keep the indices contiguous.      *)
LEMMA ContiguousStep ==
  ASSUME RepoTypeOK, TurnsContiguous, [RepoNext]_repoVars
  PROVE  TurnsContiguous'
<1>1. ASSUME UNCHANGED turns,
             \A s \in Sessions : session'[s].next = session[s].next,
             \A s \in Sessions : Open(s)' => Open(s) \/ session[s].next = 1
      PROVE  TurnsContiguous'
  BY <1>1 DEF TurnsContiguous
<1>2. UNCHANGED <<session, turns>> => TurnsContiguous' BY <1>1 DEF Open
<1>3. ASSUME NEW s \in Sessions, DeleteSession(s) PROVE TurnsContiguous'
  <2>1. session[s] \in SessionRow BY DEF RepoTypeOK
  <2>2. ~Open(s)' /\ turns'[s] = {}
    BY <1>3, <2>1 DEF DeleteSession, Open, RepoTypeOK, SessionRow
  <2>3. \A z \in Sessions : z # s => turns'[z] = turns[z] /\ session'[z] = session[z]
    BY <1>3 DEF DeleteSession, RepoTypeOK
  <2> QED BY <2>2, <2>3 DEF TurnsContiguous, Open
<1>4. ASSUME NEW s \in Sessions, CreateSession(s) \/ AllocateFencingToken(s)
      PROVE  TurnsContiguous'
  <2>1. \A z \in Sessions : session[z] \in SessionRow BY DEF RepoTypeOK
  <2>2. UNCHANGED turns BY <1>4 DEF CreateSession, AllocateFencingToken
  <2>3. CASE CreateSession(s)
    <3>1. session' = [session EXCEPT ![s].state = "open"] /\ session[s].state = "unborn"
      BY <2>3 DEF CreateSession
    <3>2. \A z \in Sessions : session'[z].next = session[z].next
      BY <2>1, <3>1 DEF RepoTypeOK, SessionRow
    <3>3. \A z \in Sessions : Open(z)' => Open(z) \/ session[z].next = 1
      BY <2>1, <3>1 DEF Open, RepoTypeOK, SessionRow
    <3> QED BY <1>1, <2>2, <3>2, <3>3
  <2>4. CASE AllocateFencingToken(s)
    <3>1. session' = [session EXCEPT ![s].fence = @ + 1] /\ Open(s)
      BY <2>4 DEF AllocateFencingToken
    <3>2. \A z \in Sessions : session'[z].next = session[z].next
      BY <2>1, <3>1 DEF RepoTypeOK, SessionRow
    <3>3. \A z \in Sessions : Open(z)' => Open(z)
      BY <2>1, <3>1 DEF Open, RepoTypeOK, SessionRow
    <3> QED BY <1>1, <2>2, <3>2, <3>3
  <2> QED BY <1>4, <2>3, <2>4
<1>5. ASSUME NEW s \in Sessions, NEW q \in Requests, AppendDialogueTurn(s, q)
      PROVE  TurnsContiguous'
  BY <1>5, ContiguousAppend DEF AppendDialogueTurn
<1>6. ASSUME NEW r \in Runs, NEW w \in Workers, NEW t \in Nat,
             CompleteWithTurn(r, w, t, session[run[r].session].next)
      PROVE  TurnsContiguous'
  <2>1. run[r].session \in Sessions /\ run[r].request \in Requests
    BY <1>6 DEF CompleteWithTurn, CompleteAccepts, RepoTypeOK, Anchored
  <2> QED BY <1>6, <2>1, ContiguousAppend DEF CompleteWithTurn, CompleteAccepts
<1>7. ASSUME \/ \E r \in Runs, s \in Sessions, q \in Requests : CreateRun(r, s, q)
             \/ \E r \in Runs : Rewrite(r)
             \/ InterruptStaleRuns
      PROVE  UNCHANGED <<session, turns>>
  BY <1>7 DEF CreateRun, Rewrite, InterruptStaleRuns
<1> QED BY TransactionKinds, <1>2, <1>3, <1>4, <1>5, <1>6, <1>7 DEF repoVars

(* The dialogue has no hole, no double index and no request answered       *)
(* twice, with a fenced writer (runs) and an unfenced one (product chat)   *)
(* on the same counter.                                                    *)
THEOREM TurnsContiguousHold == RepoSpec => []TurnsContiguous
<1>1. ASSUME RepoInit PROVE TurnsContiguous
  <2>1. \A s \in Sessions : turns[s] = {} /\ ~Open(s)
    BY <1>1 DEF RepoInit, Open
  <2> QED BY <2>1 DEF TurnsContiguous
<1> QED BY <1>1, ContiguousStep, TypesHold, PTL DEF RepoSpec

---------------------------------------------------------------------------
(* Answers.                                                                *)

(* An added turn leaves the other turns and the other sessions alone.      *)
LEMMA AddTurnAdds ==
  ASSUME RepoTypeOK, NEW s \in Sessions, NEW q, NEW by, AddTurn(s, q, by)
  PROVE  /\ turns'[s] = turns[s] \union {[index |-> session[s].next, request |-> q, by |-> by]}
         /\ \A z \in Sessions : z # s => turns'[z] = turns[z]
BY DEF AddTurn, RepoTypeOK

(* A completed run and its turn are never told apart again: no statement    *)
(* touches a completed row or a stored turn but the one deleting both.     *)
LEMMA AnsweredStep ==
  ASSUME RepoTypeOK, CompletedIffAnswered, [RepoNext]_repoVars
  PROVE  CompletedIffAnswered'
<1>0. run \in [Runs -> Row] /\ turns \in [Sessions -> SUBSET TurnRow] BY DEF RepoTypeOK
<1>1. ASSUME UNCHANGED turns,
             \A r \in Runs : run'[r] = run[r] \/
               (run[r].status # "completed" /\ run'[r].status # "completed")
      PROVE  CompletedIffAnswered'
  <2>1. ASSUME NEW r \in Runs, run'[r].status = "completed"
        PROVE  \E t \in turns'[run'[r].session] :
                 t.by = r /\ t.index = run'[r].result /\ t.request = run'[r].request
    BY <1>1, <2>1 DEF CompletedIffAnswered
  <2>2. ASSUME NEW s \in Sessions, NEW t \in turns'[s], t.by # Nil
        PROVE  /\ run'[t.by].status = "completed"
               /\ run'[t.by].session = s
               /\ run'[t.by].result = t.index
    <3>1. t \in TurnRow /\ t.by \in Runs BY <1>0, <1>1, <2>2 DEF TurnRow
    <3>2. /\ run[t.by].status = "completed"
          /\ run[t.by].session = s
          /\ run[t.by].result = t.index
      BY <1>1, <2>2 DEF CompletedIffAnswered
    <3> QED BY <1>1, <3>1, <3>2
  <2> QED BY <2>1, <2>2 DEF CompletedIffAnswered
<1>2. ASSUME NEW s \in Sessions, CreateSession(s) \/ AllocateFencingToken(s)
      PROVE  CompletedIffAnswered'
  BY <1>1, <1>2 DEF CreateSession, AllocateFencingToken
<1>3. ASSUME NEW r \in Runs, NEW s \in Sessions, NEW q \in Requests, CreateRun(r, s, q)
      PROVE  CompletedIffAnswered'
  <2>1. \A o \in Runs : run'[o] = run[o] \/
          (run[o].status # "completed" /\ run'[o].status # "completed")
    BY <1>0, <1>3 DEF CreateRun, SetRow, NewRow
  <2> QED BY <1>1, <1>3, <2>1 DEF CreateRun
<1>4. ASSUME NEW r \in Runs, Rewrite(r) PROVE CompletedIffAnswered'
  <2>1. \A o \in Runs : run'[o] = run[o] \/
          (run[o].status # "completed" /\ run'[o].status # "completed")
    BY <1>0, <1>4 DEF Rewrite, Moves, Active, Recoverable
  <2> QED BY <1>1, <1>4, <2>1 DEF Rewrite
<1>5. CASE InterruptStaleRuns
  <2>1. \A o \in Runs : run'[o] = run[o] \/
          (run[o].status # "completed" /\ run'[o].status # "completed")
    BY <1>0, <1>5 DEF InterruptStaleRuns, StaleRuns, Recoverable, Row
  <2> QED BY <1>1, <1>5, <2>1 DEF InterruptStaleRuns
<1>6. ASSUME NEW s \in Sessions, DeleteSession(s) PROVE CompletedIffAnswered'
  <2>1. \A o \in Runs :
          \/ run'[o] = run[o] /\ (run[o].status = "completed" => run[o].session # s)
          \/ run'[o].status = "deleted" /\ run[o].session = s
    BY <1>0, <1>6 DEF DeleteSession, Exists, Terminal, Row
  <2>2. turns'[s] = {} /\ \A z \in Sessions : z # s => turns'[z] = turns[z]
    BY <1>0, <1>6 DEF DeleteSession
  <2>3. ASSUME NEW r \in Runs, run'[r].status = "completed"
        PROVE  \E t \in turns'[run'[r].session] :
                 t.by = r /\ t.index = run'[r].result /\ t.request = run'[r].request
    <3>1. run'[r] = run[r] /\ run[r].session # s BY <2>1, <2>3
    <3>2. run[r].session \in Sessions BY <2>3, <3>1 DEF RepoTypeOK, Anchored
    <3> QED BY <2>2, <2>3, <3>1, <3>2 DEF CompletedIffAnswered
  <2>4. ASSUME NEW z \in Sessions, NEW t \in turns'[z], t.by # Nil
        PROVE  /\ run'[t.by].status = "completed"
               /\ run'[t.by].session = z
               /\ run'[t.by].result = t.index
    <3>1. z # s /\ t \in turns[z] BY <2>2, <2>4
    <3>2. t.by \in Runs BY <1>0, <2>4, <3>1 DEF TurnRow
    <3>3. /\ run[t.by].status = "completed"
          /\ run[t.by].session = z
          /\ run[t.by].result = t.index
      BY <2>4, <3>1 DEF CompletedIffAnswered
    <3> QED BY <2>1, <3>1, <3>2, <3>3
  <2> QED BY <2>3, <2>4 DEF CompletedIffAnswered
<1>7. ASSUME NEW s \in Sessions, NEW q \in Requests, AppendDialogueTurn(s, q)
      PROVE  CompletedIffAnswered'
  <2>1. UNCHANGED run /\ AddTurn(s, q, Nil) BY <1>7 DEF AppendDialogueTurn
  <2>2. \A z \in Sessions : turns[z] \subseteq turns'[z] BY <2>1, AddTurnAdds
  <2>3. \A z \in Sessions : \A t \in turns'[z] : t.by # Nil => t \in turns[z]
    BY <2>1, AddTurnAdds
  <2>4. \A r \in Runs : run[r].status = "completed" => run[r].session \in Sessions
    BY DEF RepoTypeOK, Anchored
  <2> QED BY <2>1, <2>2, <2>3, <2>4 DEF CompletedIffAnswered
<1>8. ASSUME NEW r \in Runs, NEW w \in Workers, NEW k \in Nat,
             CompleteWithTurn(r, w, k, session[run[r].session].next)
      PROVE  CompletedIffAnswered'
  <2> DEFINE s   == run[r].session
             n   == session[s].next
             new == [index |-> n, request |-> run[r].request, by |-> r]
  <2>1. run[r].status = "running" /\ AddTurn(s, run[r].request, r)
    BY <1>8 DEF CompleteWithTurn, CompleteAccepts
  <2>2. s \in Sessions BY <2>1 DEF RepoTypeOK, Anchored
  <2>3. turns'[s] = turns[s] \union {new} /\ \A z \in Sessions : z # s => turns'[z] = turns[z]
    BY <2>1, <2>2, AddTurnAdds
  <2>4. /\ run'[r].status = "completed"
        /\ run'[r].session = s
        /\ run'[r].request = run[r].request
        /\ run'[r].result = n
    <3>1. run[r] \in Row BY <1>0
    <3>2. run'[r] = [run[r] EXCEPT !.status = "completed", !.result = n,
                                   !.heartbeat = "fresh", !.checkpoint = FALSE]
      BY <1>0, <1>8 DEF CompleteWithTurn, SetRow
    <3> QED BY <3>1, <3>2 DEF Row
  <2>5. \A o \in Runs : o # r => run'[o] = run[o]
    BY <1>0, <1>8 DEF CompleteWithTurn, SetRow
  <2>6. ASSUME NEW o \in Runs, run'[o].status = "completed"
        PROVE  \E t \in turns'[run'[o].session] :
                 t.by = o /\ t.index = run'[o].result /\ t.request = run'[o].request
    <3>1. CASE o = r
      <4>1. new \in turns'[s] BY <2>3
      <4> QED BY <2>4, <3>1, <4>1
    <3>2. CASE o # r
      <4>1. run'[o] = run[o] BY <2>5, <3>2
      <4>2. run[o].session \in Sessions BY <2>6, <4>1 DEF RepoTypeOK, Anchored
      <4>3. turns[run[o].session] \subseteq turns'[run[o].session] BY <2>3, <4>2
      <4> QED BY <2>6, <4>1, <4>3 DEF CompletedIffAnswered
    <3> QED BY <3>1, <3>2
  <2>7. ASSUME NEW z \in Sessions, NEW t \in turns'[z], t.by # Nil
        PROVE  /\ run'[t.by].status = "completed"
               /\ run'[t.by].session = z
               /\ run'[t.by].result = t.index
    <3>1. CASE t \in turns[z]
      <4>1. t.by \in Runs BY <1>0, <2>7, <3>1 DEF TurnRow
      <4>2. /\ run[t.by].status = "completed"
            /\ run[t.by].session = z
            /\ run[t.by].result = t.index
        BY <2>7, <3>1 DEF CompletedIffAnswered
      <4> QED BY <2>1, <2>5, <4>1, <4>2
    <3>2. CASE t \notin turns[z]
      <4>1. z = s /\ t = new BY <2>3, <2>7, <3>2
      <4> QED BY <2>4, <4>1
    <3> QED BY <3>1, <3>2
  <2> QED BY <2>6, <2>7 DEF CompletedIffAnswered
<1>9. CASE UNCHANGED repoVars
  BY <1>1, <1>9 DEF repoVars
<1> QED BY TransactionKinds, <1>2, <1>3, <1>4, <1>5, <1>6, <1>7, <1>8, <1>9

(* A run reads completed exactly when the dialogue holds its answer, under  *)
(* its own request: no crash or race leaves an answer without its run or a *)
(* finished run without its answer.                                        *)
THEOREM CompletedIffAnsweredHolds == RepoSpec => []CompletedIffAnswered
<1>1. ASSUME RepoInit PROVE CompletedIffAnswered
  <2>1. \A s \in Sessions : turns[s] = {} BY <1>1 DEF RepoInit
  <2>2. \A r \in Runs : run[r].status = "absent" BY <1>1 DEF RepoInit, NewRow
  <2> QED BY <2>1, <2>2 DEF CompletedIffAnswered
<1> QED BY <1>1, AnsweredStep, TypesHold, PTL DEF RepoSpec

---------------------------------------------------------------------------
(* What a step may not do.                                                 *)

(* The status a row may take next, whatever the transaction.               *)
LEMMA RowSteps ==
  ASSUME RepoTypeOK, RepoNext, NEW o \in Runs
  PROVE  /\ run[o].status \in Terminal => run'[o] = run[o] \/ run'[o].status = "deleted"
         /\ run[o].status = "cancel_requested" =>
              run'[o].status \in {"cancel_requested", "cancelled", "interrupted", "deleted"}
<1>0. run \in [Runs -> Row] /\ run[o] \in Row BY DEF RepoTypeOK
<1>1. ASSUME NEW s \in Sessions, DeleteSession(s)
      PROVE  run'[o] = run[o] \/ run'[o].status = "deleted"
  BY <1>0, <1>1 DEF DeleteSession, Row
<1>2. ASSUME NEW r \in Runs, NEW s \in Sessions, NEW q \in Requests, CreateRun(r, s, q),
             run[o].status # "absent"
      PROVE  run'[o] = run[o]
  BY <1>0, <1>2 DEF CreateRun, SetRow
<1>3. ASSUME NEW r \in Runs, Rewrite(r)
      PROVE  run'[o] = run[o] \/ Moves(run[o].status, run'[o].status)
  BY <1>0, <1>3 DEF Rewrite
<1>4. ASSUME NEW r \in Runs, NEW w \in Workers, NEW t \in Nat,
             CompleteWithTurn(r, w, t, session[run[r].session].next),
             run[o].status # "running"
      PROVE  run'[o] = run[o]
  BY <1>0, <1>4 DEF CompleteWithTurn, CompleteAccepts, SetRow
<1>5. CASE InterruptStaleRuns
  <2>1. \/ run'[o] = run[o]
        \/ run[o].status \in Recoverable /\ run'[o].status = "interrupted"
    BY <1>0, <1>5 DEF InterruptStaleRuns, StaleRuns, Row
  <2> QED BY <2>1 DEF Recoverable, Terminal
<1>6. ASSUME NEW s \in Sessions,
             \/ CreateSession(s)
             \/ AllocateFencingToken(s)
             \/ \E q \in Requests : AppendDialogueTurn(s, q)
      PROVE  UNCHANGED run
  BY <1>6 DEF CreateSession, AllocateFencingToken, AppendDialogueTurn
<1> QED BY TransactionKinds, <1>1, <1>2, <1>3, <1>4, <1>5, <1>6
        DEF Moves, Active, Recoverable, Terminal

(* An ended run is never written again: not by a late heartbeat, failure,   *)
(* sweep, cancel or commit.                                                *)
THEOREM TerminalRunsAreFinal == RepoSpec => TerminalIsFinal
<1>1. ASSUME RepoTypeOK, [RepoNext]_repoVars
      PROVE  [\A r \in Runs : run[r].status \in Terminal =>
                run'[r] = run[r] \/ run'[r].status = "deleted"]_repoVars
  BY <1>1, RowSteps
<1> QED BY <1>1, TypesHold, PTL DEF RepoSpec, TerminalIsFinal

(* A recorded cancel is not overtaken by an answer or a pause.             *)
THEOREM CancelsStick == RepoSpec => CancelSticks
<1>1. ASSUME RepoTypeOK, [RepoNext]_repoVars
      PROVE  [\A r \in Runs : run[r].status = "cancel_requested" =>
                run'[r].status \in {"cancel_requested", "cancelled", "interrupted",
                                    "deleted"}]_repoVars
  BY <1>1, RowSteps
<1> QED BY <1>1, TypesHold, PTL DEF RepoSpec, CancelSticks

---------------------------------------------------------------------------
(* What the callers of the repository use: which statements RepoSpec        *)
(* allows, and what outlasts every step.                                   *)

(* A live row names a session whose counters are numbers.                  *)
LEMMA HomeIsASession ==
  ASSUME RepoTypeOK, NEW r \in Runs, run[r].status # "absent"
  PROVE  /\ Home(r) \in Sessions
         /\ session[Home(r)] \in SessionRow
         /\ run[r].request \in Requests
BY DEF RepoTypeOK, Anchored, Home

(* A worker may start, pause or complete a run with a token its session     *)
(* has allocated.                                                          *)
LEMMA OwnerCalls ==
  ASSUME RepoTypeOK, NEW r \in Runs, NEW w \in Workers,
         NEW t \in 1..session[Home(r)].fence, NEW n,
         \/ MarkRunning(r, w, t)
         \/ MarkWaitingInput(r, w, t)
         \/ CompleteWithTurn(r, w, t, n)
  PROVE  RepoNext
<1>1. Exists(r) /\ run[r].status # "absent"
  BY DEF MarkRunning, MarkWaitingInput, PauseAccepts, CompleteWithTurn, CompleteAccepts,
         Exists, Active, Terminal
<1>2. CompleteWithTurn(r, w, t, n) => CompleteWithTurn(r, w, t, session[run[r].session].next)
  BY DEF CompleteWithTurn, CompleteAccepts
<1>3. OwnerNext(r, w) BY <1>1, <1>2 DEF OwnerNext, Home
<1> QED BY <1>3 DEF RepoNext, RunNext

(* A statement anybody may issue at any time, or none.                     *)
FreeCall ==
  \/ UNCHANGED repoVars
  \/ SessionNext
  \/ InterruptStaleRuns
  \/ \E r \in Runs :
       \/ \E s \in Sessions, q \in Requests : CreateRun(r, s, q)
       \/ \E w \in Workers : UpdateHeartbeat(r, w)
       \/ ResumeCheckpoint(r)
       \/ RequestCancel(r)
       \/ \E w \in Workers \union {Nil} :
            MarkCancelled(r, w) \/ MarkFailed(r, w) \/ MarkInterrupted(r, w)
       \/ PassCutoff(r)

(* RepoSpec allows them all.                                              *)
LEMMA FreeCallsAllowed == FreeCall => [RepoNext]_repoVars
BY DEF FreeCall, RepoNext, RunNext, OwnerNext

LEMMA MarksAreFree ==
  ASSUME NEW r \in Runs, NEW w \in Workers \union {Nil},
         \/ MarkCancelled(r, w)
         \/ MarkFailed(r, w)
         \/ MarkInterrupted(r, w)
  PROVE  FreeCall
BY DEF FreeCall

(* A run keeps its row and its session; a session's tokens only grow.      *)
LEMMA RowsStay ==
  ASSUME RepoTypeOK, [RepoNext]_repoVars, NEW r \in Runs, run[r].status # "absent"
  PROVE  /\ run'[r].status # "absent"
         /\ run'[r].session = run[r].session
         /\ session'[Home(r)].fence >= session[Home(r)].fence
<1>0. /\ run \in [Runs -> Row] /\ run[r] \in Row
      /\ session \in [Sessions -> SessionRow]
      /\ Home(r) \in Sessions /\ session[Home(r)].fence \in Nat
  BY HomeIsASession DEF RepoTypeOK, SessionRow
<1>1. CASE UNCHANGED repoVars
  BY <1>0, <1>1 DEF repoVars
<1>2. ASSUME NEW s \in Sessions,
             \/ CreateSession(s)
             \/ AllocateFencingToken(s)
             \/ \E q \in Requests : AppendDialogueTurn(s, q)
      PROVE  run' = run /\ session'[Home(r)].fence >= session[Home(r)].fence
  BY <1>0, <1>2 DEF CreateSession, AllocateFencingToken, AppendDialogueTurn, AddTurn, SessionRow
<1>3. ASSUME NEW s \in Sessions, DeleteSession(s)
      PROVE  /\ run'[r] = run[r] \/ run'[r] = [run[r] EXCEPT !.status = "deleted"]
             /\ session'[Home(r)].fence = session[Home(r)].fence
  BY <1>0, <1>3 DEF DeleteSession, SessionRow
<1>4. ASSUME NEW o \in Runs, Rewrite(o)
      PROVE  /\ run'[r].status # "absent"
             /\ run'[r].session = run[r].session
             /\ session' = session
  <2>1. PICK row \in Row :
          /\ run' = [run EXCEPT ![o] = row]
          /\ row.session = run[o].session
          /\ Moves(run[o].status, row.status)
    BY <1>4 DEF Rewrite
  <2>2. row.status # "absent" BY <2>1 DEF Moves, Active
  <2> QED BY <1>0, <1>4, <2>1, <2>2 DEF Rewrite
<1>5. ASSUME NEW o \in Runs, NEW s \in Sessions, NEW q \in Requests, CreateRun(o, s, q)
      PROVE  run'[r] = run[r] /\ session' = session
  BY <1>0, <1>5 DEF CreateRun, SetRow
<1>6. ASSUME NEW o \in Runs, NEW w \in Workers, NEW t \in Nat, NEW n,
             CompleteWithTurn(o, w, t, n)
      PROVE  /\ run'[r].status # "absent"
             /\ run'[r].session = run[r].session
             /\ session'[Home(r)].fence = session[Home(r)].fence
  BY <1>0, <1>6 DEF CompleteWithTurn, SetRow, AddTurn, Row, SessionRow
<1>7. ASSUME InterruptStaleRuns
      PROVE  /\ run'[r].status # "absent"
             /\ run'[r].session = run[r].session
             /\ session' = session
  BY <1>0, <1>7 DEF InterruptStaleRuns, Row
<1>8. CASE RepoNext
  BY <1>0, <1>2, <1>3, <1>4, <1>5, <1>6, <1>7, <1>8, TransactionKinds DEF Row
<1> QED BY <1>1, <1>8

(* A row that went with its session does not come back.                    *)
LEMMA DeletedStays ==
  ASSUME RepoTypeOK, RepoNext, NEW r \in Runs, run[r].status = "deleted"
  PROVE  run'[r].status = "deleted"
<1>0. run \in [Runs -> Row] /\ run[r] \in Row BY DEF RepoTypeOK
<1>1. ASSUME NEW s \in Sessions,
             \/ CreateSession(s) \/ AllocateFencingToken(s)
             \/ \E q \in Requests : AppendDialogueTurn(s, q)
      PROVE  run' = run
  BY <1>1 DEF CreateSession, AllocateFencingToken, AppendDialogueTurn
<1>2. ASSUME NEW s \in Sessions, DeleteSession(s)
      PROVE  run'[r].status = "deleted"
  BY <1>0, <1>2 DEF DeleteSession, Row
<1>3. ASSUME NEW o \in Runs, NEW s \in Sessions, NEW q \in Requests, CreateRun(o, s, q)
      PROVE  run'[r] = run[r]
  BY <1>0, <1>3 DEF CreateRun, SetRow
<1>4. ASSUME NEW o \in Runs, Rewrite(o)
      PROVE  run'[r] = run[r]
  BY <1>0, <1>4 DEF Rewrite, Moves, Active, Recoverable
<1>5. ASSUME NEW o \in Runs, NEW w \in Workers, NEW t, NEW n, CompleteWithTurn(o, w, t, n)
      PROVE  run'[r] = run[r]
  BY <1>0, <1>5 DEF CompleteWithTurn, CompleteAccepts, SetRow
<1>6. ASSUME InterruptStaleRuns
      PROVE  run'[r] = run[r]
  BY <1>0, <1>6 DEF InterruptStaleRuns, StaleRuns, Recoverable
<1> QED BY <1>1, <1>2, <1>3, <1>4, <1>5, <1>6, TransactionKinds

---------------------------------------------------------------------------
(* The ledger.                                                             *)

(* A row nobody has inserted names no session.                             *)
BlankInv == \A r \in Runs : run[r].status = "absent" => run[r].session = Nil

LedgerInv == RepoTypeOK /\ TurnsContiguous /\ BlankInv

PhaseMap    == [r \in Runs |-> PhaseOf(run[r].status)]
HomeMap     == [r \in Runs |-> run[r].session]
DialogueMap == [s \in Sessions |-> DialogueOf(s)]
GoneMap     == {s \in Sessions : session[s].state = "deleted"}

LEMMA BlankStep ==
  ASSUME RepoTypeOK, BlankInv, [RepoNext]_repoVars
  PROVE  BlankInv'
<1>1. CASE UNCHANGED repoVars BY <1>1 DEF repoVars, BlankInv
<1>2. ASSUME NEW s \in Sessions, CreateSession(s) \/ AllocateFencingToken(s)
      PROVE  BlankInv'
  BY <1>2 DEF CreateSession, AllocateFencingToken, BlankInv
<1>3. ASSUME NEW s \in Sessions, DeleteSession(s) PROVE BlankInv'
  <2> SUFFICES ASSUME NEW r \in Runs, run'[r].status = "absent" PROVE run'[r].session = Nil
    BY DEF BlankInv
  <2>1. run[r] \in Row BY DEF RepoTypeOK
  <2>2. run'[r] = run[r] BY <1>3, <2>1 DEF DeleteSession, Row
  <2> QED BY <2>2 DEF BlankInv
<1>4. ASSUME NEW s \in Sessions, NEW q \in Requests, AppendDialogueTurn(s, q) PROVE BlankInv'
  BY <1>4 DEF AppendDialogueTurn, BlankInv
<1>5. ASSUME NEW r \in Runs, NEW s \in Sessions, NEW q \in Requests, CreateRun(r, s, q)
      PROVE  BlankInv'
  BY <1>5 DEF CreateRun, SetRow, NewRow, BlankInv, RepoTypeOK
<1>6. ASSUME NEW r \in Runs, Rewrite(r) PROVE BlankInv'
  BY <1>6 DEF Rewrite, Moves, Active, Recoverable, BlankInv, RepoTypeOK
<1>7. ASSUME NEW r \in Runs, NEW w \in Workers, NEW t \in Nat,
             CompleteWithTurn(r, w, t, session[run[r].session].next)
      PROVE  BlankInv'
  <2>1. run[r] \in Row BY DEF RepoTypeOK
  <2> DEFINE row == [run[r] EXCEPT !.status = "completed",
                                   !.result = session[run[r].session].next,
                                   !.heartbeat = "fresh", !.checkpoint = FALSE]
  <2>2. row.status = "completed" BY <2>1 DEF Row
  <2>3. run' = [run EXCEPT ![r] = row] BY <1>7 DEF CompleteWithTurn, SetRow
  <2> QED BY <2>2, <2>3 DEF BlankInv, RepoTypeOK
<1>8. ASSUME InterruptStaleRuns PROVE BlankInv'
  <2> SUFFICES ASSUME NEW r \in Runs, run'[r].status = "absent" PROVE run'[r].session = Nil
    BY DEF BlankInv
  <2>1. run[r] \in Row BY DEF RepoTypeOK
  <2>2. run'[r] = run[r] BY <1>8, <2>1 DEF InterruptStaleRuns, Row
  <2> QED BY <2>2 DEF BlankInv
<1> QED BY <1>1, <1>2, <1>3, <1>4, <1>5, <1>6, <1>7, <1>8, TransactionKinds

LEMMA LedgerInvHolds == RepoSpec => []LedgerInv
<1>1. RepoInit => BlankInv BY DEF RepoInit, BlankInv, NewRow
<1>2. RepoTypeOK /\ BlankInv /\ [RepoNext]_repoVars => BlankInv' BY BlankStep
<1> QED BY <1>1, <1>2, TypesHold, TurnsContiguousHold, PTL DEF RepoSpec, LedgerInv

---------------------------------------------------------------------------
(* The dialogue, read off the turns.                                       *)

(* A session whose counter, state and turns stay has the same dialogue.    *)
LEMMA DialogueStays ==
  ASSUME NEW s \in Sessions, session'[s].state = session[s].state,
         session'[s].next = session[s].next, turns'[s] = turns[s]
  PROVE  DialogueOf(s)' = DialogueOf(s)
BY DEF DialogueOf, TurnAt, Open

(* The turn at an index is the only one with it.                           *)
LEMMA OneTurnAt ==
  ASSUME TurnsContiguous, NEW s \in Sessions, Open(s),
         NEW i \in 1..(session[s].next - 1)
  PROVE  /\ TurnAt(s, i) \in turns[s]
         /\ TurnAt(s, i).index = i
         /\ \A t \in turns[s] : t.index = i => t = TurnAt(s, i)
<1>1. PICK t \in turns[s] : t.index = i BY DEF TurnsContiguous
<1>2. \A u \in turns[s] : u.index = i => u = t BY <1>1 DEF TurnsContiguous
<1>3. TurnAt(s, i) = t BY <1>1, <1>2 DEF TurnAt
<1> QED BY <1>1, <1>2, <1>3

(* A function on 1 .. n is a sequence of that length.                      *)
LEMMA FunctionIsSeq ==
  ASSUME NEW S, NEW n \in Nat, NEW f \in [1..n -> S]
  PROVE  f \in Seq(S) /\ Len(f) = n
<1>1. f \in Seq(S) BY SeqDef
<1>2. Len(f) = n BY <1>1, LenProperties
<1> QED BY <1>1, <1>2

Entries == [request: Requests, by: Runs \union {Nil}]

(* An open session's dialogue has one entry below its counter per turn.    *)
LEMMA DialogueType ==
  ASSUME RepoTypeOK, TurnsContiguous, NEW s \in Sessions, Open(s)
  PROVE  DialogueOf(s) \in Seq(Entries) /\ Len(DialogueOf(s)) = session[s].next - 1
<1>1. session[s].next - 1 \in Nat /\ turns[s] \subseteq TurnRow
  BY DEF RepoTypeOK, SessionRow
<1>2. ASSUME NEW i \in 1..(session[s].next - 1)
      PROVE  [request |-> TurnAt(s, i).request, by |-> TurnAt(s, i).by] \in Entries
  <2>1. TurnAt(s, i) \in TurnRow BY <1>1, OneTurnAt
  <2> QED BY <2>1 DEF TurnRow, Entries
<1>3. DialogueOf(s) \in [1..(session[s].next - 1) -> Entries] BY <1>2 DEF DialogueOf
<1> QED BY <1>1, <1>3, FunctionIsSeq

(* Adding a turn at the counter appends its entry to the dialogue, and no   *)
(* earlier entry is about the same request.                                *)
LEMMA DialogueGrows ==
  ASSUME RepoTypeOK, TurnsContiguous, NEW s \in Sessions, Open(s), NEW q \in Requests,
         NEW by \in Runs \union {Nil},
         ~HasTurn(s, q), AddTurn(s, q, by)
  PROVE  /\ \A i \in DOMAIN DialogueMap[s] : DialogueMap[s][i].request # q
         /\ DialogueMap' = [DialogueMap EXCEPT ![s] = Append(@, [request |-> q, by |-> by])]
<1> DEFINE n == session[s].next
           new == [index |-> n, request |-> q, by |-> by]
           entry == [request |-> q, by |-> by]
<1>0. n \in Nat \ {0} /\ session[s] \in SessionRow BY DEF RepoTypeOK, SessionRow
<1>1. DialogueMap[s] = DialogueOf(s) BY DEF DialogueMap
<1>2. ASSUME NEW i \in DOMAIN DialogueMap[s] PROVE DialogueMap[s][i].request # q
  <2>1. i \in 1..(session[s].next - 1) BY <1>1 DEF DialogueOf
  <2>2. TurnAt(s, i) \in turns[s] BY <2>1, OneTurnAt
  <2>3. DialogueOf(s)[i].request = TurnAt(s, i).request BY <2>1 DEF DialogueOf
  <2> QED BY <1>1, <2>2, <2>3 DEF HasTurn
<1>3. session' = [session EXCEPT ![s] = [session[s] EXCEPT !.next = n + 1]]
  BY DEF AddTurn
<1>4. session'[s].next = n + 1 /\ session'[s].state = "open"
  BY <1>0, <1>3 DEF RepoTypeOK, SessionRow, Open
<1>5. turns'[s] = turns[s] \union {new} BY DEF AddTurn, RepoTypeOK
<1>6. DialogueOf(s)' = [i \in 1..n |-> [request |-> TurnAt(s, i)'.request,
                                         by |-> TurnAt(s, i)'.by]]
  <2>1. session'[s].next - 1 = n BY <1>0, <1>4
  <2> QED BY <1>4, <2>1 DEF DialogueOf, Open
<1>7. \A t \in turns[s] : t.index \in 1..(n - 1) BY DEF TurnsContiguous
<1>8. ASSUME NEW i \in {n} PROVE TurnAt(s, i)' = new
  <2>1. \A t \in turns'[s] : t.index = n => t = new BY <1>0, <1>5, <1>7
  <2>2. new \in turns'[s] /\ new.index = n BY <1>5
  <2> HIDE DEF n, new
  <2> QED BY <1>8, <2>1, <2>2 DEF TurnAt
<1>9. ASSUME NEW i \in 1..(n - 1) PROVE TurnAt(s, i)' = TurnAt(s, i)
  <2>1. /\ TurnAt(s, i) \in turns'[s] /\ TurnAt(s, i).index = i
        /\ \A t \in turns'[s] : t.index = i => t = TurnAt(s, i)
    BY <1>0, <1>5, OneTurnAt
  <2> HIDE DEF n
  <2> QED BY <2>1 DEF TurnAt
<1>10. DialogueOf(s) \in Seq(Entries) /\ Len(DialogueOf(s)) = n - 1 /\ entry \in Entries
  BY DialogueType DEF Entries
<1>11. ASSUME NEW i \in 1..(n - 1) PROVE DialogueOf(s)'[i] = DialogueOf(s)[i]
  <2>1. i \in 1..n BY <1>0
  <2> QED BY <1>6, <1>9, <2>1 DEF DialogueOf
<1>12. n \in 1..n /\ DialogueOf(s)'[n] = entry
  <2>1. n \in 1..n BY <1>0
  <2>2. ASSUME NEW i \in {n} PROVE DialogueOf(s)'[i] = entry BY <1>6, <1>8, <2>1
  <2> QED BY <2>1, <2>2
<1>13. DialogueOf(s)' = Append(DialogueOf(s), entry)
  <2>1. ASSUME NEW i \in 1..n PROVE DialogueOf(s)'[i] \in Entries
    <3>1. CASE i = n BY <3>1, <1>10, <1>12
    <3>2. CASE i # n
      <4>1. i \in 1..(n - 1) BY <3>2, <1>0
      <4>2. DialogueOf(s)[i] \in Entries BY <4>1, <1>10, ElementOfSeq
      <4> QED BY <4>1, <4>2, <1>11
    <3> QED BY <3>1, <3>2
  <2>2. DialogueOf(s)' \in [1..n -> Entries] BY <1>6, <2>1
  <2>3. DialogueOf(s)' \in Seq(Entries) /\ Len(DialogueOf(s)') = n
    BY <1>0, <2>2, FunctionIsSeq
  <2>4. /\ Append(DialogueOf(s), entry) \in Seq(Entries)
        /\ Len(Append(DialogueOf(s), entry)) = n
        /\ \A i \in 1..(n - 1) : Append(DialogueOf(s), entry)[i] = DialogueOf(s)[i]
        /\ Append(DialogueOf(s), entry)[n] = entry
    BY <1>0, <1>10, AppendProperties
  <2>5. \A i \in 1..n : DialogueOf(s)'[i] = Append(DialogueOf(s), entry)[i]
    BY <1>0, <1>11, <1>12, <2>4
  <2> HIDE DEF n, entry
  <2> QED BY <2>3, <2>4, <2>5, SeqEqual
<1>14. ASSUME NEW z \in Sessions, z # s PROVE DialogueOf(z)' = DialogueOf(z)
  BY <1>3, <1>14, DialogueStays DEF AddTurn, RepoTypeOK
<1> QED BY <1>1, <1>2, <1>13, <1>14 DEF DialogueMap

---------------------------------------------------------------------------
(* Every transaction is a step of the ledger or a stutter.                 *)

(* A function of an empty domain is the empty sequence.                    *)
LEMMA EmptyFunction ==
  ASSUME NEW S, NEW f \in [1..0 -> S]
  PROVE  f = <<>>
<1>1. f \in Seq(S) /\ Len(f) = 0 BY FunctionIsSeq
<1>2. <<>> \in Seq(S) /\ Len(<<>>) = 0 OBVIOUS
<1> QED BY <1>1, <1>2, SeqEqual

(* A row rewritten in place moves its run through the ledger's phases.      *)
LEMMA RewriteMaps ==
  ASSUME RepoTypeOK, NEW r \in Runs, Rewrite(r)
  PROVE  [Ledger!Next]_<<PhaseMap, HomeMap, DialogueMap, GoneMap>>
<1>1. UNCHANGED <<session, turns>> BY DEF Rewrite
<1>2. PICK row \in Row : /\ run' = [run EXCEPT ![r] = row]
                         /\ row.session = run[r].session
                         /\ Moves(run[r].status, row.status)
  BY DEF Rewrite
<1>3. DialogueMap' = DialogueMap /\ GoneMap' = GoneMap
  BY <1>1 DEF DialogueMap, GoneMap, DialogueOf, TurnAt, Open
<1>4. HomeMap' = HomeMap BY <1>2 DEF HomeMap, RepoTypeOK
<1>5. PhaseMap' = [PhaseMap EXCEPT ![r] = PhaseOf(row.status)]
  BY <1>2 DEF PhaseMap, RepoTypeOK
<1>6. PhaseMap[r] = PhaseOf(run[r].status) /\ PhaseMap \in [Runs -> {PhaseMap[x] : x \in Runs}]
  BY DEF PhaseMap
<1>7. CASE PhaseOf(row.status) = PhaseMap[r]
  BY <1>3, <1>4, <1>5, <1>6, <1>7
<1>8. CASE PhaseOf(row.status) # PhaseMap[r]
  <2>1. \/ PhaseMap[r] = "working" /\ PhaseOf(row.status) \in {"asking", "stopping", "failed", "interrupted"}
        \/ PhaseMap[r] = "asking" /\ PhaseOf(row.status) \in {"working", "cancelled"}
        \/ PhaseMap[r] = "stopping" /\ PhaseOf(row.status) \in {"cancelled", "interrupted"}
    BY <1>2, <1>6, <1>8 DEF Moves, PhaseOf, Active, Recoverable
  <2>2. CASE PhaseOf(row.status) = "interrupted"
    <3>1. PhaseMap' = [x \in Runs |-> IF x \in {r} THEN "interrupted" ELSE PhaseMap[x]]
      BY <1>5, <1>6, <2>2
    <3>2. Ledger!Interrupt({r})
      BY <1>3, <1>4, <2>1, <2>2, <3>1 DEF Ledger!Interrupt, PhaseMap, HomeMap, DialogueMap, GoneMap
    <3> QED BY <3>2 DEF Ledger!Next
  <2>3. CASE PhaseOf(row.status) # "interrupted"
    <3>1. Ledger!Ask(r) \/ Ledger!Resume(r) \/ Ledger!Stop(r) \/ Ledger!Cancel(r) \/ Ledger!Fail(r)
      BY <1>3, <1>4, <1>5, <2>1, <2>3
      DEF Ledger!Ask, Ledger!Resume, Ledger!Stop, Ledger!Cancel, Ledger!Fail, Ledger!Move,
          PhaseMap, HomeMap, DialogueMap, GoneMap
    <3> QED BY <3>1 DEF Ledger!Next
  <2> QED BY <2>2, <2>3
<1> QED BY <1>7, <1>8

(* A new session's dialogue is empty before and after, and a fencing token  *)
(* is none of the client's business.                                       *)
LEMMA SessionRowMaps ==
  ASSUME RepoTypeOK, NEW s \in Sessions,
         CreateSession(s) \/ AllocateFencingToken(s)
  PROVE  UNCHANGED <<PhaseMap, HomeMap, DialogueMap, GoneMap>>
<1>1. session \in [Sessions -> SessionRow] BY DEF RepoTypeOK
<1>2. PhaseMap' = PhaseMap /\ HomeMap' = HomeMap
  BY DEF CreateSession, AllocateFencingToken, PhaseMap, HomeMap
<1>3. GoneMap' = GoneMap
  BY <1>1 DEF CreateSession, AllocateFencingToken, GoneMap, Open, SessionRow
<1>4. ASSUME NEW z \in Sessions PROVE DialogueOf(z)' = DialogueOf(z)
  <2>1. CASE CreateSession(s) /\ z = s
    <3>1. session[s].state = "unborn" /\ session[s].next = 1
      BY <2>1 DEF CreateSession, RepoTypeOK
    <3>2. session'[s].state = "open" /\ session'[s].next = 1
      BY <1>1, <2>1, <3>1 DEF CreateSession, SessionRow
    <3>3. DialogueOf(s) = <<>> BY <3>1 DEF DialogueOf, Open
    <3>4. DialogueOf(s)' \in [1..0 -> Entries] BY <3>2 DEF DialogueOf, Open
    <3> QED BY <2>1, <3>3, <3>4, EmptyFunction
  <2>2. CASE ~(CreateSession(s) /\ z = s)
    <3>1. /\ session'[z].state = session[z].state
          /\ session'[z].next = session[z].next
          /\ turns'[z] = turns[z]
      BY <1>1, <2>2 DEF CreateSession, AllocateFencingToken, SessionRow
    <3> QED BY <3>1, DialogueStays
  <2> QED BY <2>1, <2>2
<1> QED BY <1>2, <1>3, <1>4 DEF DialogueMap

LEMMA CreateRunMaps ==
  ASSUME RepoTypeOK, NEW r \in Runs, NEW s \in Sessions, NEW q \in Requests,
         CreateRun(r, s, q)
  PROVE  Ledger!Next
<1>1. /\ session' = session /\ turns' = turns
      /\ run' = [run EXCEPT ![r] = NewRow("queued", s, q)]
      /\ run[r].status = "absent" /\ session[s].state = "open"
  BY DEF CreateRun, SetRow, Open
<1>2. DialogueMap' = DialogueMap /\ GoneMap' = GoneMap
  BY <1>1 DEF DialogueMap, GoneMap, DialogueOf, TurnAt, Open
<1>3. PhaseMap' = [PhaseMap EXCEPT ![r] = "working"] /\ PhaseMap[r] = "none"
  BY <1>1 DEF PhaseMap, RepoTypeOK, NewRow, PhaseOf
<1>4. HomeMap' = [HomeMap EXCEPT ![r] = s] BY <1>1 DEF HomeMap, RepoTypeOK, NewRow
<1>5. s \notin GoneMap BY <1>1 DEF GoneMap
<1>6. ASSUME NEW o \in Runs, HomeMap[o] = s PROVE PhaseMap[o] \notin Ledger!Live
  <2>1. run[o] \in Row /\ run[o].session = s BY <1>6 DEF RepoTypeOK, HomeMap
  <2>2. run[o].status \notin Active
    BY <2>1 DEF CreateRun, Exists
  <2> QED BY <2>1, <2>2 DEF PhaseMap, PhaseOf, Ledger!Live, Row, Active, Terminal
<1>7. Ledger!Submit(r, s)
  BY <1>2, <1>3, <1>4, <1>5, <1>6
  DEF Ledger!Submit, Ledger!Move, PhaseMap, HomeMap, DialogueMap, GoneMap
<1> QED BY <1>7 DEF Ledger!Next

LEMMA AppendMaps ==
  ASSUME RepoTypeOK, TurnsContiguous, NEW s \in Sessions, NEW q \in Requests,
         AppendDialogueTurn(s, q)
  PROVE  Ledger!Next
<1>1. Open(s) /\ ~HasTurn(s, q) /\ AddTurn(s, q, Nil) /\ run' = run
  BY DEF AppendDialogueTurn
<1>2. /\ \A i \in DOMAIN DialogueMap[s] : DialogueMap[s][i].request # q
      /\ DialogueMap' = [DialogueMap EXCEPT ![s] = Append(@, [request |-> q, by |-> Nil])]
  BY <1>1, DialogueGrows
<1>3. GoneMap' = GoneMap /\ s \notin GoneMap
  BY <1>1 DEF AddTurn, GoneMap, Open, RepoTypeOK, SessionRow
<1>4. Ledger!Note(s, q)
  BY <1>1, <1>2, <1>3
  DEF Ledger!Note, Ledger!Write, PhaseMap, HomeMap, DialogueMap, GoneMap
<1> QED BY <1>4 DEF Ledger!Next

(* The turn and the run's end are one step of the ledger, Answer.          *)
LEMMA CompleteMaps ==
  ASSUME RepoTypeOK, TurnsContiguous, NEW r \in Runs, NEW w \in Workers, NEW t \in Nat,
         CompleteWithTurn(r, w, t, session[run[r].session].next)
  PROVE  Ledger!Next
<1> DEFINE s == run[r].session
           q == run[r].request
           row == [run[r] EXCEPT !.status = "completed", !.result = session[s].next,
                                 !.heartbeat = "fresh", !.checkpoint = FALSE]
<1>1. /\ run[r].status = "running" /\ ~HasTurn(s, q) /\ AddTurn(s, q, r)
      /\ run' = [run EXCEPT ![r] = row]
  BY DEF CompleteWithTurn, CompleteAccepts, SetRow
<1>2. s \in Sessions /\ q \in Requests /\ Open(s)
  BY <1>1 DEF RepoTypeOK, Anchored, Open
<1>3. run[r] \in Row BY DEF RepoTypeOK
<1>4. row.status = "completed" /\ row.session = s BY <1>3 DEF Row
<1>5. PhaseMap' = [PhaseMap EXCEPT ![r] = "answered"] /\ PhaseMap[r] = "working"
  BY <1>1, <1>4 DEF PhaseMap, RepoTypeOK, PhaseOf
<1>6. HomeMap' = HomeMap /\ HomeMap[r] = s BY <1>1, <1>4 DEF HomeMap, RepoTypeOK
<1>7. /\ \A i \in DOMAIN DialogueMap[s] : DialogueMap[s][i].request # q
      /\ DialogueMap' = [DialogueMap EXCEPT ![s] = Append(@, [request |-> q, by |-> r])]
  BY <1>1, <1>2, DialogueGrows
<1>8. GoneMap' = GoneMap /\ s \notin GoneMap
  BY <1>1, <1>2 DEF AddTurn, GoneMap, Open, RepoTypeOK, SessionRow
<1> HIDE DEF s, q
<1>9. Ledger!Write(s, q, r)
  BY <1>6, <1>7, <1>8 DEF Ledger!Write, PhaseMap, HomeMap, DialogueMap, GoneMap
<1>10. Ledger!Move(r, "working", "answered") BY <1>5 DEF Ledger!Move, PhaseMap
<1>11. Ledger!Answer(r, q) BY <1>6, <1>9, <1>10 DEF Ledger!Answer, HomeMap
<1> QED BY <1>2, <1>11 DEF Ledger!Next

(* Deleting a session takes every run that ever named it along: a row of    *)
(* that session is either live, ended, or gone already.                    *)
LEMMA DeleteMaps ==
  ASSUME RepoTypeOK, BlankInv, NEW s \in Sessions, DeleteSession(s)
  PROVE  Ledger!Next
<1>1. /\ session[s].state = "open"
      /\ session' = [session EXCEPT ![s].state = "deleted"]
      /\ turns' = [turns EXCEPT ![s] = {}]
      /\ run' = [r \in Runs |-> IF Exists(r) /\ run[r].session = s
                                THEN [run[r] EXCEPT !.status = "deleted"]
                                ELSE run[r]]
  BY DEF DeleteSession, Open
<1>2. session \in [Sessions -> SessionRow] /\ turns \in [Sessions -> SUBSET TurnRow]
  BY DEF RepoTypeOK
<1>3. session'[s].state = "deleted" BY <1>1, <1>2 DEF SessionRow
<1>4. s \notin GoneMap /\ GoneMap' = GoneMap \union {s}
  BY <1>1, <1>2, <1>3 DEF GoneMap
<1>5. DialogueMap' = [DialogueMap EXCEPT ![s] = <<>>]
  <2>1. DialogueOf(s)' = <<>> BY <1>3 DEF DialogueOf, Open
  <2>2. ASSUME NEW z \in Sessions, z # s PROVE DialogueOf(z)' = DialogueOf(z)
    BY <1>1, <1>2, <2>2, DialogueStays
  <2> QED BY <2>1, <2>2 DEF DialogueMap
<1>6. ASSUME NEW r \in Runs
      PROVE  /\ run'[r].session = run[r].session
             /\ PhaseOf(run'[r].status) = IF run[r].session = s THEN "gone"
                                          ELSE PhaseOf(run[r].status)
  <2>1. run[r] \in Row BY DEF RepoTypeOK
  <2>2. CASE run[r].session # s BY <1>1, <2>1, <2>2
  <2>3. CASE run[r].session = s /\ Exists(r)
    <3>1. run'[r] = [run[r] EXCEPT !.status = "deleted"] BY <1>1, <2>3
    <3>2. run'[r].status = "deleted" /\ run'[r].session = s BY <2>1, <2>3, <3>1 DEF Row
    <3> QED BY <2>3, <3>2 DEF PhaseOf
  <2>4. CASE run[r].session = s /\ ~Exists(r)
    <3>1. run[r].status # "absent" BY <2>4, NilAssumption DEF BlankInv
    <3>2. run[r].status = "deleted" BY <2>1, <2>4, <3>1 DEF Row, Exists
    <3> QED BY <1>1, <2>4, <3>2 DEF PhaseOf
  <2> QED BY <2>2, <2>3, <2>4
<1>7. HomeMap' = HomeMap BY <1>6 DEF HomeMap
<1>8. PhaseMap' = [r \in Runs |-> IF HomeMap[r] = s THEN "gone" ELSE PhaseMap[r]]
  BY <1>6 DEF PhaseMap, HomeMap
<1>9. Ledger!Forget(s)
  BY <1>4, <1>5, <1>7, <1>8 DEF Ledger!Forget, PhaseMap, HomeMap, DialogueMap, GoneMap
<1> QED BY <1>9 DEF Ledger!Next

LEMMA SweepMaps ==
  ASSUME RepoTypeOK, InterruptStaleRuns
  PROVE  Ledger!Next
<1>1. /\ StaleRuns # {} /\ session' = session /\ turns' = turns
      /\ run' = [r \in Runs |-> IF r \in StaleRuns
                                THEN [run[r] EXCEPT !.status = "interrupted"]
                                ELSE run[r]]
  BY DEF InterruptStaleRuns
<1>2. DialogueMap' = DialogueMap /\ GoneMap' = GoneMap
  BY <1>1 DEF DialogueMap, GoneMap, DialogueOf, TurnAt, Open
<1>3. ASSUME NEW r \in Runs
      PROVE  /\ run'[r].session = run[r].session
             /\ PhaseOf(run'[r].status) = IF r \in StaleRuns THEN "interrupted"
                                          ELSE PhaseOf(run[r].status)
             /\ r \in StaleRuns => PhaseOf(run[r].status) \in {"working", "stopping"}
  <2>1. run[r] \in Row BY DEF RepoTypeOK
  <2>2. r \in StaleRuns => PhaseOf(run[r].status) \in {"working", "stopping"}
    BY DEF StaleRuns, Recoverable, PhaseOf
  <2>3. CASE r \in StaleRuns
    <3>1. run'[r].status = "interrupted" /\ run'[r].session = run[r].session
      BY <1>1, <2>1, <2>3 DEF Row
    <3> QED BY <2>2, <2>3, <3>1 DEF PhaseOf
  <2> QED BY <1>1, <2>3
<1>4. HomeMap' = HomeMap BY <1>3 DEF HomeMap
<1>5. PhaseMap' = [r \in Runs |-> IF r \in StaleRuns THEN "interrupted" ELSE PhaseMap[r]]
  BY <1>3 DEF PhaseMap
<1>6. \A r \in StaleRuns : PhaseMap[r] \in {"working", "stopping"}
  BY <1>3 DEF PhaseMap, StaleRuns
<1>7. StaleRuns \in SUBSET Runs BY DEF StaleRuns
<1> DEFINE lost == StaleRuns
<1> HIDE DEF lost
<1>8. Ledger!Interrupt(lost)
  BY <1>1, <1>2, <1>4, <1>5, <1>6
  DEF Ledger!Interrupt, PhaseMap, HomeMap, DialogueMap, GoneMap, lost
<1> QED BY <1>7, <1>8 DEF Ledger!Next, lost

LEMMA StepMaps ==
  ASSUME LedgerInv, [RepoNext]_repoVars
  PROVE  [Ledger!Next]_<<PhaseMap, HomeMap, DialogueMap, GoneMap>>
<1>1. CASE UNCHANGED repoVars
  BY <1>1 DEF repoVars, PhaseMap, HomeMap, DialogueMap, GoneMap, DialogueOf, TurnAt, Open
<1>2. CASE RepoNext
  BY <1>2, TransactionKinds, RewriteMaps, SessionRowMaps, CreateRunMaps, AppendMaps, CompleteMaps,
     DeleteMaps, SweepMaps DEF LedgerInv
<1> QED BY <1>1, <1>2

LEMMA InitMaps == RepoInit => Ledger!Init
<1> SUFFICES ASSUME RepoInit PROVE Ledger!Init OBVIOUS
<1>1. PhaseMap = [r \in Runs |-> "none"] /\ HomeMap = [r \in Runs |-> Nil]
  BY DEF RepoInit, NewRow, PhaseMap, HomeMap, PhaseOf
<1>2. GoneMap = {} /\ DialogueMap = [s \in Sessions |-> <<>>]
  BY DEF RepoInit, GoneMap, DialogueMap, DialogueOf, Open
<1> QED BY <1>1, <1>2 DEF Ledger!Init, PhaseMap, HomeMap, DialogueMap, GoneMap

(* Every transaction of any caller is one step of the client's ledger or   *)
(* invisible to it: an answer and the end of its run appear together at    *)
(* the end of the dialogue, whatever the interleaving of the workers, the  *)
(* sweeper, the product chat and deletions.                                *)
THEOREM TablesImplementTheLedger == RepoSpec => ImplementsLedger
<1>1. LedgerInv /\ [RepoNext]_repoVars => [Ledger!Next]_Ledger!ledgerVars
  BY StepMaps DEF Ledger!ledgerVars, PhaseMap, HomeMap, DialogueMap, GoneMap
<1> QED BY <1>1, InitMaps, LedgerInvHolds, PTL DEF RepoSpec, ImplementsLedger, Ledger!Spec
=============================================================================
