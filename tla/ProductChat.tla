----------------------------- MODULE ProductChat -----------------------------
(***************************************************************************)
(* VNextChatService.stream_turn_states (product/chat.py) for one session:  *)
(* the streams of several clients behind the session's lock, the memory of *)
(* begun and answered requests, the projected view of a run and its copy   *)
(* at the client (assistant_transport.py), the save of an answer that      *)
(* outlives its client, deletion of the session and a restart.             *)
(* The agent runtime is AgentProtocol, which AgentRuntime implements.      *)
(***************************************************************************)
EXTENDS AgentProtocol, Sequences, SequencesExt, FiniteSets

CONSTANTS
  Clients,      \* client connections
  Requests,     \* request ids
  Queries,      \* query texts
  NoRequest,    \* no request
  AnswerIds,    \* bound: attempt identities of one stream
  MaxStarts,    \* bound: streams started
  MaxRestarts   \* bound: process restarts

ASSUME ChatAssumption ==
  NoRequest \notin Requests /\ AnswerIds \in Nat \ {0} /\ {MaxStarts, MaxRestarts} \subseteq Nat

VARIABLES
  session,   \* the chat session's row: open or deleted
  turns,     \* its product turns in the database
  landing,   \* a turn whose save timed out while its transaction was open
  memory,    \* _SessionState: what this process remembers of the session
  queue,     \* the session lock: holder first, then the waiters
  streams,   \* the stream of each client
  starts, restarts, generations   \* counters

chatVars == <<session, turns, landing, memory, queue, streams, starts, restarts, generations>>
productVars == <<protocolVars, chatVars>>

Nothing == [r \in {} |-> <<>>]

(* SessionExecutionHistory and the completed cache, as far as requests are *)
(* told apart: queries begun, the current request, answers kept for a save,*)
(* and the requests whose answers the effective history was given.         *)
NewMemory == [begun |-> Nothing, current |-> NoRequest, answers |-> Nothing,
              bootstrapped |-> FALSE, heard |-> {}]

(* ProductRunState: the fields the client sees *)
NewView == [status |-> "running", stage |-> "execution", attempt |-> 0, text |-> <<>>,
            persistence |-> "pending"]
NoView == [NewView EXCEPT !.status = "none"]

NewStream == [pc |-> "idle", req |-> NoRequest, query |-> NoRequest, gone |-> FALSE,
              view |-> NoView, shown |-> NoView, save |-> "none"]

ProductInit ==
  /\ ProtocolInit
  /\ session = "open" /\ turns = <<>> /\ landing = {} /\ memory = NewMemory /\ queue = <<>>
  /\ streams = [c \in Clients |-> NewStream]
  /\ starts = 0 /\ restarts = 0 /\ generations = 0
-----------------------------------------------------------------------------
TurnsOf(r) == {t \in Range(turns) : t.req = r}
Holds(c)   == queue # <<>> /\ Head(queue) = c
Released(c) == RemoveAt(queue, CHOOSE i \in DOMAIN queue : queue[i] = c)
Active(c)  == streams[c].pc # "idle"

(* The operations on the client's copy that bring it from the view before  *)
(* to the next one: a set of an answer of another identity, or the rest of *)
(* its text, or a set of a text that is no continuation.                   *)
AnswerApplied(shown, before, view) ==
  IF before.attempt # view.attempt
  THEN [shown EXCEPT !.attempt = view.attempt, !.text = view.text]
  ELSE IF before.text = view.text THEN shown
  ELSE IF IsPrefix(before.text, view.text)
  THEN [shown EXCEPT !.text = @ \o SubSeq(view.text, Len(before.text) + 1, Len(view.text))]
  ELSE [shown EXCEPT !.text = view.text]

(* The other fields of the run follow in their order, each if it changed *)
RunFields == <<"status", "stage", "persistence">>

FieldsApplied(shown, before, view, fields) ==
  [f \in DOMAIN shown |-> IF f \in fields /\ before[f] # view[f] THEN view[f] ELSE shown[f]]

(* Broken variant: the fields of the run go first, then the answer *)
PartlyAppliedBackwards(shown, before, view, n) ==
  LET fields == {RunFields[i] : i \in 1..n}
  IN IF n < Len(RunFields) THEN FieldsApplied(shown, before, view, fields)
     ELSE AnswerApplied(FieldsApplied(shown, before, view, fields), before, view)

(* What the client has once the answer and n fields of the run arrived *)
PartlyApplied(shown, before, view, n) ==
  FieldsApplied(AnswerApplied(shown, before, view), before, view, {RunFields[i] : i \in 1..n})

(* apply_product_state_update: the first view is sent whole *)
ApplyUpdate(shown, before, view) ==
  IF before.status = "none" THEN view
  ELSE PartlyApplied(shown, before, view, Len(RunFields))

(* The stream goes on at pc and yields a view; what changed since the one  *)
(* before is sent, and its client applies it.                              *)
Yield(c, pc, view) ==
  streams' = [streams EXCEPT ![c].pc = pc, ![c].view = view,
                             ![c].shown = ApplyUpdate(@, streams[c].view, view)]

(* A last view, and the lock is released *)
YieldLast(c, view) == Yield(c, "idle", view) /\ queue' = Released(c)
Failed(view) == [view EXCEPT !.status = "failed"]

(* post_assistant_transport and prepare_turn: a request the table knows    *)
(* with another query is refused there.  An unknown session has no stream. *)
StartStream(c, r, q) ==
  /\ ~Active(c) /\ starts < MaxStarts /\ session = "open"
  /\ \A t \in TurnsOf(r) : t.query = q
  /\ starts' = starts + 1 /\ queue' = Append(queue, c)
  /\ streams' = [streams EXCEPT ![c] = [NewStream EXCEPT !.pc = "waiting", !.req = r, !.query = q]]
  /\ UNCHANGED <<protocolVars, session, turns, landing, memory, restarts, generations>>

Acquire(c) ==
  /\ streams[c].pc = "waiting" /\ Holds(c)
  /\ streams' = [streams EXCEPT ![c].pc = "lookup"]
  /\ UNCHANGED <<protocolVars, session, turns, landing, memory, queue, starts, restarts, generations>>

(* begin_request refuses a request begun with another query, or begun     *)
(* before the current one (inactive_request).                              *)
MayBeginRequest(r, q) ==
  r \in DOMAIN memory.begun => memory.begun[r] = q /\ memory.current = r

(* The lookup or the bootstrap fails, or the request is refused: it is in  *)
(* the table or among the kept answers with another query, or may not      *)
(* begin.                                                                  *)
LookupFails(c) ==
  /\ streams[c].pc = "lookup"
  /\ YieldLast(c, Failed(NewView))
  /\ UNCHANGED <<protocolVars, session, turns, landing, memory, starts, restarts, generations>>

(* The turn is stored: its text is the answer *)
Replay(c) ==
  /\ streams[c].pc = "lookup" /\ session = "open"
  /\ \E t \in TurnsOf(streams[c].req) :
       /\ t.query = streams[c].query
       /\ YieldLast(c, [NewView EXCEPT !.status = "completed", !.stage = "answer",
                                       !.text = t.text, !.persistence = "saved"])
  /\ UNCHANGED <<protocolVars, session, turns, landing, memory, starts, restarts, generations>>

(* The answer is kept but not stored: only its save is tried again *)
ResumeSave(c) ==
  LET r == streams[c].req IN
  /\ streams[c].pc = "lookup" /\ session = "open" /\ TurnsOf(r) = {}
  /\ r \in DOMAIN memory.answers /\ memory.answers[r].query = streams[c].query
  /\ LET view == [NewView EXCEPT !.status = "completed", !.stage = "answer",
                                 !.attempt = memory.answers[r].attempt,
                                 !.text = memory.answers[r].text]
     IN  streams' = [streams EXCEPT ![c].pc = "answered", ![c].view = view, ![c].save = "open",
                                    ![c].shown = ApplyUpdate(@, streams[c].view, view)]
  /\ UNCHANGED <<protocolVars, session, turns, landing, memory, queue, starts, restarts, generations>>

(* Broken variant: a kept answer does not stop the model from running *)
BeginAgain(c) ==
  LET r == streams[c].req
      q == streams[c].query
  IN
  /\ streams[c].pc = "lookup" /\ session = "open" /\ TurnsOf(r) = {} /\ MayBeginRequest(r, q)
  /\ memory' = [memory EXCEPT
       !.begun = [x \in DOMAIN @ \cup {r} |-> IF x = r THEN q ELSE @[x]],
       !.current = r, !.bootstrapped = TRUE,
       !.heard = IF memory.bootstrapped THEN @ ELSE {t.req : t \in Range(turns)}]
  /\ AgentStarted
  /\ Yield(c, "running", NewView)
  /\ UNCHANGED <<session, turns, landing, queue, starts, restarts, generations>>

(* begin_request, from the stored dialogue the first time, and the stream  *)
(* of the runtime starts.                                                  *)
BeginTurn(c) ==
  LET r == streams[c].req
      q == streams[c].query
  IN
  /\ streams[c].pc = "lookup" /\ session = "open" /\ TurnsOf(r) = {}
  /\ r \notin DOMAIN memory.answers /\ MayBeginRequest(r, q)
  /\ memory' = [memory EXCEPT
       !.begun = [x \in DOMAIN @ \cup {r} |-> IF x = r THEN q ELSE @[x]],
       !.current = r, !.bootstrapped = TRUE,
       !.heard = IF memory.bootstrapped THEN @ ELSE {t.req : t \in Range(turns)}]
  /\ AgentStarted
  /\ Yield(c, "running", NewView)
  /\ UNCHANGED <<session, turns, landing, queue, starts, restarts, generations>>
-----------------------------------------------------------------------------
(* Events of the runtime and their projection (apply_runtime_event) *)
EnterAnswer(c) ==
  /\ streams[c].pc = "running" /\ AnswerStageStarted
  /\ Yield(c, "running", [streams[c].view EXCEPT !.stage = "answer"])
  /\ UNCHANGED <<session, turns, landing, memory, queue, starts, restarts, generations>>

StartAnswer(c) ==
  /\ streams[c].pc = "running"
  /\ attempt' \in 1..AnswerIds /\ AnswerAttemptStarted
  /\ Yield(c, "running", [streams[c].view EXCEPT !.attempt = attempt', !.text = <<>>])
  /\ UNCHANGED <<session, turns, landing, memory, queue, starts, restarts, generations>>

AppendText(c) ==
  /\ streams[c].pc = "running" /\ ~spoken /\ TextDelta
  /\ Yield(c, "running", [streams[c].view EXCEPT !.text = Append(@, generations + 1)])
  /\ UNCHANGED <<session, turns, landing, memory, queue, starts, restarts, generations>>

AttemptFails(c) ==
  /\ streams[c].pc = "running" /\ AnswerAttemptFailed
  /\ UNCHANGED chatVars

(* AgentCompleted: the answer is kept in memory before its save starts.    *)
(* Its text need not be the one that was streamed.                         *)
Complete(c, final) ==
  LET view == [streams[c].view EXCEPT !.status = "completed", !.text = final]
      r    == streams[c].req
      kept == [query |-> streams[c].query, text |-> final, attempt |-> view.attempt]
  IN
  /\ streams[c].pc = "running" /\ AgentCompleted
  /\ generations' = generations + 1
  /\ memory' = [memory EXCEPT
       !.answers = [x \in DOMAIN @ \cup {r} |-> IF x = r THEN kept ELSE @[x]],
       !.heard = @ \cup {r}]
  /\ streams' = [streams EXCEPT ![c].pc = "answered", ![c].view = view, ![c].save = "open",
                                ![c].shown = ApplyUpdate(@, streams[c].view, view)]
  /\ UNCHANGED <<session, turns, landing, queue, starts, restarts>>

(* AgentFailed, AgentCancelled, and a stream that raises or just stops *)
RunBreaks(c, how) ==
  /\ streams[c].pc = "running" /\ Broken(how)
  /\ YieldLast(c, [streams[c].view EXCEPT !.status = IF how = "cancelled" THEN how ELSE "failed"])
  /\ UNCHANGED <<session, turns, landing, memory, starts, restarts, generations>>
-----------------------------------------------------------------------------
(* _persist_cached_answer: the consumer takes the completed view and asks  *)
(* for more.                                                               *)
StartPersistence(c) ==
  /\ streams[c].pc = "answered" /\ ~streams[c].gone
  /\ Yield(c, "saving", [streams[c].view EXCEPT !.persistence = "saving"])
  /\ UNCHANGED <<protocolVars, session, turns, landing, memory, queue, starts, restarts, generations>>

(* append_dialogue_turn commits: it locks the session's row, so it waits   *)
(* for an abandoned transaction, and finds what that one stored.           *)
SaveCommits(c) ==
  LET s == streams[c] IN
  /\ s.save = "open" /\ session = "open" /\ landing = {}
  /\ \A t \in TurnsOf(s.req) : t.query = s.query
  /\ turns' = IF TurnsOf(s.req) # {} THEN turns
              ELSE Append(turns, [req |-> s.req, query |-> s.query,
                                  text |-> memory.answers[s.req].text])
  /\ streams' = [streams EXCEPT ![c].save = "stored"]
  /\ UNCHANGED <<protocolVars, session, landing, memory, queue, starts, restarts, generations>>

(* An error of the database, or a conflict *)
SaveFails(c) ==
  /\ streams[c].save = "open"
  /\ streams' = [streams EXCEPT ![c].save = "failed"]
  /\ UNCHANGED <<protocolVars, session, turns, landing, memory, queue, starts, restarts, generations>>

(* Broken variant: a save that timed out counts as done *)
SaveTimesOutSaved(c) ==
  LET s == streams[c] IN
  /\ s.save \in {"open", "stored"}
  /\ landing' = IF s.save = "open" /\ landing = {} /\ session = "open" /\ TurnsOf(s.req) = {}
                THEN {[req |-> s.req, query |-> s.query, text |-> memory.answers[s.req].text]}
                ELSE landing
  /\ streams' = [streams EXCEPT ![c].save = "stored"]
  /\ UNCHANGED <<protocolVars, session, turns, memory, queue, starts, restarts, generations>>

(* persistence_timeout_seconds pass: the save is given up, although its    *)
(* turn is stored or may still be.                                         *)
SaveTimesOut(c) ==
  LET s == streams[c] IN
  /\ s.save \in {"open", "stored"}
  /\ landing' = IF s.save = "open" /\ landing = {} /\ session = "open" /\ TurnsOf(s.req) = {}
                THEN {[req |-> s.req, query |-> s.query, text |-> memory.answers[s.req].text]}
                ELSE landing
  /\ streams' = [streams EXCEPT ![c].save = "failed"]
  /\ UNCHANGED <<protocolVars, session, turns, memory, queue, starts, restarts, generations>>

LandingSettles(lands) ==
  /\ \E t \in landing : turns' = IF lands THEN Append(turns, t) ELSE turns
  /\ landing' = {}
  /\ UNCHANGED <<protocolVars, session, memory, queue, streams, starts, restarts, generations>>

(* _wait_owned_save returns; a consumer that has gone sees no more *)
PersistenceEnds(c) ==
  LET s == streams[c] IN
  /\ s.pc = "saving" \/ (s.pc = "answered" /\ s.gone)
  /\ s.save \in {"stored", "failed"}
  /\ queue' = Released(c)
  /\ LET view == [s.view EXCEPT !.persistence = IF s.save = "stored" THEN "saved" ELSE "failed"]
     IN  streams' = [streams EXCEPT
           ![c] = IF s.gone THEN NewStream
                  ELSE [s EXCEPT !.pc = "idle", !.save = "none", !.view = view,
                                 !.shown = ApplyUpdate(s.shown, s.view, view)]]
  /\ UNCHANGED <<protocolVars, session, turns, landing, memory, starts, restarts, generations>>

(* The client disconnects: its task is cancelled or its generator closed.  *)
(* The runtime's stream is closed; a save in flight is waited for.         *)
Disconnect(c) ==
  /\ Active(c) /\ ~streams[c].gone
  /\ IF streams[c].pc \in {"answered", "saving"}
     THEN streams' = [streams EXCEPT ![c].gone = TRUE] /\ UNCHANGED <<protocolVars, queue>>
     ELSE /\ streams' = [streams EXCEPT ![c] = NewStream]
          /\ queue' = Released(c)
          /\ IF streams[c].pc = "running" THEN Broken("closed") ELSE UNCHANGED protocolVars
  /\ UNCHANGED <<session, turns, landing, memory, starts, restarts, generations>>

(* delete_session and discard_session.  Streams that run keep the state    *)
(* they hold, but every call of theirs to the table fails from here on.    *)
DeleteSession ==
  /\ session = "open" /\ landing = {}
  /\ session' = "deleted" /\ turns' = <<>>
  /\ UNCHANGED <<protocolVars, landing, memory, queue, streams, starts, restarts, generations>>

(* The process restarts; the database has settled what it left behind *)
Restart ==
  /\ restarts < MaxRestarts /\ landing = {}
  /\ restarts' = restarts + 1
  /\ stage' = "none" /\ attempt' = 0 /\ open' = FALSE /\ spoken' = FALSE
  /\ memory' = NewMemory /\ queue' = <<>> /\ streams' = [c \in Clients |-> NewStream]
  /\ UNCHANGED <<session, turns, landing, starts, generations>>
-----------------------------------------------------------------------------
(* The final text is the streamed one, or another one *)
Finals(c) == {<<generations + 1>>}
             \cup IF streams[c].view.text = <<>> THEN {} ELSE {<<0, generations + 1>>}

ServeStream(c) ==
  \/ Acquire(c) \/ LookupFails(c) \/ Replay(c) \/ ResumeSave(c) \/ BeginTurn(c)
  \/ StartPersistence(c) \/ PersistenceEnds(c)

RuntimeStep(c) ==
  \/ EnterAnswer(c) \/ StartAnswer(c) \/ AppendText(c) \/ AttemptFails(c)

RuntimeEnds(c) ==
  \/ \E final \in Finals(c) : Complete(c, final)
  \/ \E how \in {"failed", "cancelled", "closed"} : RunBreaks(c, how)

SaveStep(c) == SaveCommits(c) \/ SaveFails(c) \/ SaveTimesOut(c)

ProductNext ==
  \/ \E c \in Clients, r \in Requests, q \in Queries : StartStream(c, r, q)
  \/ \E c \in Clients : ServeStream(c) \/ RuntimeStep(c) \/ RuntimeEnds(c) \/ SaveStep(c)
                        \/ Disconnect(c)
  \/ \E lands \in BOOLEAN : LandingSettles(lands)
  \/ DeleteSession \/ Restart

ProductSpec == ProductInit /\ [][ProductNext]_productVars

(* Tasks are scheduled, a runtime stream ends (AgentRuntime!StreamsEnd)    *)
(* and a save is bounded by its timeout.                                   *)
ProductFairness ==
  \A c \in Clients : /\ WF_productVars(ServeStream(c))
                     /\ WF_productVars(RuntimeEnds(c))
                     /\ WF_productVars(SaveStep(c))

FairProductSpec == ProductSpec /\ ProductFairness
-----------------------------------------------------------------------------
Statuses == {"none", "running", "completed", "failed", "cancelled"}

ProductTypeOK ==
  /\ session \in {"open", "deleted"} /\ Cardinality(landing) <= 1
  /\ Cardinality(Range(queue)) = Len(queue) /\ Range(queue) \subseteq Clients
  /\ \A c \in Clients :
       /\ streams[c].view.status \in Statuses
       /\ streams[c].save \in {"none", "open", "stored", "failed"}
       /\ Active(c) => c \in Range(queue)

(* An answer shown as saved is in the table, with the text and the query   *)
(* of that view, whatever earlier save of it timed out, failed or landed   *)
(* late (chat.py _persist_cached_answer); deletion alone takes it away.    *)
SavedMeansDurable ==
  session = "open" =>
    \A c \in Clients : streams[c].view.persistence = "saved" =>
      \E t \in TurnsOf(streams[c].req) :
        t.query = streams[c].query /\ t.text = streams[c].view.text

(* A request has one answer: every client that sees it completed sees the  *)
(* same text, the table has no second turn of it and no other text, and a  *)
(* retry of its save never asks the model again (product_run_state.md:246).*)
OneAnswerPerRequest ==
  /\ \A i, j \in DOMAIN turns : turns[i].req = turns[j].req => i = j
  /\ \A c, d \in Clients :
       (/\ streams[c].req = streams[d].req
        /\ streams[c].view.status = "completed" /\ streams[d].view.status = "completed")
       => streams[c].view.text = streams[d].view.text
  /\ \A t \in Range(turns) \cup landing :
       t.req \in DOMAIN memory.answers => memory.answers[t.req].text = t.text

(* A save in flight belongs to the stream that holds the session's lock,   *)
(* although its client may have gone: no later request runs or looks up    *)
(* beside it (chat.py _wait_owned_save).                                   *)
SaveOwnedByLock ==
  \A c \in Clients : streams[c].save # "none" => Holds(c)

(* Both: an answer said to be saved is, and nobody runs beside its save *)
SavesAreTrue == ProductTypeOK /\ SavedMeansDurable /\ SaveOwnedByLock

(* What the client built from the operations, each computed from the view  *)
(* before and applied to its own copy, is the server's view: no field is   *)
(* forgotten and no text grows from another one                            *)
(* (assistant_transport.py apply_product_state_update).                    *)
ClientSeesTheView ==
  \A c \in Clients : ~streams[c].gone => streams[c].shown = streams[c].view

(* While the operations of an update arrive one by one, the client never   *)
(* shows an attempt with another's text, a run as completed whose text is  *)
(* not yet the final one, nor an answer as saved that is not completed     *)
(* ("One set keeps fallback attempt selection and its empty text atomic",  *)
(* assistant_transport.py 67).                                             *)
UpdatesAreNeverTorn ==
  [][\A c \in Clients :
       LET before == streams[c].view
           view   == streams'[c].view
       IN before.status # "none" /\ view.status # "none" /\ view # before =>
            \A n \in 0..Len(RunFields) :
              LET partly == PartlyApplied(streams[c].shown, before, view, n) IN
              /\ <<partly.attempt, partly.text>> \in
                   {<<before.attempt, before.text>>, <<view.attempt, view.text>>}
              /\ partly.status = "completed" => partly.text = view.text
              /\ partly.persistence = "saved" => partly.status = "completed"]_productVars

(* A session that was loaded knows every turn the product stored: no       *)
(* answer is computed without an earlier one (chat.py begin_request).      *)
TurnsAreRemembered ==
  memory.bootstrapped => \A t \in Range(turns) \cup landing : t.req \in memory.heard

(* Both: a request is answered once, and with every earlier answer known *)
AnsweredOnceFromAll == OneAnswerPerRequest /\ TurnsAreRemembered

(* Every stream ends and releases the lock, with or without its client *)
ChatStreamsEnd == \A c \in Clients : Active(c) ~> ~Active(c)
=============================================================================
