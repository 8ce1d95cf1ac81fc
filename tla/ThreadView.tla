------------------------------ MODULE ThreadView ------------------------------
(***************************************************************************)
(* One conversation in the browser: the submission of a message            *)
(* (components/thread.tsx), the thread's own state                         *)
(* (assistant-ui/dotamind-thread-state.ts), the stream of run states that  *)
(* follows (dotamind-transport-runtime.tsx), and the messages made of all  *)
(* that (dotamind-state-converter.ts).  A request's user and assistant     *)
(* messages go together.  The text of an answer stands as its edition: the *)
(* server lets it grow, empties it for another attempt and may replace it  *)
(* with the completed one, and each time it is the next edition; edition 0 *)
(* is no text yet.                                                         *)
(***************************************************************************)
EXTENDS Integers, Sequences, FiniteSets, SequencesExt

CONSTANTS
  MaxSent,     \* bound: messages the user sends
  MaxEditions, \* bound: editions of an answer's text
  MaxReloads   \* bound: times the page is loaded anew

ASSUME ViewAssumption == {MaxSent, MaxEditions, MaxReloads} \subseteq Nat

Messages == 1..MaxSent
NoMessage == 0

VARIABLES
  server,      \* the run of each request, as its envelopes show it
  savedTurns,  \* the session's saved turns
  thread,      \* DotaMindThreadState
  fetching,    \* its history task
  preparing,   \* how far sendMessage is
  wire,        \* the transport: the last envelope's run, and whether it is open
  sent,        \* the requests accepted on this page, in their order
  active,      \* the thread is the one shown
  unread,      \* its count in the browser's storage
  finished,    \* requests whose completion was seen while another was shown
  reloads

viewVars ==
  <<server, savedTurns, thread, fetching, preparing, wire, sent, active, unread, finished, reloads>>

NoRun == [status |-> "none", saved |-> "pending", text |-> 0]
NoWire == [req |-> NoMessage, run |-> NoRun, open |-> FALSE]
NotFetching == [on |-> FALSE, turns |-> <<>>]
Fresh(known) ==
  [session |-> known, history |-> <<>>, loaded |-> IF known THEN "no" ELSE "ready",
   accepted |-> NoMessage, connection |-> "none", told |-> {}]

ViewInit ==
  /\ server = [q \in Messages |-> NoRun] /\ savedTurns = <<>> /\ thread = Fresh(FALSE)
  /\ fetching = NotFetching /\ preparing = "idle" /\ wire = NoWire /\ sent = <<>>
  /\ active = TRUE /\ unread = 0 /\ finished = {} /\ reloads = 0
-----------------------------------------------------------------------------
(* The messages: transcriptTurnsToCanonicalMessages and the converter      *)
Saved(q) == [req |-> q, text |-> server[q].text, status |-> "complete", conn |-> "none",
             optimistic |-> FALSE]

Position(messages, q) ==
  LET at == {i \in DOMAIN messages : messages[i].req = q}
  IN IF at = {} THEN 0 ELSE CHOOSE i \in at : \A j \in at : i <= j

(* mergeMessages: what comes in replaces what is there, but a connection   *)
(* status it does not have.                                                *)
Upsert(messages, new) ==
  LET i == Position(messages, new.req)
  IN IF i = 0 THEN Append(messages, new)
     ELSE [messages EXCEPT ![i] = IF new.conn = "none" THEN [new EXCEPT !.conn = messages[i].conn] ELSE new]

Terminal == {"ended", "cancelled", "error"}

ConnectionFor(q) == IF thread.accepted = q THEN thread.connection ELSE "none"

(* messageConnectionStatus: of the present request, or as it was captured *)
ConnectionOf(q) ==
  LET i == Position(thread.history, q)
  IN IF ConnectionFor(q) # "none" THEN ConnectionFor(q)
     ELSE IF i = 0 THEN "none" ELSE thread.history[i].conn

Settled(run) ==
  run.status = "failed" \/ (run.status = "completed" /\ run.saved \in {"saved", "failed"})

AssistantStatus(run, conn) ==
  IF run.status = "failed" THEN "incomplete"
  ELSE IF Settled(run) THEN "complete"
  ELSE IF conn \in Terminal THEN "incomplete" ELSE "running"

WithState ==
  IF wire.req = NoMessage THEN thread.history
  ELSE Upsert(thread.history,
         [req |-> wire.req, text |-> wire.run.text, conn |-> ConnectionFor(wire.req),
          status |-> AssistantStatus(wire.run, ConnectionOf(wire.req)), optimistic |-> FALSE])

(* A request no envelope has confirmed yet is shown as pending *)
Unconfirmed(messages) ==
  LET q == thread.accepted
      i == Position(messages, q)
  IN q # NoMessage /\ wire.req # q /\ (i = 0 \/ messages[i].optimistic)

View ==
  LET confirmed == WithState
      conn == ConnectionOf(thread.accepted)
  IN IF ~Unconfirmed(confirmed) THEN confirmed
     ELSE Upsert(confirmed,
            [req |-> thread.accepted, text |-> 0, conn |-> conn, optimistic |-> TRUE,
             status |-> IF conn \in Terminal THEN "incomplete" ELSE "running"])

(* calculateIsRunning *)
IsRunning ==
  IF Unconfirmed(WithState) THEN ConnectionOf(thread.accepted) \notin Terminal
  ELSE IF wire.req = NoMessage THEN thread.connection = "sending"
  ELSE LET conn == ConnectionOf(wire.req)
       IN /\ ~Settled(wire.run)
          /\ conn \notin Terminal
          /\ (conn = "sending" \/ wire.run.status \in {"running", "completed"})
-----------------------------------------------------------------------------
(* loadHistory: nothing to do when it is there or under way, or else it    *)
(* begins, and any older one is aborted.                                   *)
Loading(e) == [e EXCEPT !.session = TRUE, !.history = <<>>, !.loaded = "loading"]

LoadHistory ==
  IF thread.loaded = "loading" \/ (thread.loaded = "ready" /\ thread.session)
  THEN UNCHANGED <<thread, fetching>>
  ELSE thread' = Loading(thread) /\ fetching' = [on |-> TRUE, turns |-> savedTurns]

(* The effect of a render with a session: it is committed and loaded.  A   *)
(* session that is new may be rendered before the submission goes on.      *)
RenderEffect ==
  /\ thread.session \/ preparing = "initialized"
  /\ LoadHistory
  /\ UNCHANGED <<server, savedTurns, preparing, wire, sent, active, unread, finished, reloads>>

(* The history arrives, as the server had it, or fails to *)
HistoryArrives(ok) ==
  /\ fetching.on /\ fetching' = NotFetching
  /\ thread' = IF ok
       THEN [thread EXCEPT !.loaded = "ready",
               !.history = FoldLeft(Upsert, [i \in DOMAIN fetching.turns |->
                                               Saved(fetching.turns[i])], @)]
       ELSE [thread EXCEPT !.loaded = "error"]
  /\ UNCHANGED <<server, savedTurns, preparing, wire, sent, active, unread, finished, reloads>>

(* sendMessage: refused while the thread is busy; a new thread gets its    *)
(* session first, another one its history.                                 *)
Send ==
  /\ preparing = "idle" /\ active /\ Len(sent) + Len(savedTurns) < MaxSent
  /\ ~IsRunning /\ thread.connection # "sending"
  /\ \E q \in Messages : server[q] = NoRun
  /\ IF thread.session THEN preparing' = "loading" /\ LoadHistory
     ELSE preparing' = "initializing" /\ UNCHANGED <<thread, fetching>>
  /\ UNCHANGED <<server, savedTurns, wire, sent, active, unread, finished, reloads>>

(* The session was created, or the thread was left in the meantime *)
Initialized ==
  /\ preparing = "initializing" /\ preparing' = "initialized"
  /\ UNCHANGED <<server, savedTurns, thread, fetching, wire, sent, active, unread, finished, reloads>>

(* markNewSession: a history that a render has begun to load is aborted *)
MarkNewSession ==
  /\ preparing = "initialized"
  /\ IF active
     THEN /\ preparing' = "committing" /\ fetching' = NotFetching
          /\ thread' = IF thread.session /\ thread.loaded = "ready" THEN thread
                      ELSE [thread EXCEPT !.session = TRUE, !.history = <<>>, !.loaded = "ready"]
     ELSE preparing' = "idle" /\ thread' = [thread EXCEPT !.session = TRUE] /\ fetching' = fetching
  /\ UNCHANGED <<server, savedTurns, wire, sent, active, unread, finished, reloads>>

AwaitHistory ==
  /\ preparing = "loading" /\ ~fetching.on
  /\ preparing' = IF active /\ thread.loaded = "ready" THEN "committing" ELSE "idle"
  /\ UNCHANGED <<server, savedTurns, thread, fetching, wire, sent, active, unread, finished, reloads>>

SubmissionFails ==
  /\ preparing \in {"initializing", "committing"} /\ preparing' = "idle"
  /\ UNCHANGED <<server, savedTurns, thread, fetching, wire, sent, active, unread, finished, reloads>>

(* Broken variant: the messages shown are not kept *)
CapturedNever == thread.history

(* captureVisibleMessages: all that is shown becomes the history *)
Captured == FoldLeft(Upsert, thread.history, View)

(* acceptRequest, with a new identity, and the transport opens *)
Accept ==
  /\ preparing = "committing" /\ active /\ preparing' = "idle"
  /\ LET q == CHOOSE r \in Messages : server[r] = NoRun /\ \A s \in 1..r - 1 : server[s] # NoRun
     IN /\ thread' = [thread EXCEPT !.history = Captured, !.accepted = q, !.connection = "sending"]
        /\ server' = [server EXCEPT ![q].status = "running"]
        /\ wire' = [wire EXCEPT !.open = TRUE]
        /\ sent' = Append(sent, q)
  /\ UNCHANGED <<savedTurns, fetching, active, unread, finished, reloads>>
-----------------------------------------------------------------------------
(* The next edition of an answer: more of it, none for a new attempt, or   *)
(* the completed text in place of what was streamed                        *)
Edited(run) == IF run.text < MaxEditions THEN {[run EXCEPT !.text = @ + 1]} ELSE {}

(* The server's run goes on, with a reader or without *)
ServerStep(q) ==
  /\ \/ /\ server[q].status = "running" /\ savedTurns' = savedTurns
        /\ \E run \in Edited(server[q]) : server' = [server EXCEPT ![q] = run]
     \/ /\ server[q].status = "running" /\ savedTurns' = savedTurns
        /\ \/ server' = [server EXCEPT ![q].status = "failed"]
           \/ \E run \in {server[q]} \cup Edited(server[q]) :
                server' = [server EXCEPT ![q] = [run EXCEPT !.status = "completed"]]
     \/ /\ server[q].status = "completed" /\ server[q].saved = "pending"
        /\ \E s \in {"saved", "failed"} :
             /\ server' = [server EXCEPT ![q].saved = s]
             /\ savedTurns' = IF s = "saved" THEN Append(savedTurns, q) ELSE savedTurns
  /\ UNCHANGED <<thread, fetching, preparing, wire, sent, active, unread, finished, reloads>>

(* An envelope arrives; a completion is counted as unread once, if the     *)
(* thread is not the one shown.                                            *)
Envelope ==
  /\ wire.open /\ (wire.req # thread.accepted \/ wire.run # server[thread.accepted])
  /\ wire' = [wire EXCEPT !.req = thread.accepted, !.run = server[thread.accepted]]
  /\ LET news == server[thread.accepted].status = "completed" /\ thread.accepted \notin thread.told
     IN /\ thread' = IF news THEN [thread EXCEPT !.told = @ \cup {thread.accepted}] ELSE thread
        /\ unread' = IF news /\ ~active THEN unread + 1 ELSE unread
        /\ finished' = IF news /\ ~active THEN finished \cup {thread.accepted} ELSE finished
  /\ UNCHANGED <<server, savedTurns, fetching, preparing, sent, active, reloads>>

(* onFinish, onError, onCancel: the stream ends, and with it the request's *)
(* connection.                                                             *)
StreamEnds(how) ==
  /\ wire.open /\ wire' = [wire EXCEPT !.open = FALSE]
  /\ thread' = [thread EXCEPT !.connection = how]
  /\ UNCHANGED <<server, savedTurns, fetching, preparing, sent, active, unread, finished, reloads>>

(* Another thread is shown, or this one again, whose count is then read *)
Switch ==
  /\ active' = ~active /\ unread' = IF active THEN unread ELSE 0
  /\ finished' = IF active THEN finished ELSE {}
  /\ UNCHANGED <<server, savedTurns, thread, fetching, preparing, wire, sent, reloads>>

Reload ==
  /\ reloads < MaxReloads /\ reloads' = reloads + 1 /\ thread.session
  /\ thread' = Fresh(TRUE) /\ fetching' = NotFetching /\ preparing' = "idle"
  /\ wire' = NoWire /\ sent' = <<>> /\ active' = TRUE /\ unread' = 0 /\ finished' = {}
  /\ UNCHANGED <<server, savedTurns>>

ViewNext ==
  \/ RenderEffect \/ \E ok \in BOOLEAN : HistoryArrives(ok)
  \/ Send \/ Initialized \/ MarkNewSession \/ AwaitHistory \/ SubmissionFails \/ Accept
  \/ \E q \in Messages : ServerStep(q)
  \/ Envelope \/ \E how \in Terminal : StreamEnds(how)
  \/ Switch \/ Reload

ViewSpec == ViewInit /\ [][ViewNext]_viewVars
-----------------------------------------------------------------------------
(* Every message the user sent from this page is shown, once and in order, *)
(* after the turns the page has loaded (dotamind-state-converter.ts 127).  *)
AllSentIsShown ==
  \E view \in {View} :
    /\ \A i, j \in DOMAIN view : view[i].req = view[j].req => i = j
    /\ \A i \in DOMAIN sent : Position(view, sent[i]) # 0
    /\ \A i, j \in DOMAIN sent :
         i < j => Position(view, sent[i]) < Position(view, sent[j])

(* Only the request whose stream is open is shown as running, and only     *)
(* then is the thread busy: whatever ended a stream, the user can send the *)
(* next message (dotamind-state-converter.ts 407).                         *)
OnlyTheOpenRuns ==
  /\ IsRunning => wire.open /\ thread.connection = "sending"
  /\ \A message \in ToSet(View) :
       message.status = "running" => message.req = thread.accepted /\ wire.open

(* A thread's unread count is the completions seen while another was       *)
(* shown, each once (thread-unread.ts 63).                                 *)
UnreadIsExact == unread = Cardinality(finished) /\ (active => unread = 0)

ConversationIsSound == AllSentIsShown /\ OnlyTheOpenRuns /\ UnreadIsExact

(* The page never falls back to an older edition of an answer than the one *)
(* it has shown, nor drops the answer, through the next requests, late     *)
(* histories and lost connections (dotamind-thread-state.ts 181).  What is  *)
(* shown is made of thread and wire alone.                                 *)
NothingOlderIsShown ==
  [][reloads' = reloads /\ <<thread, wire>>' # <<thread, wire>> =>
       \E before \in {ToSet(View)}, after \in {ToSet(View)'} :
         \A old \in before : \E new \in after : new.req = old.req /\ new.text >= old.text]_viewVars
=============================================================================
