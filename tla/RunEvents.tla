----------------------------- MODULE RunEvents -----------------------------
(***************************************************************************)
(* The events of durable chat runs: what an execution publishes, the pump  *)
(* that carries them from a bounded queue to the run's Redis stream, the   *)
(* stream and its time to live, and the subscribers that follow a run over *)
(* HTTP.  The rows are RunRepository; one process executes at a time under *)
(* the session lease, as ChatRuns models it, and its executor appears here *)
(* with its publications instead of its locks and notices.                 *)
(*                                                                         *)
(* A publication is synchronous: several may follow an await.  The pump is *)
(* a task of its own that stores one event at a time.                      *)
(***************************************************************************)
EXTENDS RunRepository, Sequences, FiniteSets

CONSTANTS
  Clients,       \* browsers that follow a run's stream
  MaxQueue,      \* max_queue_size of the pump
  MaxBatch,      \* count of one XREAD
  MaxGraphEvents,\* bound: events the graph publishes in one execution
  MaxFaults,     \* bound: failed or unheard calls to Redis and PostgreSQL
  MaxCancels,    \* bound: times a task is cancelled
  MaxExpiries,   \* bound: streams that outlive their time to live
  MaxMadeUp      \* bound: made-up lines after which a client still goes on

ASSUME MaxQueueAssumption == MaxQueue \in Nat \ {0}
ASSUME MaxBatchAssumption == MaxBatch \in Nat \ {0}
ASSUME EventBoundsAssumption ==
  /\ MaxGraphEvents \in Nat /\ MaxFaults \in Nat /\ MaxCancels \in Nat /\ MaxExpiries \in Nat
  /\ MaxMadeUp \in Nat \ {0}

VARIABLES
  exec,          \* [Runs -> Exec]: the execution of a run, or its last one
  pump,          \* [Runs -> Pump]: the RunEventPump of that execution
  stream,        \* [Runs -> Seq(Event)]: sequence n is the n-th entry
  sub,           \* [Runs -> [Clients -> Sub]]: NDJSON streams of the API
  faults, cancels, expiries

eventVars == <<exec, pump, stream, sub, faults, cancels, expiries>>
vars == <<run, session, turns, exec, pump, stream, sub, faults, cancels, expiries>>

Kinds == {"running", "graph", "checkpoint", "waiting_input", "result"} \union Terminal

(* An event carries who published it and as which of its publications; both *)
(* are ghosts of the model.                                                *)
Event == [token: Nat, nr: Nat, kind: Kinds]

PC == {"idle", "marking", "graph", "pausing", "pauseflush", "committing", "recording",
       "leaving", "failing", "failingbus", "cancelling", "closing", "reaping"}

(* raised: an exception or a cancel is on its way out; ended: how the last  *)
(* execution ended.                                                        *)
Exec == [pc: PC, worker: Workers \union {Nil}, token: Nat, seen: Nat, nr: Nat,
         raised: BOOLEAN, ended: {"none", "ok", "raised", "crashed"}]
NoExec == [pc |-> "idle", worker |-> Nil, token |-> 0, seen |-> 0, nr |-> 0,
           raised |-> FALSE, ended |-> "none"]

(* busy: the event whose append is awaited, as a sequence of at most one.  *)
Pump   == [queue: Seq(Event), busy: Seq(Event), failed: BOOLEAN]
NoPump == [queue |-> <<>>, busy |-> <<>>, failed |-> FALSE]

(* cursor, seen and made are the client's across reconnects: the last        *)
(* sequence it has, the stored events it has, the sequences of the lines    *)
(* made up for it; by and end: the last line of its last stream.           *)
Sub == [pc: {"off", "reading", "looking", "waiting"}, cursor: Nat, seen: SUBSET Event,
        made: SUBSET Nat, by: {"none", "event", "recovery", "error", "lost"},
        end: {"none", "waiting_input"} \union Terminal]
NoSub == [pc |-> "off", cursor |-> 0, seen |-> {}, made |-> {}, by |-> "none", end |-> "none"]

EventTypeOK ==
  /\ RepoTypeOK
  /\ exec \in [Runs -> Exec]
  /\ pump \in [Runs -> Pump]
  /\ \A r \in Runs : Len(pump[r].queue) <= MaxQueue /\ Len(pump[r].busy) <= 1
  /\ stream \in [Runs -> Seq(Event)]
  /\ sub \in [Runs -> [Clients -> Sub]]
  /\ faults \in Nat /\ cancels \in Nat /\ expiries \in Nat

EventInit ==
  /\ RepoInit
  /\ exec = [r \in Runs |-> NoExec]
  /\ pump = [r \in Runs |-> NoPump]
  /\ stream = [r \in Runs |-> <<>>]
  /\ sub = [r \in Runs |-> [c \in Clients |-> NoSub]]
  /\ faults = 0 /\ cancels = 0 /\ expiries = 0

At(r, pc)      == exec[r].pc = pc
Goto(r, pc)    == exec' = [exec EXCEPT ![r].pc = pc]
RaiseTo(r, pc) == exec' = [exec EXCEPT ![r].pc = pc, ![r].raised = TRUE]
End(r, how)    == exec' = [exec EXCEPT ![r].pc = "idle", ![r].ended = how]
Drained(r)     == pump[r].queue = <<>> /\ pump[r].busy = <<>>
Strike         == cancels < MaxCancels /\ cancels' = cancels + 1
Fault          == faults < MaxFaults /\ faults' = faults + 1
Calm           == UNCHANGED <<faults, cancels, expiries>>
Watched        == UNCHANGED <<stream, sub>>
Quiet          == Watched /\ Calm

(* A repository call whose refusal the caller ignores.                     *)
Try(accepted, call) == IF accepted THEN call ELSE UNCHANGED repoVars

---------------------------------------------------------------------------
(* RunEventPump.publish: a failed pump raises, a full queue makes it fail.  *)
Put(p, e) ==
  IF p.failed THEN p
  ELSE IF Len(p.queue) = MaxQueue THEN [p EXCEPT !.failed = TRUE]
  ELSE [p EXCEPT !.queue = Append(@, e)]

EventOf(x, nr, kind) == [token |-> x.token, nr |-> nr, kind |-> kind]

(* One or two publications in a row; the second follows only if the first   *)
(* did not raise.  A raise leads to ko, otherwise the execution goes to ok. *)
Publish(r, p, ok, ko) ==
  /\ pump' = [pump EXCEPT ![r] = p]
  /\ exec' = [exec EXCEPT ![r].pc = IF p.failed THEN ko ELSE ok,
                          ![r].raised = @ \/ p.failed,
                          ![r].nr = @ + Len(p.queue) - Len(pump[r].queue)]

Publish1(r, k, ok, ko) ==
  Publish(r, Put(pump[r], EventOf(exec[r], exec[r].nr + 1, k)), ok, ko)

Publish2(r, k1, k2, ok, ko) ==
  Publish(r, Put(Put(pump[r], EventOf(exec[r], exec[r].nr + 1, k1)),
                 EventOf(exec[r], exec[r].nr + 2, k2)), ok, ko)

---------------------------------------------------------------------------
(* The executor.  The session lease admits one execution of a session.     *)
Claim(r, w) ==
  /\ At(r, "idle")
  /\ run[r].status = "queued"
  /\ \A o \in Runs : exec[o].pc # "idle" => run[o].session # run[r].session
  /\ AllocateFencingToken(run[r].session)
  /\ exec' = [exec EXCEPT ![r] = [NoExec EXCEPT !.pc = "marking", !.worker = w,
                                                !.token = session'[run[r].session].fence]]
  /\ Quiet /\ UNCHANGED pump

(* mark_running, load the dialogue, start the pump, publish "running".      *)
Begin(r) ==
  /\ At(r, "marking")
  /\ MarkRunning(r, exec[r].worker, exec[r].token)
  /\ pump' = [pump EXCEPT ![r] = Put(NoPump, EventOf(exec[r], 1, "running"))]
  /\ exec' = [exec EXCEPT ![r].pc = "graph", ![r].nr = 1,
                          ![r].seen = session[run[r].session].next]
  /\ Quiet

(* A refused row ends the execution.                                       *)
BeginRefused(r) ==
  /\ At(r, "marking")
  /\ ~MarkRunningAccepts(r, exec[r].worker, exec[r].token)
  /\ End(r, "raised")
  /\ Quiet /\ UNCHANGED <<run, session, turns, pump>>

(* An error or a cancel before the pump exists: nobody marks the row.      *)
BeginBreaks(r) ==
  /\ At(r, "marking")
  /\ \/ Fault /\ UNCHANGED cancels
     \/ Strike /\ UNCHANGED faults
  /\ MarkRunning(r, exec[r].worker, exec[r].token) \/ UNCHANGED repoVars
  /\ End(r, "raised")
  /\ Watched /\ UNCHANGED <<pump, expiries>>

(* A node publishes.  A publication that raises ends the graph with a       *)
(* RunEventBusError, or is swallowed where a node handles exceptions.      *)
GraphEvent(r) ==
  /\ At(r, "graph")
  /\ exec[r].nr <= MaxGraphEvents
  /\ \E ko \in {"failingbus", "graph"} : Publish1(r, "graph", "graph", ko)
  /\ Quiet /\ UNCHANGED repoVars

GraphEnds(r) ==
  /\ At(r, "graph")
  /\ \E pc \in {"committing", "pausing", "failing"} : Goto(r, pc)
  /\ Quiet /\ UNCHANGED <<run, session, turns, pump>>

(* mark_waiting_input, then the checkpoint and its status.                 *)
Pause(r) ==
  /\ At(r, "pausing")
  /\ MarkWaitingInput(r, exec[r].worker, exec[r].token)
  /\ Publish2(r, "checkpoint", "waiting_input", "pauseflush", "closing")
  /\ Quiet

(* pump.flush() returns once the queue is drained, and raises if the pump   *)
(* has failed; after the pause and after the commit alike.                 *)
Flush(r, from) ==
  /\ At(r, from)
  /\ Drained(r)
  /\ IF pump[r].failed THEN RaiseTo(r, "closing") ELSE Goto(r, "closing")
  /\ Quiet /\ UNCHANGED <<run, session, turns, pump>>

Commit(r) ==
  /\ At(r, "committing")
  /\ CompleteWithTurn(r, exec[r].worker, exec[r].token, exec[r].seen)
  /\ Goto(r, "recording")
  /\ Quiet /\ UNCHANGED pump

(* The transaction refuses the row.                                        *)
Refused(r) ==
  /\ \/ At(r, "pausing") /\ ~PauseAccepts(r, exec[r].worker, exec[r].token)
     \/ At(r, "committing")
        /\ ~CompleteAccepts(r, exec[r].worker, exec[r].token, exec[r].seen)
  /\ Goto(r, "failing")
  /\ Quiet /\ UNCHANGED <<run, session, turns, pump>>

(* What the transaction an execution awaits would write.                   *)
Write(r) ==
  LET w == exec[r].worker IN
  \/ At(r, "pausing") /\ MarkWaitingInput(r, w, exec[r].token)
  \/ At(r, "committing") /\ CompleteWithTurn(r, w, exec[r].token, exec[r].seen)
  \/ exec[r].pc \in {"failing", "failingbus"} /\ MarkFailed(r, w)
  \/ At(r, "cancelling") /\ (MarkCancelled(r, w) \/ MarkInterrupted(r, w))

(* The call raises, before or after its transaction committed; a failed     *)
(* record_committed_turn leaves an ended run behind and says nothing.      *)
CallFails(r) ==
  /\ exec[r].pc \in {"pausing", "committing", "recording"}
  /\ Fault
  /\ Write(r) \/ UNCHANGED repoVars
  /\ RaiseTo(r, IF At(r, "recording") THEN "closing" ELSE "failing")
  /\ Watched /\ UNCHANGED <<pump, cancels, expiries>>

(* record_committed_turn has returned: result, then status.                *)
Announce(r) ==
  /\ At(r, "recording")
  /\ Publish2(r, "result", "completed", "leaving", "closing")
  /\ Quiet /\ UNCHANGED repoVars

(* In the handlers: one last publication, and the exception goes on.       *)
Say(r, kind) ==
  LET p == Put(pump[r], EventOf(exec[r], exec[r].nr + 1, kind)) IN
  /\ pump' = [pump EXCEPT ![r] = p]
  /\ exec' = [exec EXCEPT ![r].pc = "closing", ![r].raised = TRUE,
                          ![r].nr = @ + Len(p.queue) - Len(pump[r].queue)]

(* except Exception and except RunEventBusError: mark_failed, whose own      *)
(* errors are dropped; only the first says so.                             *)
Fail(r) ==
  /\ exec[r].pc \in {"failing", "failingbus"}
  /\ \/ Try(FailAccepts(r, exec[r].worker), Write(r)) /\ UNCHANGED faults
     \/ Fault /\ UNCHANGED repoVars
  /\ IF At(r, "failing") THEN Say(r, "failed")
     ELSE RaiseTo(r, "closing") /\ UNCHANGED pump
  /\ Watched /\ UNCHANGED <<cancels, expiries>>

(* except CancelledError: mark_cancelled, else mark_interrupted, whose errors *)
(* are dropped: it says "interrupted" even if both were refused.           *)
CancelEnds(r) ==
  LET w == exec[r].worker IN
  /\ At(r, "cancelling")
  /\ \/ /\ \/ MarkCancelled(r, w)
           \/ MayMark(r, w, {"cancelled"}) /\ UNCHANGED repoVars
        /\ Say(r, "cancelled")
        /\ UNCHANGED faults
     \/ /\ \/ /\ ~MayMark(r, w, {"cancel_requested", "cancelled"})
              /\ Try(InterruptAccepts(r, w), MarkInterrupted(r, w))
              /\ UNCHANGED faults
           \/ Fault /\ (MarkInterrupted(r, w) \/ UNCHANGED repoVars)
        /\ Say(r, "interrupted")
  /\ Watched /\ UNCHANGED <<cancels, expiries>>

(* bind_run_event_pump's finally: flush, put None, await the task.         *)
Close(r) ==
  /\ exec[r].pc \in {"closing", "reaping"}
  /\ Drained(r)
  /\ pump' = [pump EXCEPT ![r] = NoPump]
  /\ End(r, IF exec[r].raised \/ pump[r].failed THEN "raised" ELSE "ok")
  /\ Quiet /\ UNCHANGED repoVars

(* Where a CancelledError lands: inside the try the handler runs unless the *)
(* commit has returned; a cancelled close still puts None and waits.       *)
CancelTarget(pc) ==
  CASE pc \in {"graph", "pausing", "pauseflush", "committing"} -> "cancelling"
    [] pc = "closing" -> "reaping"
    [] OTHER -> "closing"

(* task.cancel() strikes at an await; a write under way may have committed. *)
CancelAtAwait(r) ==
  /\ exec[r].pc \notin {"idle", "marking", "reaping"}
  /\ Strike
  /\ Write(r) \/ UNCHANGED repoVars
  /\ RaiseTo(r, CancelTarget(exec[r].pc))
  /\ Watched /\ UNCHANGED <<pump, faults, expiries>>

(* A second cancel while the closed pump is awaited cancels the pump's task *)
(* as well: what it still holds is gone, the awaited append perhaps done.  *)
CancelPump(r) ==
  /\ At(r, "reaping")
  /\ Strike
  /\ \/ stream' = [stream EXCEPT ![r] = @ \o pump[r].busy]
     \/ UNCHANGED stream
  /\ pump' = [pump EXCEPT ![r] = NoPump]
  /\ End(r, "raised")
  /\ UNCHANGED <<run, session, turns, sub, faults, expiries>>

(* The process dies.                                                       *)
Crash(r) ==
  /\ ~At(r, "idle")
  /\ Fault
  /\ pump' = [pump EXCEPT ![r] = NoPump]
  /\ End(r, "crashed")
  /\ Watched /\ UNCHANGED <<run, session, turns, cancels, expiries>>

---------------------------------------------------------------------------
(* RunEventPump._run: one append at a time.                                *)

(* Broken variant: the pump's task ends with its first failure.            *)
PumpTakesUntilFailure(r) ==
  /\ ~pump[r].failed
  /\ pump[r].queue # <<>> /\ pump[r].busy = <<>>
  /\ pump' = [pump EXCEPT ![r].queue = Tail(@), ![r].busy = <<Head(pump[r].queue)>>]
  /\ Quiet /\ UNCHANGED <<run, session, turns, exec>>

PumpTakes(r) ==
  /\ pump[r].queue # <<>> /\ pump[r].busy = <<>>
  /\ pump' = [pump EXCEPT ![r].queue = Tail(@), ![r].busy = <<Head(pump[r].queue)>>]
  /\ Quiet /\ UNCHANGED <<run, session, turns, exec>>

(* The script increments the sequence and adds the entry in one step.      *)
PumpStores(r) ==
  /\ pump[r].busy # <<>>
  /\ stream' = [stream EXCEPT ![r] = @ \o pump[r].busy]
  /\ pump' = [pump EXCEPT ![r].busy = <<>>]
  /\ Calm
  /\ UNCHANGED <<run, session, turns, exec, sub>>

(* Broken variant: a failed append is logged and forgotten.                *)
PumpForgetsFailure(r) ==
  /\ pump[r].busy # <<>>
  /\ Fault
  /\ \/ stream' = [stream EXCEPT ![r] = @ \o pump[r].busy]
     \/ UNCHANGED stream
  /\ pump' = [pump EXCEPT ![r].busy = <<>>]
  /\ UNCHANGED <<run, session, turns, exec, sub, cancels, expiries>>

(* The append raises; Redis may have stored the entry before the answer was *)
(* lost.  The pump keeps going with the next event.                        *)
PumpFails(r) ==
  /\ pump[r].busy # <<>>
  /\ Fault
  /\ \/ stream' = [stream EXCEPT ![r] = @ \o pump[r].busy]
     \/ UNCHANGED stream
  /\ pump' = [pump EXCEPT ![r].busy = <<>>, ![r].failed = TRUE]
  /\ UNCHANGED <<run, session, turns, exec, sub, cancels, expiries>>

(* Stream and sequence expire together, a day after the last append.       *)
Expire(r) ==
  /\ At(r, "idle")
  /\ stream[r] # <<>>
  /\ expiries < MaxExpiries
  /\ expiries' = expiries + 1
  /\ stream' = [stream EXCEPT ![r] = <<>>]
  /\ UNCHANGED <<run, session, turns, exec, pump, sub, faults, cancels>>
---------------------------------------------------------------------------
(* stream_run_events: one NDJSON stream of a client.                       *)
EndsStream(e) == e.kind \in Terminal \union {"waiting_input"}

(* XREAD after the cursor: its next n lines may be delivered if no status   *)
(* that ends the segment comes before the last of them.                    *)
Delivers(r, c, n) ==
  /\ n <= MaxBatch
  /\ \A m \in 1..n : sub[r][c].cursor + m <= Len(stream[r])
  /\ \A m \in 1..(n - 1) : ~EndsStream(stream[r][sub[r][c].cursor + m])

(* Broken variant: the cursor follows the batch, not the lines.            *)
ReceiveBatch(r, c, n) ==
  [sub[r][c] EXCEPT
     !.seen = @ \union {stream[r][sub[r][c].cursor + m] : m \in 1..n},
     !.cursor = IF @ + MaxBatch <= Len(stream[r]) THEN @ + MaxBatch ELSE Len(stream[r])]

(* The client after the next n lines.                                      *)
Receive(r, c, n) ==
  [sub[r][c] EXCEPT
     !.seen = @ \union {stream[r][sub[r][c].cursor + m] : m \in 1..n},
     !.cursor = @ + n]

SetSub(r, c, row) ==
  /\ sub' = [sub EXCEPT ![r][c] = row]
  /\ UNCHANGED <<run, session, turns, exec, pump, stream>>

Done(row, by, end) == [row EXCEPT !.pc = "off", !.by = by, !.end = end]

(* A client starts over, or goes on after the last sequence it has.        *)
Connect(r, c) ==
  /\ sub[r][c].pc = "off"
  /\ Exists(r)
  /\ \E row \in {NoSub, sub[r][c]} :
       /\ Cardinality(row.made) < MaxMadeUp
       /\ SetSub(r, c, [row EXCEPT !.pc = "reading", !.by = "none", !.end = "none"])
  /\ Calm

(* As many lines as the batch has, up to the one that ends the segment.    *)
Read(r, c) ==
  /\ sub[r][c].pc = "reading"
  /\ \E n \in 0..MaxBatch :
       LET last == stream[r][sub[r][c].cursor + n] IN
       /\ Delivers(r, c, n) /\ ~Delivers(r, c, n + 1)
       /\ SetSub(r, c, IF n > 0 /\ EndsStream(last)
                       THEN Done(Receive(r, c, n), "event", last.kind)
                       ELSE [Receive(r, c, n) EXCEPT !.pc = "looking"])
  /\ Calm

(* Broken variant: the row is not consulted.                               *)
LookAway(r, c) ==
  /\ sub[r][c].pc = "looking"
  /\ SetSub(r, c, [sub[r][c] EXCEPT !.pc = "waiting"])
  /\ Calm

(* The line made up from an ended row takes the sequence after the cursor,  *)
(* and the client keeps it like any other.  (The row's last_event_sequence  *)
(* stays 0, so it never takes part.)                                       *)
MakeUp(row) == [row EXCEPT !.made = @ \union {row.cursor + 1}, !.cursor = @ + 1]

(* The row decides whether more may come: an ended run closes the stream     *)
(* with a line made up from its status; a deleted one breaks it off.       *)
Look(r, c) ==
  /\ sub[r][c].pc = "looking"
  /\ SetSub(r, c, CASE run[r].status \in Terminal ->
                         Done(MakeUp(sub[r][c]), "recovery", run[r].status)
                    [] run[r].status \in Active -> [sub[r][c] EXCEPT !.pc = "waiting"]
                    [] OTHER -> Done(sub[r][c], "lost", "none"))
  /\ Calm

(* wait_after returns entries, or nothing after a second: a heartbeat line. *)
Wait(r, c) ==
  /\ sub[r][c].pc = "waiting"
  /\ SetSub(r, c, [sub[r][c] EXCEPT !.pc = "reading"])
  /\ Calm

StreamFails(r, c) ==
  /\ sub[r][c].pc \in {"reading", "waiting"}
  /\ Fault
  /\ SetSub(r, c, Done(sub[r][c], "error", "none"))
  /\ UNCHANGED <<cancels, expiries>>

(* The client goes away, perhaps in the middle of a batch.                 *)
Disconnect(r, c) ==
  /\ sub[r][c].pc # "off"
  /\ \E n \in 0..MaxBatch :
       /\ sub[r][c].pc = "reading" \/ n = 0
       /\ Delivers(r, c, n)
       /\ SetSub(r, c, Done(Receive(r, c, n), "lost", "none"))
  /\ Calm

---------------------------------------------------------------------------
(* What the rest of the system does to the rows meanwhile: clients, the      *)
(* product chat, heartbeats, the sweeper, a refused submit, a shutdown.    *)
RowStep ==
  /\ \/ \E s \in Sessions :
          CreateSession(s) \/ DeleteSession(s) \/ \E q \in Requests : AppendDialogueTurn(s, q)
     \/ \E r \in Runs, s \in Sessions, q \in Requests : CreateRun(r, s, q)
     \/ \E r \in Runs :
          \/ ResumeCheckpoint(r) \/ RequestCancel(r) \/ PassCutoff(r)
          \/ run[r].status = "queued" /\ MarkFailed(r, Nil)
          \/ \E w \in Workers : UpdateHeartbeat(r, w) \/ (At(r, "idle") /\ MarkInterrupted(r, w))
     \/ InterruptStaleRuns
  /\ UNCHANGED eventVars

ExecStep(r) ==
  \/ Begin(r) \/ BeginRefused(r) \/ GraphEnds(r) \/ Pause(r) \/ Commit(r)
  \/ Refused(r) \/ Announce(r) \/ Fail(r) \/ CancelEnds(r) \/ Close(r)
  \/ Flush(r, "pauseflush") \/ Flush(r, "leaving")

PumpStep(r) == PumpTakes(r) \/ PumpStores(r)

SubStep(r, c) == Read(r, c) \/ Look(r, c) \/ Wait(r, c)

Accident(r) ==
  \/ BeginBreaks(r) \/ CallFails(r) \/ CancelAtAwait(r) \/ CancelPump(r) \/ Crash(r)
  \/ PumpFails(r)

EventNext ==
  \/ RowStep
  \/ \E r \in Runs :
       \/ \E w \in Workers : Claim(r, w)
       \/ ExecStep(r) \/ GraphEvent(r) \/ PumpStep(r) \/ Accident(r) \/ Expire(r)
       \/ \E c \in Clients :
            Connect(r, c) \/ SubStep(r, c) \/ StreamFails(r, c) \/ Disconnect(r, c)

EventSpec == EventInit /\ [][EventNext]_vars

(* The event loop schedules the executor, the pump and every stream; the    *)
(* graph has a deadline.  Nothing is assumed of clients and the environment. *)
EventFairSpec ==
  /\ EventSpec
  /\ \A r \in Runs :
       /\ WF_vars(ExecStep(r))
       /\ WF_vars(PumpStep(r))
       /\ \A c \in Clients : WF_vars(SubStep(r, c))

---------------------------------------------------------------------------
(* Composition: to the tables, publishing and following are stutters.      *)
ImplementsRepository == RepoInit /\ [][RepoNext]_repoVars

(* An execution that ends without an exception has stored exactly what it   *)
(* published, in order: a failed or lost append always surfaces, however   *)
(* the flushes, the queue and the pump's task interleave.                  *)
FlushedMeansStored ==
  [][\A r \in Runs :
       exec'[r].ended = "ok" /\ exec[r].ended # "ok" =>
         LET before == Len(stream[r]) - exec[r].nr IN
         /\ before >= 0
         /\ \A i \in 1..before : stream[r][i].token # exec[r].token
         /\ \A i \in 1..exec[r].nr :
              stream[r][before + i].token = exec[r].token /\ stream[r][before + i].nr = i]_vars

(* The stream keeps the order of publication, across executions and after   *)
(* failed appends; no event is stored twice.                               *)
StreamKeepsOrder ==
  \A r \in Runs : \A i, j \in DOMAIN stream[r] :
    i < j => \/ stream[r][i].token < stream[r][j].token
             \/ /\ stream[r][i].token = stream[r][j].token
                /\ stream[r][i].nr < stream[r][j].nr

(* Nothing follows a run's "completed": a client that stops there misses    *)
(* nothing, whatever cancels or faults come after the commit.              *)
CompletedIsLast ==
  \A r \in Runs : \A i \in DOMAIN stream[r] :
    stream[r][i].kind = "completed" => i = Len(stream[r])

(* What reaches a stream is what was published, in order, no lost event is  *)
(* hidden, and publishing writes no row of its own (run_event_pump.py _run, *)
(* redis_run_event_bus.py append).                                         *)
StreamIsSound == EventTypeOK /\ StreamKeepsOrder /\ CompletedIsLast

(* The three together, as promised to the readers of a run's stream        *)
(* (run_event_pump.py, redis_run_event_bus.py).                            *)
EventsAreSound == []StreamIsSound /\ FlushedMeansStored /\ ImplementsRepository

(* A stream that ended with "completed", or with a line made up from the    *)
(* row, told the truth, and the row can never say anything else again.     *)
EndsAreTrue ==
  \A r \in Runs, c \in Clients :
    sub[r][c].end = "completed" \/ sub[r][c].by = "recovery" =>
      run[r].status \in {sub[r][c].end, "deleted"}

(* A client that always goes on after its last sequence has every stored    *)
(* event up to there, over disconnects, batches and segments, save those    *)
(* whose sequence a made-up line took; and such a line it has only of a run *)
(* that had ended.                                                         *)
OnlyMadeUpLinesSkip ==
  \A r \in Runs, c \in Clients :
    LET mine == sub[r][c] IN
    /\ \A i \in DOMAIN stream[r] :
         i <= mine.cursor => stream[r][i] \in mine.seen \/ i \in mine.made
    /\ mine.made # {} => run[r].status \in Terminal \union {"deleted"}

(* Whoever follows a run is told all of it, but for what a made-up line     *)
(* hides, and no false end (chat_run_routes.py stream_run_events,          *)
(* run-event-converter.ts).                                                *)
FollowersAreTold == EndsAreTrue /\ OnlyMadeUpLinesSkip

(* Every execution ends: no flush waits for a pump that has given up.      *)
ExecutionEnds == \A r \in Runs : exec[r].pc # "idle" ~> exec[r].pc = "idle"

(* Every stream of an ended run ends, even if its last events never reached *)
(* Redis.                                                                  *)
SubscriptionEnds ==
  \A r \in Runs, c \in Clients :
    run[r].status \in Terminal /\ sub[r][c].pc # "off" ~> sub[r][c].pc = "off"
============================================================================
