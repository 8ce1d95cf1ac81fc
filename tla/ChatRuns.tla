------------------------------ MODULE ChatRuns ------------------------------
(***************************************************************************)
(* Durable chat runs end to end: the HTTP calls that create, resume and    *)
(* cancel a run, the per-process task manager, the executor coroutine that *)
(* holds the Redis session lease while it runs the agent graph and commits *)
(* its turn, the heartbeat, the stale sweeper, cancel notices over pub/sub,*)
(* crashes and shutdowns of API processes.  The tables are RunRepository.  *)
(*                                                                         *)
(* An executor task is a program counter between its awaits.  A step does  *)
(* one await and everything the coroutine does until the next one.  An     *)
(* await that writes may raise before or after its transaction committed   *)
(* (a lost acknowledgement), and task.cancel() may strike there too.       *)
(***************************************************************************)
EXTENDS RunRepository, FiniteSets

CONSTANTS
  MaxConcurrent,   \* max_concurrent_chat_runs: the manager's semaphore
  MaxPauses,       \* bound: times the graph stops at a checkpoint
  MaxCancels,      \* bound: cancel calls
  MaxStops,        \* bound: processes that crash or shut down
  MaxFaults        \* bound: failed calls, lost answers, leases lost by a live holder

ASSUME MaxConcurrentAssumption == MaxConcurrent \in Nat \ {0}
ASSUME MaxPausesAssumption == MaxPauses \in Nat
ASSUME MaxCancelsAssumption == MaxCancels \in Nat
ASSUME MaxStopsAssumption == MaxStops \in Nat
ASSUME MaxFaultsAssumption == MaxFaults \in Nat

VARIABLES
  api,        \* [Workers -> {"up", "draining", "down"}]
  sweepers,   \* processes whose stale sweeper still loops
  task,       \* [Workers -> [Runs -> Task]]: BackgroundRunManager._tasks
  pending,    \* <<w, r>>: w changed the row to queued and must submit a task
  notices,    \* <<w, r>>: a cancel call or pub/sub notice under way to w
  drain,      \* [Workers -> SUBSET Runs]: runs shutdown still has to mark
  lease,      \* [Sessions -> holder of the Redis lock]
  said,       \* [Runs -> the last status event queued on the run's pump]
  pauses,     \* checkpoints reached so far
  cancels,    \* cancel calls so far
  faults      \* faults so far

procVars == <<api, sweepers, task, pending, notices, drain, lease, said, pauses, cancels, faults>>
vars     == <<run, session, turns, api, sweepers, task, pending, notices, drain, lease, said,
              pauses, cancels, faults>>

PC == {"none", "waiting", "locking", "claiming", "marking", "loading", "graph",
       "committing", "announcing", "pausing", "paused", "failing",
       "cancelling", "interrupting", "closing"}

(* token: from allocate_fencing_token; seen: next_turn_index read with the  *)
(* history; kill: cancel() called, not yet raised; heart: heartbeat runs.   *)
Task   == [pc: PC, token: Nat, seen: Nat, kill: BOOLEAN, heart: BOOLEAN]
NoTask == [pc |-> "none", token |-> 0, seen |-> 0, kill |-> FALSE, heart |-> FALSE]

(* <<w, r>>: the execution of r on w; <<Nil, r>>: set in Redis for an        *)
(* execution that was cancelled before it learnt of it.                    *)
Holder == (Workers \union {Nil}) \X (Runs \union {Nil})
Free   == <<Nil, Nil>>

(* Type invariant of the workers, their tasks and what they share          *)
(* (chat_run_runtime.py, background_run_manager.py).                       *)
ChatTypeOK ==
  /\ RepoTypeOK
  /\ api \in [Workers -> {"up", "draining", "down"}]
  /\ sweepers \in SUBSET Workers
  /\ task \in [Workers -> [Runs -> Task]]
  /\ pending \in SUBSET (Workers \X Runs)
  /\ notices \in SUBSET (Workers \X Runs)
  /\ drain \in [Workers -> SUBSET Runs]
  /\ lease \in [Sessions -> Holder]
  /\ said \in [Runs -> Terminal \union {"none", "running", "waiting_input"}]
  /\ pauses \in Nat
  /\ cancels \in Nat
  /\ faults \in Nat

Init ==
  /\ RepoInit
  /\ api = [w \in Workers |-> "up"]
  /\ sweepers = Workers
  /\ task = [w \in Workers |-> [r \in Runs |-> NoTask]]
  /\ pending = {}
  /\ notices = {}
  /\ drain = [w \in Workers |-> {}]
  /\ lease = [s \in Sessions |-> Free]
  /\ said = [r \in Runs |-> "none"]
  /\ pauses = 0
  /\ cancels = 0
  /\ faults = 0

Managed(w, r)  == task[w][r].pc # "none"
Idle(w)        == \A r \in Runs : ~Managed(w, r)
At(w, r, pc)   == api[w] # "down" /\ task[w][r].pc = pc /\ ~task[w][r].kill
Goto(w, r, pc) == task' = [task EXCEPT ![w][r].pc = pc]
Leave(w, r, pc) == task' = [task EXCEPT ![w][r] =
                     [NoTask EXCEPT !.pc = pc, !.heart = task[w][r].heart]]
End(w, r)      == task' = [task EXCEPT ![w][r] = NoTask]
Say(r, status) == said' = [said EXCEPT ![r] = status]

(* A repository call whose refusal the caller ignores.                     *)
Try(accepted, call) == IF accepted THEN call ELSE UNCHANGED repoVars

Fault == faults < MaxFaults /\ faults' = faults + 1

---------------------------------------------------------------------------
(* HTTP handlers: ChatRunRuntime and BackgroundRunManager.submit.          *)

CreateRunCall(w, r, s, q) ==
  /\ api[w] = "up"
  /\ CreateRun(r, s, q)
  /\ pending' = pending \union {<<w, r>>}
  /\ UNCHANGED <<api, sweepers, task, notices, drain, lease, said, pauses, cancels, faults>>

ResumeRunCall(w, r) ==
  /\ api[w] = "up"
  /\ ResumeCheckpoint(r)
  /\ pending' = pending \union {<<w, r>>}
  /\ UNCHANGED <<api, sweepers, task, notices, drain, lease, said, pauses, cancels, faults>>

(* The call's second half: submit.  A manager that is closing, or still     *)
(* owns an unfinished task of the run, refuses and the row is marked failed *)
(* without an owner check.                                                 *)
Dispatch(w, r) ==
  /\ <<w, r>> \in pending
  /\ api[w] # "down"
  /\ pending' = pending \ {<<w, r>>}
  /\ IF api[w] = "up" /\ ~Managed(w, r)
     THEN /\ task' = [task EXCEPT ![w][r] = [NoTask EXCEPT !.pc = "waiting"]]
          /\ UNCHANGED repoVars
     ELSE /\ Try(FailAccepts(r, Nil), MarkFailed(r, Nil))
          /\ UNCHANGED task
  /\ UNCHANGED <<api, sweepers, notices, drain, lease, said, pauses, cancels, faults>>

(* A worker named in the row is told, otherwise every worker; w itself      *)
(* always cancels its own task.                                            *)
CancelTargets(w, r) ==
  {w} \union IF run[r].worker = Nil THEN Workers ELSE {run[r].worker}

CancelRunCall(w, r) ==
  /\ api[w] = "up"
  /\ \/ RequestCancel(r)
     \/ run[r].status = "cancel_requested" /\ UNCHANGED repoVars
  /\ notices' = notices \union (CancelTargets(w, r) \X {r})
  /\ cancels < MaxCancels
  /\ cancels' = cancels + 1
  /\ UNCHANGED <<api, sweepers, task, pending, drain, lease, said, pauses, faults>>

(* manager.cancel, from the handler or from the pub/sub listener.          *)
DeliverNotice(w, r) ==
  /\ <<w, r>> \in notices
  /\ api[w] # "down"
  /\ notices' = notices \ {<<w, r>>}
  /\ task' = [task EXCEPT ![w][r].kill = Managed(w, r)]
  /\ UNCHANGED <<repoVars, api, sweepers, pending, drain, lease, said, pauses, cancels, faults>>

(* Redis unreachable, nobody listening, listener dead, process gone.       *)
LoseNotice(w, r) ==
  /\ <<w, r>> \in notices
  /\ notices' = notices \ {<<w, r>>}
  /\ UNCHANGED <<repoVars, api, sweepers, task, pending, drain, lease, said, pauses, cancels, faults>>

---------------------------------------------------------------------------
(* ChatRunExecutor.execute, one await at a time.                           *)

Running(w) == {r \in Runs : task[w][r].pc \notin {"none", "waiting"}}

StartTask(w, r) ==
  /\ At(w, r, "waiting")
  /\ Cardinality(Running(w)) < MaxConcurrent
  /\ Goto(w, r, "locking")
  /\ UNCHANGED <<repoVars, api, sweepers, pending, notices, drain, lease, said, pauses, cancels, faults>>

AcquireLock(w, r) ==
  /\ At(w, r, "locking")
  /\ lease[Home(r)] = Free
  /\ lease' = [lease EXCEPT ![Home(r)] = <<w, r>>]
  /\ Goto(w, r, "claiming")
  /\ UNCHANGED <<repoVars, api, sweepers, pending, notices, drain, said, pauses, cancels, faults>>

(* lock_timeout or Redis unavailable: the task dies, the row stays queued.  *)
LockFails(w, r) ==
  /\ At(w, r, "locking")
  /\ End(w, r)
  /\ UNCHANGED <<repoVars, api, sweepers, pending, notices, drain, lease, said, pauses, cancels, faults>>

ClaimToken(w, r) ==
  /\ At(w, r, "claiming")
  /\ AllocateFencingToken(Home(r))
  /\ task' = [task EXCEPT ![w][r].pc = "marking",
                          ![w][r].token = session'[Home(r)].fence]
  /\ UNCHANGED <<api, sweepers, pending, notices, drain, lease, said, pauses, cancels, faults>>

BecomeRunning(w, r) ==
  /\ At(w, r, "marking")
  /\ MarkRunning(r, w, task[w][r].token)
  /\ task' = [task EXCEPT ![w][r].pc = "loading", ![w][r].heart = TRUE]
  /\ UNCHANGED <<api, sweepers, pending, notices, drain, lease, said, pauses, cancels, faults>>

(* load_recent_messages: what the answer will be based on.                 *)
LoadHistory(w, r) ==
  /\ At(w, r, "loading")
  /\ Open(Home(r))
  /\ task' = [task EXCEPT ![w][r].pc = "graph",
                          ![w][r].seen = session[Home(r)].next]
  /\ Say(r, "running")
  /\ UNCHANGED <<repoVars, api, sweepers, pending, notices, drain, lease, pauses, cancels, faults>>

RunGraph(w, r) ==
  /\ At(w, r, "graph")
  /\ \/ Goto(w, r, "committing") /\ UNCHANGED pauses
     \/ Leave(w, r, "failing") /\ UNCHANGED pauses
     \/ /\ pauses < MaxPauses
        /\ pauses' = pauses + 1
        /\ Goto(w, r, "pausing")
  /\ UNCHANGED <<repoVars, api, sweepers, pending, notices, drain, lease, said, cancels, faults>>

(* Broken variants: the refusal of a commit is overlooked; the turn and the *)
(* status are written by two transactions.                                 *)
CommitUnchecked(w, r) ==
  /\ At(w, r, "committing")
  /\ Try(CompleteAccepts(r, w, task[w][r].token, task[w][r].seen),
         CompleteWithTurn(r, w, task[w][r].token, task[w][r].seen))
  /\ Goto(w, r, "announcing")
  /\ UNCHANGED <<api, sweepers, pending, notices, drain, lease, said, pauses, cancels, faults>>

(* Broken variant: the turn is stored before the run is completed, each in *)
(* a transaction of its own.                                               *)
CommitTurnFirst(w, r) ==
  /\ At(w, r, "committing")
  /\ CompleteAccepts(r, w, task[w][r].token, task[w][r].seen)
  /\ AddTurn(Home(r), run[r].request, r)
  /\ Goto(w, r, "announcing")
  /\ UNCHANGED <<run, api, sweepers, pending, notices, drain, lease, said, pauses, cancels, faults>>

Commit(w, r) ==
  /\ At(w, r, "committing")
  /\ CompleteWithTurn(r, w, task[w][r].token, task[w][r].seen)
  /\ Goto(w, r, "announcing")
  /\ UNCHANGED <<api, sweepers, pending, notices, drain, lease, said, pauses, cancels, faults>>

(* The cache write may fail silently; the events are queued after it.      *)
Announce(w, r) ==
  /\ At(w, r, "announcing")
  /\ Say(r, "completed")
  /\ Leave(w, r, "closing")
  /\ UNCHANGED <<repoVars, api, sweepers, pending, notices, drain, lease, pauses, cancels, faults>>

Pause(w, r) ==
  /\ At(w, r, "pausing")
  /\ MarkWaitingInput(r, w, task[w][r].token)
  /\ Goto(w, r, "paused")
  /\ UNCHANGED <<api, sweepers, pending, notices, drain, lease, said, pauses, cancels, faults>>

AnnouncePause(w, r) ==
  /\ At(w, r, "paused")
  /\ Say(r, "waiting_input")
  /\ Leave(w, r, "closing")
  /\ UNCHANGED <<repoVars, api, sweepers, pending, notices, drain, lease, pauses, cancels, faults>>

(* _mark_failed and _mark_interrupted swallow a refusal, so the event may   *)
(* contradict the row; it is lost when the pump itself has failed.         *)
Fail(w, r) ==
  /\ At(w, r, "failing")
  /\ Try(FailAccepts(r, w), MarkFailed(r, w))
  /\ Say(r, "failed") \/ UNCHANGED said
  /\ Leave(w, r, "closing")
  /\ UNCHANGED <<api, sweepers, pending, notices, drain, lease, pauses, cancels, faults>>

FinishCancel(w, r) ==
  /\ At(w, r, "cancelling")
  /\ MarkCancelled(r, w)
  /\ Say(r, "cancelled") \/ UNCHANGED said
  /\ Leave(w, r, "closing")
  /\ UNCHANGED <<api, sweepers, pending, notices, drain, lease, pauses, cancels, faults>>

FinishInterrupt(w, r) ==
  /\ At(w, r, "interrupting")
  /\ Try(InterruptAccepts(r, w), MarkInterrupted(r, w))
  /\ Say(r, "interrupted") \/ UNCHANGED said
  /\ Leave(w, r, "closing")
  /\ UNCHANGED <<api, sweepers, pending, notices, drain, lease, pauses, cancels, faults>>

Released(w, r) == IF lease[Home(r)] = <<w, r>> THEN Free ELSE lease[Home(r)]

(* pump.close, heartbeat.stop, lock release; the semaphore is freed.       *)
Close(w, r) ==
  /\ At(w, r, "closing")
  /\ lease' = [lease EXCEPT ![Home(r)] = Released(w, r)]
  /\ End(w, r)
  /\ UNCHANGED <<repoVars, api, sweepers, pending, notices, drain, said, pauses, cancels, faults>>

---------------------------------------------------------------------------
(* Exceptions.                                                             *)

(* The transaction the task is awaiting, if the tables accept it.          *)
Write(w, r) ==
  LET pc == task[w][r].pc
      t  == task[w][r].token
  IN \/ pc = "claiming"     /\ AllocateFencingToken(Home(r))
     \/ pc = "marking"      /\ MarkRunning(r, w, t)
     \/ pc = "committing"   /\ CompleteWithTurn(r, w, t, task[w][r].seen)
     \/ pc = "pausing"      /\ MarkWaitingInput(r, w, t)
     \/ pc = "failing"      /\ MarkFailed(r, w)
     \/ pc = "cancelling"   /\ MarkCancelled(r, w)
     \/ pc = "interrupting" /\ MarkInterrupted(r, w)

(* Broken variant: an error ends in no handler at all.                     *)
ErrorUnhandled(pc) == IF pc = "cancelling" THEN "interrupting" ELSE "raised"

(* Where the except clauses take an error: nothing marks a run whose        *)
(* execution fails before the graph starts.                                *)
ErrorTarget(pc) ==
  CASE pc \in {"committing", "pausing"} -> "failing"
    [] pc = "cancelling"                -> "interrupting"
    [] OTHER                            -> "closing"

Refuses(w, r) ==
  LET pc == task[w][r].pc
      t  == task[w][r].token
  IN \/ pc \in {"claiming", "loading"} /\ ~Open(Home(r))
     \/ pc = "marking"    /\ ~MarkRunningAccepts(r, w, t)
     \/ pc = "committing" /\ ~CompleteAccepts(r, w, t, task[w][r].seen)
     \/ pc = "pausing"    /\ ~PauseAccepts(r, w, t)
     \/ pc = "cancelling" /\ ~CancelAccepts(r, w)

Refused(w, r) ==
  /\ At(w, r, task[w][r].pc)
  /\ Refuses(w, r)
  /\ Leave(w, r, ErrorTarget(task[w][r].pc))
  /\ UNCHANGED <<repoVars, api, sweepers, pending, notices, drain, lease, said, pauses, cancels, faults>>

Awaiting == {"claiming", "marking", "loading", "graph", "committing", "announcing",
             "pausing", "paused", "failing", "cancelling", "interrupting"}

(* The call fails, or its acknowledgement is lost.  The two calls that      *)
(* swallow errors are followed by their event all the same.                *)
CallFails(w, r) ==
  /\ Fault
  /\ At(w, r, task[w][r].pc)
  /\ task[w][r].pc \in Awaiting \ {"graph"}
  /\ Write(w, r) \/ UNCHANGED repoVars
  /\ Leave(w, r, ErrorTarget(task[w][r].pc))
  /\ CASE task[w][r].pc = "failing"      -> Say(r, "failed")
       [] task[w][r].pc = "interrupting" -> Say(r, "interrupted")
       [] OTHER                          -> UNCHANGED said
  /\ UNCHANGED <<api, sweepers, pending, notices, drain, lease, pauses, cancels>>

(* CancelledError: only what runs under the executor's try, and has not     *)
(* set `committed', tries to record the cancellation.  The transaction     *)
(* under way may have committed.                                           *)
CancelTarget(pc) ==
  IF pc \in {"graph", "committing", "pausing", "paused"} THEN "cancelling" ELSE "closing"

Killed(w, r) == api[w] # "down" /\ task[w][r].kill

CancelAtAwait(w, r) ==
  /\ Killed(w, r)
  /\ task[w][r].pc \in Awaiting
  /\ Write(w, r) \/ UNCHANGED repoVars
  /\ Leave(w, r, CancelTarget(task[w][r].pc))
  /\ UNCHANGED <<api, sweepers, pending, notices, drain, lease, said, pauses, cancels, faults>>

(* Nothing is undone for a task that did not reach the executor's try.  An  *)
(* acquisition under way may still take effect; a release may not happen.  *)
CancelOutside(w, r) ==
  /\ Killed(w, r)
  /\ task[w][r].pc \in {"waiting", "locking", "closing"}
  /\ End(w, r)
  /\ lease' = [lease EXCEPT ![Home(r)] =
       CASE task[w][r].pc = "locking" /\ @ = Free     -> <<Nil, r>>
         [] task[w][r].pc = "closing" /\ @ = <<w, r>> -> <<Nil, r>>
         [] OTHER                                     -> @]
     \/ lease' = [lease EXCEPT ![Home(r)] = Released(w, r)]
  /\ UNCHANGED <<repoVars, api, sweepers, pending, notices, drain, said, pauses, cancels, faults>>

---------------------------------------------------------------------------
(* Heartbeat, lease expiry, sweeper.                                       *)

(* Broken variant: a refused refresh cancels the task as well.             *)
HeartbeatCancelsOnRefusal(w, r) ==
  /\ api[w] # "down"
  /\ task[w][r].heart
  /\ \/ UpdateHeartbeat(r, w) /\ UNCHANGED task
     \/ /\ run[r].worker # w \/ run[r].status \notin Leased
        /\ task' = [task EXCEPT ![w][r].kill = TRUE, ![w][r].heart = FALSE]
        /\ UNCHANGED repoVars
  /\ UNCHANGED <<api, sweepers, pending, notices, drain, lease, said, pauses, cancels, faults>>

(* One round: refresh, and cancel the task once the row asks for it.  The   *)
(* loop ends on a refusal or an error.                                     *)
Heartbeat(w, r) ==
  /\ api[w] # "down"
  /\ task[w][r].heart
  /\ \/ /\ UpdateHeartbeat(r, w)
        /\ IF run[r].status = "cancel_requested"
           THEN task' = [task EXCEPT ![w][r].kill = TRUE, ![w][r].heart = FALSE]
           ELSE UNCHANGED task
        /\ UNCHANGED faults
     \/ /\ run[r].worker = w /\ run[r].status \in Leased => Fault
        /\ run[r].worker # w \/ run[r].status \notin Leased => UNCHANGED faults
        /\ task' = [task EXCEPT ![w][r].heart = FALSE]
        /\ UNCHANGED repoVars
  /\ UNCHANGED <<api, sweepers, pending, notices, drain, lease, said, pauses, cancels>>

(* The PX runs out: renewals stopped with the holder, or (a Redis error, a  *)
(* stalled event loop) while the holder goes on without noticing.          *)
LeaseExpires(s) ==
  /\ lease[s] # Free
  /\ IF \E w \in Workers, r \in Runs : lease[s] = <<w, r>> /\ Managed(w, r)
     THEN Fault ELSE UNCHANGED faults
  /\ lease' = [lease EXCEPT ![s] = Free]
  /\ UNCHANGED <<repoVars, api, sweepers, task, pending, notices, drain, said, pauses, cancels>>

Sweeping == {w \in sweepers : api[w] = "up"}

Sweep ==
  /\ Sweeping # {}
  /\ InterruptStaleRuns
  /\ UNCHANGED procVars

(* The sweeper's loop ends for good on the first error of the database.    *)
SweeperDies(w) ==
  /\ w \in Sweeping
  /\ Fault
  /\ sweepers' = sweepers \ {w}
  /\ UNCHANGED <<repoVars, api, task, pending, notices, drain, lease, said, pauses, cancels>>

TimePasses(r) == PassCutoff(r) /\ UNCHANGED procVars

---------------------------------------------------------------------------
(* Processes stop.                                                         *)

MayStop(w) ==
  /\ api[w] = "up"
  /\ Cardinality({v \in Workers : api[v] # "up"}) < MaxStops

Crash(w) ==
  /\ MayStop(w)
  /\ api' = [api EXCEPT ![w] = "down"]
  /\ task' = [task EXCEPT ![w] = [r \in Runs |-> NoTask]]
  /\ pending' = {p \in pending : p[1] # w}
  /\ notices' = {n \in notices : n[1] # w}
  /\ UNCHANGED <<repoVars, sweepers, drain, lease, said, pauses, cancels, faults>>

(* shutdown(): refuse submissions and cancel every task ...                *)
BeginShutdown(w) ==
  /\ MayStop(w)
  /\ api' = [api EXCEPT ![w] = "draining"]
  /\ drain' = [drain EXCEPT ![w] = {r \in Runs : Managed(w, r)}]
  /\ task' = [task EXCEPT ![w] = [r \in Runs |->
                [task[w][r] EXCEPT !.kill = Managed(w, r)]]]
  /\ UNCHANGED <<repoVars, sweepers, pending, notices, lease, said, pauses, cancels, faults>>

(* Broken variant: a row this worker does not own stops the shutdown.      *)
ShutdownMarkStrict(w, r) ==
  /\ api[w] = "draining"
  /\ Idle(w)
  /\ r \in drain[w]
  /\ drain' = [drain EXCEPT ![w] = @ \ {r}]
  /\ MarkInterrupted(r, w)
  /\ UNCHANGED <<api, sweepers, task, pending, notices, lease, said, pauses, cancels, faults>>

(* ... wait for them, mark each of their runs interrupted if it still names *)
(* this worker, errors ignored ...                                         *)
ShutdownMark(w, r) ==
  /\ api[w] = "draining"
  /\ Idle(w)
  /\ r \in drain[w]
  /\ drain' = [drain EXCEPT ![w] = @ \ {r}]
  /\ \/ Try(InterruptAccepts(r, w), MarkInterrupted(r, w)) /\ UNCHANGED faults
     \/ UNCHANGED repoVars /\ Fault
  /\ UNCHANGED <<api, sweepers, task, pending, notices, lease, said, pauses, cancels>>

(* ... and exit.                                                           *)
EndShutdown(w) ==
  /\ api[w] = "draining"
  /\ Idle(w)
  /\ drain[w] = {}
  /\ api' = [api EXCEPT ![w] = "down"]
  /\ pending' = {p \in pending : p[1] # w}
  /\ notices' = {n \in notices : n[1] # w}
  /\ UNCHANGED <<repoVars, sweepers, task, drain, lease, said, pauses, cancels, faults>>

---------------------------------------------------------------------------
(* The rest of the API: sessions, and the product chat's turns.            *)

(* DELETE holds the session lock across the durable delete.                *)
DeleteSessionCall(s) ==
  /\ lease[s] = Free
  /\ DeleteSession(s)
  /\ UNCHANGED procVars

SessionStep(s) ==
  \/ CreateSession(s) /\ UNCHANGED procVars
  \/ DeleteSessionCall(s)
  \/ \E q \in Requests : AppendDialogueTurn(s, q) /\ UNCHANGED procVars
  \/ LeaseExpires(s)

CallStep(w, r) ==
  \/ \E s \in Sessions, q \in Requests : CreateRunCall(w, r, s, q)
  \/ ResumeRunCall(w, r)
  \/ CancelRunCall(w, r)
  \/ Dispatch(w, r)
  \/ DeliverNotice(w, r)
  \/ LoseNotice(w, r)

TaskStep(w, r) ==
  \/ StartTask(w, r)    \/ AcquireLock(w, r)   \/ LockFails(w, r)
  \/ ClaimToken(w, r)   \/ BecomeRunning(w, r) \/ LoadHistory(w, r)
  \/ RunGraph(w, r)     \/ Commit(w, r)        \/ Announce(w, r)
  \/ Pause(w, r)        \/ AnnouncePause(w, r) \/ Fail(w, r)
  \/ FinishCancel(w, r) \/ FinishInterrupt(w, r) \/ Close(w, r)
  \/ Refused(w, r)      \/ CallFails(w, r)
  \/ CancelAtAwait(w, r) \/ CancelOutside(w, r)

StopStep(w) ==
  \/ SweeperDies(w)
  \/ Crash(w) \/ BeginShutdown(w) \/ EndShutdown(w)
  \/ \E r \in Runs : ShutdownMark(w, r)

Next ==
  \/ \E w \in Workers, r \in Runs : CallStep(w, r) \/ TaskStep(w, r) \/ Heartbeat(w, r)
  \/ \E w \in Workers : StopStep(w)
  \/ \E s \in Sessions : SessionStep(s)
  \/ \E r \in Runs : TimePasses(r)
  \/ Sweep

Spec == Init /\ [][Next]_vars

(* Each task is scheduled (the graph has a deadline, the lock a timeout),   *)
(* the clock runs, and a sweeper that still loops sweeps.                  *)
Fairness ==
  /\ \A w \in Workers, r \in Runs : WF_vars(TaskStep(w, r))
  /\ \A w \in Workers : WF_vars(EndShutdown(w) \/ \E r \in Runs : ShutdownMark(w, r))
  /\ \A r \in Runs : WF_vars(TimePasses(r))
  /\ WF_vars(Sweep)

FairSpec == Spec /\ Fairness

---------------------------------------------------------------------------
(* What the composed system promises.                                      *)

(* Whatever executors, sweepers, handlers and dying processes do to the     *)
(* tables, they do through the repository's transactions: its promises     *)
(* (RunRepository, RunLedger) hold of the whole system.                    *)
ImplementsRepository == RepoSpec

(* A "completed" event is only ever published for a run whose turn is       *)
(* durable, however the commit raced cancels, sweeps and lost answers.     *)
AnnouncedIsDurable ==
  \A r \in Runs : said[r] = "completed" => run[r].status \in {"completed", "deleted"}

(* The dialogue's order is the order in which its runs took the session:    *)
(* an execution overtaken by a younger token never writes behind it, even  *)
(* when its Redis lease had expired unnoticed.                             *)
TurnsFollowTokens ==
  \A r, o \in Runs :
    /\ run[r].status = "completed"
    /\ run[o].status = "completed"
    /\ run[r].session = run[o].session
    /\ run[r].result < run[o].result
    => run[r].token < run[o].token

(* In a process that is not shutting down a task is only ever cancelled for *)
(* a run whose cancellation is on record, or that has ended: late notices  *)
(* never stop a resumed or unrelated execution.                            *)
KilledOnlyIfAsked ==
  \A w \in Workers, r \in Runs :
    api[w] = "up" /\ task[w][r].kill =>
      run[r].status \in Terminal \union {"cancel_requested", "deleted"}

(* A run's answer extends exactly the dialogue its execution loaded: no     *)
(* turn of the product chat or of another run slips in between.            *)
AnswersWhatItSaw ==
  [][\A r \in Runs :
       run[r].status # "completed" /\ run'[r].status = "completed" =>
         \E w \in Workers :
           /\ task[w][r].pc = "committing"
           /\ task[w][r].seen = run'[r].result
           /\ task[w][r].token = session[Home(r)].fence]_vars

(* Every run that is not waiting for the user ends or comes to wait, even   *)
(* if its process dies, its task is cancelled before it could say so, or   *)
(* its notice is lost: the session becomes free again, as long as one      *)
(* live process's sweeper has survived.                                    *)
RunsSettle ==
  []<>(Sweeping # {}) =>
    \A r \in Runs :
      (run[r].status \in Recoverable) ~>
        (run[r].status \in Terminal \union {"waiting_input", "deleted"})

(* A process told to stop finishes its tasks and its marking.              *)
ShutdownCompletes ==
  \A w \in Workers : (api[w] = "draining") ~> (api[w] = "down")


---------------------------------------------------------------------------
(* What the code says of itself and does not keep.                         *)

(* postgres_chat_run_repository.py:251 "queue the same Run for resumption": *)
(* a resumed run waits for its execution and is not failed first.  A       *)
(* resume that arrives while the paused task still flushes its events is   *)
(* refused by the manager, and the run is marked failed.                   *)
ResumedRunIsExecuted ==
  [][\A r \in Runs : run[r].status = "queued" /\ run[r].checkpoint =>
       run'[r].status # "failed"]_vars
=======================================================
