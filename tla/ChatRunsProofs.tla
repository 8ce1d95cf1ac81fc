--------------------------- MODULE ChatRunsProofs ---------------------------
(***************************************************************************)
(* The system of executors, handlers, heartbeats, sweepers and stopping    *)
(* processes implements RepoSpec, for any number of each: what the tables  *)
(* promise (RunRepositoryProofs) therefore holds of the whole system.      *)
(*                                                                         *)
(* The inductive invariant says that a task, or a call about to submit     *)
(* one, is for a run that has a row, and that a task works with a token    *)
(* its session has allocated: this is what RepoSpec asks of its callers.   *)
(***************************************************************************)
EXTENDS ChatRuns, RunRepositoryProofs

(* Where a task holds the token it claimed.                                *)
Tokened == {"marking", "loading", "graph", "committing", "announcing", "pausing", "paused"}

TaskInv ==
  /\ \A w \in Workers, r \in Runs :
       Managed(w, r) \/ <<w, r>> \in pending => run[r].status # "absent"
  /\ \A w \in Workers, r \in Runs :
       task[w][r].pc \in Tokened => task[w][r].token \in 1..session[Home(r)].fence

Inv == ChatTypeOK /\ TaskInv

---------------------------------------------------------------------------
(* Each step does to the tables what RepoSpec allows.                      *)

(* The transaction a task is awaiting, done now or never.                  *)
LEMMA WriteCalls ==
  ASSUME Inv, NEW w \in Workers, NEW r \in Runs, Write(w, r)
  PROVE  RepoNext
<1>1. task[w][r].pc # "none"
  BY DEF Write
<1>2. run[r].status # "absent" BY <1>1 DEF Inv, TaskInv, Managed
<1>3. Home(r) \in Sessions BY <1>2, HomeIsASession DEF Inv, ChatTypeOK
<1>4. CASE task[w][r].pc = "claiming"
  BY <1>3, <1>4 DEF Write, RepoNext, SessionNext
<1>5. CASE task[w][r].pc \in {"marking", "committing", "pausing"}
  <2>1. task[w][r].token \in 1..session[Home(r)].fence
    BY <1>5 DEF Inv, TaskInv, Tokened
  <2> QED BY <1>5, <2>1, OwnerCalls DEF Write, Inv, ChatTypeOK
<1>6. CASE task[w][r].pc \in {"failing", "cancelling", "interrupting"}
  BY <1>6 DEF Write, RepoNext, RunNext
<1> QED BY <1>4, <1>5, <1>6 DEF Write

LEMMA CallsAreFree ==
  ASSUME NEW w \in Workers, NEW r \in Runs, CallStep(w, r)
  PROVE  FreeCall
<1>1. ASSUME NEW s \in Sessions, NEW q \in Requests, CreateRunCall(w, r, s, q)
      PROVE  FreeCall
  BY <1>1 DEF CreateRunCall, FreeCall
<1>2. CASE ResumeRunCall(w, r)
  BY <1>2 DEF ResumeRunCall, FreeCall
<1>3. CASE CancelRunCall(w, r)
  BY <1>3 DEF CancelRunCall, FreeCall
<1>4. CASE Dispatch(w, r)
  <2>1. UNCHANGED repoVars \/ MarkFailed(r, Nil) BY <1>4 DEF Dispatch, Try
  <2> QED BY <2>1, MarksAreFree DEF FreeCall
<1>5. CASE DeliverNotice(w, r) \/ LoseNotice(w, r)
  BY <1>5 DEF DeliverNotice, LoseNotice, FreeCall
<1> QED BY <1>1, <1>2, <1>3, <1>4, <1>5 DEF CallStep

LEMMA TasksWrite ==
  ASSUME NEW w \in Workers, NEW r \in Runs, TaskStep(w, r)
  PROVE  FreeCall \/ Write(w, r)
<1>1. CASE StartTask(w, r) \/ AcquireLock(w, r) \/ LockFails(w, r) \/ LoadHistory(w, r)
           \/ RunGraph(w, r) \/ Announce(w, r) \/ AnnouncePause(w, r) \/ Close(w, r)
           \/ Refused(w, r) \/ CancelOutside(w, r)
  BY <1>1 DEF StartTask, AcquireLock, LockFails, LoadHistory, RunGraph, Announce,
              AnnouncePause, Close, Refused, CancelOutside, FreeCall
<1>2. CASE ClaimToken(w, r) \/ BecomeRunning(w, r) \/ Commit(w, r) \/ Pause(w, r)
           \/ FinishCancel(w, r)
  BY <1>2 DEF ClaimToken, BecomeRunning, Commit, Pause, FinishCancel, At, Write
<1>3. CASE Fail(w, r)
  BY <1>3 DEF Fail, Try, At, FreeCall, Write
<1>4. CASE FinishInterrupt(w, r)
  BY <1>4 DEF FinishInterrupt, Try, At, FreeCall, Write
<1>5. CASE CallFails(w, r) \/ CancelAtAwait(w, r)
  BY <1>5 DEF CallFails, CancelAtAwait, FreeCall
<1> QED BY <1>1, <1>2, <1>3, <1>4, <1>5 DEF TaskStep

LEMMA OthersAreFree ==
  ASSUME \/ \E w \in Workers, r \in Runs : Heartbeat(w, r)
         \/ \E w \in Workers : StopStep(w)
         \/ \E s \in Sessions : SessionStep(s)
         \/ \E r \in Runs : TimePasses(r)
         \/ Sweep
  PROVE  FreeCall
<1>1. ASSUME NEW w \in Workers, NEW r \in Runs, Heartbeat(w, r)
      PROVE  FreeCall
  BY <1>1 DEF Heartbeat, FreeCall
<1>2. ASSUME NEW w \in Workers, StopStep(w)
      PROVE  FreeCall
  <2>1. ASSUME NEW r \in Runs, ShutdownMark(w, r) PROVE FreeCall
    <3>1. UNCHANGED repoVars \/ MarkInterrupted(r, w) BY <2>1 DEF ShutdownMark, Try
    <3> QED BY <3>1, MarksAreFree DEF FreeCall
  <2>2. CASE SweeperDies(w) \/ Crash(w) \/ BeginShutdown(w) \/ EndShutdown(w)
    BY <2>2 DEF SweeperDies, Crash, BeginShutdown, EndShutdown, FreeCall
  <2> QED BY <1>2, <2>1, <2>2 DEF StopStep
<1>3. ASSUME NEW s \in Sessions, SessionStep(s)
      PROVE  FreeCall
  BY <1>3 DEF SessionStep, DeleteSessionCall, LeaseExpires, SessionNext, FreeCall
<1>4. CASE (\E r \in Runs : TimePasses(r)) \/ Sweep
  BY <1>4 DEF TimePasses, Sweep, FreeCall
<1> QED BY <1>1, <1>2, <1>3, <1>4

(* Only a task's own statements claim, start, pause or complete a run.     *)
LEMMA Sources ==
  ASSUME [Next]_vars
  PROVE  FreeCall \/ \E w \in Workers, r \in Runs : Write(w, r)
<1>1. CASE Next
  BY <1>1, CallsAreFree, TasksWrite, OthersAreFree DEF Next
<1>2. CASE UNCHANGED vars
  BY <1>2 DEF vars, repoVars, FreeCall
<1> QED BY <1>1, <1>2

LEMMA StepsAreRepoSteps ==
  ASSUME Inv, [Next]_vars
  PROVE  [RepoNext]_repoVars
BY Sources, FreeCallsAllowed, WriteCalls

---------------------------------------------------------------------------
(* What a step may make of a task.                                         *)

(* A task comes from a submission, its token from ClaimToken; it announces  *)
(* an answer it has committed, and is killed for a reason.                 *)
Follows(w, r, new) ==
  /\ new \in Task
  /\ new.pc # "none" => Managed(w, r) \/ <<w, r>> \in pending
  /\ new.pc \in Tokened =>
       \/ task[w][r].pc \in Tokened /\ new.token = task[w][r].token
       \/ ClaimToken(w, r)
  /\ new.pc = "announcing" =>
       task[w][r].pc = "announcing" \/ run'[r].status = "completed"
  /\ new.kill =>
       \/ task[w][r].kill
       \/ <<w, r>> \in notices
       \/ run[r].status = "cancel_requested"
       \/ api'[w] # "up"

TasksFollow ==
  /\ task' \in [Workers -> [Runs -> Task]]
  /\ \A w \in Workers, r \in Runs : Follows(w, r, task'[w][r])

LEMMA NoTaskType == NoTask \in Task
BY DEF NoTask, Task, PC

LEMMA StillFollows ==
  ASSUME Inv, NEW w \in Workers, NEW r \in Runs, task'[w][r] = task[w][r]
  PROVE  Follows(w, r, task'[w][r])
BY DEF Inv, ChatTypeOK, Follows, Managed

LEMMA UnchangedFollow ==
  ASSUME Inv, UNCHANGED task
  PROVE  TasksFollow
BY StillFollows DEF TasksFollow, Inv, ChatTypeOK

LEMMA OneTaskFollows ==
  ASSUME Inv, NEW w \in Workers, NEW r \in Runs, NEW new,
         task' = [task EXCEPT ![w][r] = new],
         Follows(w, r, new)
  PROVE  TasksFollow
<1>1. task \in [Workers -> [Runs -> Task]] BY DEF Inv, ChatTypeOK
<1>2. new \in Task BY DEF Follows
<1>3. task' \in [Workers -> [Runs -> Task]] /\ task'[w][r] = new
  BY <1>1, <1>2
<1>4. ASSUME NEW v \in Workers, NEW o \in Runs PROVE Follows(v, o, task'[v][o])
  <2>1. CASE v = w /\ o = r BY <2>1, <1>3
  <2>2. CASE ~(v = w /\ o = r)
    <3>1. task'[v][o] = task[v][o] BY <1>1, <2>2
    <3> QED BY <3>1, StillFollows
  <2> QED BY <2>1, <2>2
<1> QED BY <1>3, <1>4 DEF TasksFollow

(* The task moves on with its token, leaves its try block, or ends.        *)
LEMMA GotoFollows ==
  ASSUME Inv, NEW w \in Workers, NEW r \in Runs, NEW pc \in PC, Goto(w, r, pc),
         Managed(w, r), pc \in Tokened => task[w][r].pc \in Tokened,
         pc = "announcing" => run'[r].status = "completed"
  PROVE  TasksFollow
<1> DEFINE new == [task[w][r] EXCEPT !.pc = pc]
<1>0. task[w][r] \in Task BY DEF Inv, ChatTypeOK
<1>1. task' = [task EXCEPT ![w][r] = new] BY DEF Goto
<1>2. Follows(w, r, new) BY <1>0 DEF Follows, Task
<1> QED BY <1>1, <1>2, OneTaskFollows

LEMMA LeaveFollows ==
  ASSUME Inv, NEW w \in Workers, NEW r \in Runs, NEW pc \in PC \ Tokened, Leave(w, r, pc),
         Managed(w, r)
  PROVE  TasksFollow
<1> DEFINE new == [NoTask EXCEPT !.pc = pc, !.heart = task[w][r].heart]
<1>0. task[w][r] \in Task BY DEF Inv, ChatTypeOK
<1>1. task' = [task EXCEPT ![w][r] = new] BY DEF Leave
<1>2. Follows(w, r, new) BY <1>0 DEF Follows, Task, NoTask, Tokened
<1> QED BY <1>1, <1>2, OneTaskFollows

LEMMA EndFollows ==
  ASSUME Inv, NEW w \in Workers, NEW r \in Runs, End(w, r)
  PROVE  TasksFollow
<1>1. Follows(w, r, NoTask) BY NoTaskType DEF Follows, NoTask, Tokened
<1> QED BY <1>1, OneTaskFollows DEF End

(* A flag of the task changes.                                             *)
LEMMA FlagFollows ==
  ASSUME Inv, NEW w \in Workers, NEW r \in Runs, NEW new \in Task,
         task' = [task EXCEPT ![w][r] = new],
         new.pc = task[w][r].pc, new.token = task[w][r].token,
         new.kill => \/ task[w][r].kill
                     \/ <<w, r>> \in notices
                     \/ run[r].status = "cancel_requested"
                     \/ api'[w] # "up"
  PROVE  TasksFollow
<1>1. Follows(w, r, new) BY DEF Follows, Managed
<1> QED BY <1>1, OneTaskFollows

LEMMA Claimed ==
  ASSUME Inv, NEW w \in Workers, NEW r \in Runs, ClaimToken(w, r)
  PROVE  /\ Managed(w, r)
         /\ run' = run
         /\ Home(r) \in Sessions
         /\ session[Home(r)].fence \in Nat
         /\ session'[Home(r)].fence = session[Home(r)].fence + 1
         /\ \A s \in Sessions : s # Home(r) => session'[s] = session[s]
<1>1. Managed(w, r) BY DEF Managed, ClaimToken, At
<1>2. Home(r) \in Sessions /\ session[Home(r)] \in SessionRow
  BY <1>1, HomeIsASession DEF Inv, ChatTypeOK, TaskInv
<1>3. /\ run' = run
      /\ session'[Home(r)].fence = session[Home(r)].fence + 1
      /\ \A s \in Sessions : s # Home(r) => session'[s] = session[s]
  BY <1>2 DEF ClaimToken, AllocateFencingToken, Inv, ChatTypeOK, RepoTypeOK
<1> QED BY <1>1, <1>2, <1>3 DEF SessionRow

LEMMA ClaimFollows ==
  ASSUME Inv, NEW w \in Workers, NEW r \in Runs, ClaimToken(w, r)
  PROVE  TasksFollow
<1> DEFINE new == [task[w][r] EXCEPT !.pc = "marking", !.token = session'[Home(r)].fence]
<1>0. task[w][r] \in Task BY DEF Inv, ChatTypeOK
<1>1. Managed(w, r) /\ session'[Home(r)].fence \in Nat BY Claimed
<1>2. task' = [task EXCEPT ![w][r] = new] BY DEF ClaimToken
<1>3. Follows(w, r, new) BY <1>0, <1>1 DEF Follows, Task, PC
<1> QED BY <1>2, <1>3, OneTaskFollows

LEMMA TaskStepFollows ==
  ASSUME Inv, NEW w \in Workers, NEW r \in Runs, TaskStep(w, r)
  PROVE  TasksFollow
<1>0. task \in [Workers -> [Runs -> Task]] /\ task[w][r] \in Task BY DEF Inv, ChatTypeOK
<1>1. CASE StartTask(w, r) \/ AcquireLock(w, r)
  BY <1>1, GotoFollows DEF StartTask, AcquireLock, At, Managed, PC, Tokened
<1>2. CASE LockFails(w, r) \/ Close(w, r) \/ CancelOutside(w, r)
  BY <1>2, EndFollows DEF LockFails, Close, CancelOutside
<1>3. CASE ClaimToken(w, r)
  BY <1>3, ClaimFollows
<1>4. CASE BecomeRunning(w, r)
  <2> DEFINE new == [task[w][r] EXCEPT !.pc = "loading", !.heart = TRUE]
  <2>1. task' = [task EXCEPT ![w][r] = new] BY <1>4 DEF BecomeRunning
  <2>2. Follows(w, r, new)
    BY <1>0, <1>4 DEF BecomeRunning, At, Follows, Managed, Task, PC, Tokened
  <2> QED BY <2>1, <2>2, OneTaskFollows
<1>5. CASE LoadHistory(w, r)
  <2> DEFINE new == [task[w][r] EXCEPT !.pc = "graph", !.seen = session[Home(r)].next]
  <2>1. task' = [task EXCEPT ![w][r] = new] BY <1>5 DEF LoadHistory
  <2>2. Managed(w, r) /\ task[w][r].pc = "loading" BY <1>5 DEF LoadHistory, At, Managed
  <2>3. session[Home(r)].next \in Nat
    BY <2>2, HomeIsASession DEF Inv, ChatTypeOK, TaskInv, SessionRow
  <2>4. Follows(w, r, new)
    BY <1>0, <2>2, <2>3 DEF Follows, Task, PC, Tokened
  <2> QED BY <2>1, <2>4, OneTaskFollows
<1>6. CASE RunGraph(w, r)
  <2>1. task[w][r].pc = "graph" /\ Managed(w, r) BY <1>6 DEF RunGraph, At, Managed
  <2>2. \/ Goto(w, r, "committing")
        \/ Leave(w, r, "failing")
        \/ Goto(w, r, "pausing")
    BY <1>6 DEF RunGraph
  <2> QED BY <2>1, <2>2, GotoFollows, LeaveFollows DEF PC, Tokened
<1>7. CASE Commit(w, r) \/ Pause(w, r)
  <2>1. Commit(w, r) => run'[r].status = "completed"
    BY DEF Commit, CompleteWithTurn, SetRow, Inv, ChatTypeOK, RepoTypeOK, Row
  <2> QED BY <1>7, <2>1, GotoFollows DEF Commit, Pause, At, Managed, PC, Tokened
<1>8. CASE Announce(w, r) \/ AnnouncePause(w, r) \/ Fail(w, r) \/ FinishCancel(w, r)
           \/ FinishInterrupt(w, r)
  <2>1. Leave(w, r, "closing") /\ Managed(w, r)
    BY <1>8 DEF Announce, AnnouncePause, Fail, FinishCancel, FinishInterrupt, At, Managed
  <2> QED BY <2>1, LeaveFollows DEF PC, Tokened
<1>9. CASE Refused(w, r) \/ CallFails(w, r)
  <2>1. Leave(w, r, ErrorTarget(task[w][r].pc)) /\ Managed(w, r)
    BY <1>9 DEF Refused, Refuses, CallFails, Managed, Awaiting
  <2>2. ErrorTarget(task[w][r].pc) \in PC \ Tokened BY DEF ErrorTarget, PC, Tokened
  <2> QED BY <2>1, <2>2, LeaveFollows
<1>10. CASE CancelAtAwait(w, r)
  <2>1. Leave(w, r, CancelTarget(task[w][r].pc)) /\ Managed(w, r)
    BY <1>10 DEF CancelAtAwait, Managed, Awaiting
  <2>2. CancelTarget(task[w][r].pc) \in PC \ Tokened BY DEF CancelTarget, PC, Tokened
  <2> QED BY <2>1, <2>2, LeaveFollows
<1> QED BY <1>1, <1>2, <1>3, <1>4, <1>5, <1>6, <1>7, <1>8, <1>9, <1>10 DEF TaskStep

LEMMA StepFollows ==
  ASSUME Inv, [Next]_vars
  PROVE  TasksFollow
<1>0. task \in [Workers -> [Runs -> Task]] BY DEF Inv, ChatTypeOK
<1>1. ASSUME NEW w \in Workers, NEW r \in Runs, CallStep(w, r)
      PROVE  TasksFollow
  <2>1. CASE Dispatch(w, r) /\ ~UNCHANGED task
    <3> DEFINE new == [NoTask EXCEPT !.pc = "waiting"]
    <3>1. task' = [task EXCEPT ![w][r] = new] BY <2>1 DEF Dispatch
    <3>2. Follows(w, r, new)
      BY <2>1 DEF Dispatch, Follows, NoTask, Task, PC, Tokened
    <3> QED BY <3>1, <3>2, OneTaskFollows
  <2>2. CASE DeliverNotice(w, r)
    <3> DEFINE new == [task[w][r] EXCEPT !.kill = Managed(w, r)]
    <3>1. task' = [task EXCEPT ![w][r] = new] BY <2>2 DEF DeliverNotice
    <3>2. Managed(w, r) \in BOOLEAN BY DEF Managed
    <3>3. new \in Task BY <1>0, <3>2 DEF Task
    <3>4. new.pc = task[w][r].pc /\ new.token = task[w][r].token BY <1>0 DEF Task
    <3>5. <<w, r>> \in notices BY <2>2 DEF DeliverNotice
    <3> HIDE DEF new
    <3> QED BY <3>1, <3>3, <3>4, <3>5, FlagFollows
  <2>3. CASE UNCHANGED task BY <2>3, UnchangedFollow
  <2> QED BY <1>1, <2>1, <2>2, <2>3
      DEF CallStep, CreateRunCall, ResumeRunCall, CancelRunCall, Dispatch, LoseNotice
<1>2. ASSUME NEW w \in Workers, NEW r \in Runs, Heartbeat(w, r)
      PROVE  TasksFollow
  <2>1. CASE UNCHANGED task BY <2>1, UnchangedFollow
  <2>2. CASE ~UNCHANGED task
    <3> DEFINE killed == [task[w][r] EXCEPT !.kill = TRUE, !.heart = FALSE]
               silent == [task[w][r] EXCEPT !.heart = FALSE]
    <3>0. task[w][r] \in Task BY <1>0
    <3>1. \/ /\ task' = [task EXCEPT ![w][r] = killed]
             /\ run[r].status = "cancel_requested"
          \/ task' = [task EXCEPT ![w][r] = silent]
      BY <1>0, <1>2, <2>2 DEF Heartbeat
    <3>2. killed \in Task /\ silent \in Task
      BY <3>0 DEF Task
    <3>3. /\ killed.pc = task[w][r].pc /\ killed.token = task[w][r].token
          /\ silent.pc = task[w][r].pc /\ silent.token = task[w][r].token
          /\ silent.kill => task[w][r].kill
      BY <3>0 DEF Task
    <3> HIDE DEF killed, silent
    <3>4. CASE task' = [task EXCEPT ![w][r] = killed] /\ run[r].status = "cancel_requested"
      BY <3>2, <3>3, <3>4, FlagFollows
    <3>5. CASE task' = [task EXCEPT ![w][r] = silent]
      BY <3>2, <3>3, <3>5, FlagFollows
    <3> QED BY <3>1, <3>4, <3>5
  <2> QED BY <2>1, <2>2
<1>3. ASSUME NEW w \in Workers, StopStep(w)
      PROVE  TasksFollow
  <2>1. CASE UNCHANGED task BY <2>1, UnchangedFollow
  <2>2. CASE Crash(w)
    <3>1. task' = [task EXCEPT ![w] = [r \in Runs |-> NoTask]] BY <2>2 DEF Crash
    <3>2. task' \in [Workers -> [Runs -> Task]] BY <1>0, <3>1, NoTaskType
    <3>3. ASSUME NEW v \in Workers, NEW o \in Runs PROVE Follows(v, o, task'[v][o])
      <4>1. CASE v = w
        <5>1. task'[v][o] = NoTask BY <1>0, <3>1, <4>1
        <5> QED BY <5>1, NoTaskType DEF Follows, NoTask, Tokened
      <4>2. CASE v # w
        <5>1. task'[v][o] = task[v][o] BY <1>0, <3>1, <4>2
        <5> QED BY <5>1, StillFollows
      <4> QED BY <4>1, <4>2
    <3> QED BY <3>2, <3>3 DEF TasksFollow
  <2>3. CASE BeginShutdown(w)
    <3>1. task' = [task EXCEPT ![w] = [r \in Runs |->
                     [task[w][r] EXCEPT !.kill = Managed(w, r)]]]
      BY <2>3 DEF BeginShutdown
    <3>2. \A r \in Runs : Managed(w, r) \in BOOLEAN BY DEF Managed
    <3>3. \A r \in Runs : [task[w][r] EXCEPT !.kill = Managed(w, r)] \in Task
      <4> TAKE r \in Runs
      <4>1. PICK t \in Task : t = task[w][r] BY <1>0
      <4>2. PICK b \in BOOLEAN : b = Managed(w, r) BY <3>2
      <4>3. [t EXCEPT !.kill = b] \in Task BY DEF Task
      <4> QED BY <4>1, <4>2, <4>3
    <3>4. task' \in [Workers -> [Runs -> Task]] BY <1>0, <3>1, <3>3
    <3>5. ASSUME NEW v \in Workers, NEW o \in Runs PROVE Follows(v, o, task'[v][o])
      <4>1. CASE v = w
        <5>1. task'[v][o] = [task[w][o] EXCEPT !.kill = Managed(w, o)]
          BY <1>0, <3>1, <4>1
        <5>2. task'[v][o].pc = task[v][o].pc /\ task'[v][o].token = task[v][o].token
          BY <1>0, <4>1, <5>1 DEF Task
        <5>3. task'[v][o] \in Task BY <3>4
        <5>4. api'[v] # "up"
          BY <2>3, <4>1 DEF BeginShutdown, Inv, ChatTypeOK
        <5> QED BY <5>2, <5>3, <5>4 DEF Follows, Managed
      <4>2. CASE v # w
        <5>1. task'[v][o] = task[v][o] BY <1>0, <3>1, <4>2
        <5> QED BY <5>1, StillFollows
      <4> QED BY <4>1, <4>2
    <3> QED BY <3>4, <3>5 DEF TasksFollow
  <2> QED BY <1>3, <2>1, <2>2, <2>3
      DEF StopStep, SweeperDies, EndShutdown, ShutdownMark
<1>4. CASE (\E s \in Sessions : SessionStep(s)) \/ (\E r \in Runs : TimePasses(r)) \/ Sweep
  <2>1. UNCHANGED task
    BY <1>4 DEF SessionStep, DeleteSessionCall, LeaseExpires, TimePasses, Sweep, procVars
  <2> QED BY <2>1, UnchangedFollow
<1>5. CASE UNCHANGED vars
  BY <1>5, UnchangedFollow DEF vars
<1> QED BY <1>1, <1>2, <1>3, <1>4, <1>5, TaskStepFollows DEF Next

---------------------------------------------------------------------------
(* The invariant, and the refinement it gives.                             *)

(* A call that will submit a task has just written the run's row.          *)
LEMMA PendingFollow ==
  ASSUME Inv, [Next]_vars, NEW w \in Workers, NEW r \in Runs, <<w, r>> \in pending'
  PROVE  <<w, r>> \in pending \/ run'[r].status = "queued"
<1>0. run \in [Runs -> Row] BY DEF Inv, ChatTypeOK, RepoTypeOK
<1>1. ASSUME NEW v \in Workers, NEW o \in Runs, CallStep(v, o)
      PROVE  <<w, r>> \in pending \/ run'[r].status = "queued"
  <2>1. CASE pending' = pending \union {<<v, o>>} /\ run'[o].status = "queued"
    BY <2>1
  <2>2. CASE pending' \subseteq pending
    BY <2>2
  <2>3. ASSUME NEW s \in Sessions, NEW q \in Requests, CreateRunCall(v, o, s, q)
        PROVE  pending' = pending \union {<<v, o>>} /\ run'[o].status = "queued"
    BY <1>0, <2>3 DEF CreateRunCall, CreateRun, SetRow, NewRow
  <2>4. ASSUME ResumeRunCall(v, o)
        PROVE  pending' = pending \union {<<v, o>>} /\ run'[o].status = "queued"
    BY <1>0, <2>4 DEF ResumeRunCall, ResumeCheckpoint, SetRow, Row
  <2>5. ASSUME CancelRunCall(v, o) \/ Dispatch(v, o) \/ DeliverNotice(v, o) \/ LoseNotice(v, o)
        PROVE  pending' \subseteq pending
    BY <2>5 DEF CancelRunCall, Dispatch, DeliverNotice, LoseNotice
  <2> QED BY <1>1, <2>1, <2>2, <2>3, <2>4, <2>5 DEF CallStep
<1>2. ASSUME NEW v \in Workers, NEW o \in Runs, TaskStep(v, o) \/ Heartbeat(v, o)
      PROVE  pending' = pending
  BY <1>2 DEF TaskStep, StartTask, AcquireLock, LockFails, ClaimToken, BecomeRunning,
       LoadHistory, RunGraph, Commit, Announce, Pause, AnnouncePause, Fail, FinishCancel,
       FinishInterrupt, Close, Refused, CallFails, CancelAtAwait, CancelOutside, Heartbeat
<1>3. ASSUME NEW v \in Workers, StopStep(v)
      PROVE  pending' \subseteq pending
  BY <1>3 DEF StopStep, SweeperDies, Crash, BeginShutdown, EndShutdown, ShutdownMark
<1>4. CASE (\E s \in Sessions : SessionStep(s)) \/ (\E o \in Runs : TimePasses(o)) \/ Sweep
           \/ UNCHANGED vars
  BY <1>4 DEF SessionStep, DeleteSessionCall, LeaseExpires, TimePasses, Sweep, procVars, vars
<1> QED BY <1>1, <1>2, <1>3, <1>4 DEF Next

(* The variables that are neither tables nor tasks.                        *)
RestTypeOK ==
  /\ api \in [Workers -> {"up", "draining", "down"}]
  /\ sweepers \in SUBSET Workers
  /\ pending \in SUBSET (Workers \X Runs)
  /\ notices \in SUBSET (Workers \X Runs)
  /\ drain \in [Workers -> SUBSET Runs]
  /\ lease \in [Sessions -> Holder]
  /\ said \in [Runs -> Terminal \union {"none", "running", "waiting_input"}]
  /\ pauses \in Nat
  /\ cancels \in Nat
  /\ faults \in Nat

LEMMA RestType ==
  ASSUME Inv, [Next]_vars
  PROVE  RestTypeOK'
<1>0. RestTypeOK BY DEF Inv, ChatTypeOK, RestTypeOK
<1> USE DEF RestTypeOK
<1>1. ASSUME NEW w \in Workers, NEW r \in Runs, CallStep(w, r)
      PROVE  RestTypeOK'
  <2>1. CancelTargets(w, r) \subseteq Workers
    <3>1. run[r].worker \in Workers \union {Nil} BY DEF Inv, ChatTypeOK, RepoTypeOK, Row
    <3> QED BY <3>1 DEF CancelTargets
  <2> QED BY <1>0, <1>1, <2>1
      DEF CallStep, CreateRunCall, ResumeRunCall, CancelRunCall, Dispatch, DeliverNotice, LoseNotice
<1>2. ASSUME NEW w \in Workers, NEW r \in Runs, TaskStep(w, r)
      PROVE  RestTypeOK'
  <2>1. <<w, r>> \in Holder /\ <<Nil, r>> \in Holder /\ Free \in Holder BY DEF Holder, Free
  <2>2. CASE StartTask(w, r) \/ LockFails(w, r) \/ ClaimToken(w, r) \/ BecomeRunning(w, r)
             \/ RunGraph(w, r) \/ Commit(w, r) \/ Pause(w, r) \/ Refused(w, r)
             \/ CancelAtAwait(w, r)
    BY <1>0, <2>2 DEF StartTask, LockFails, ClaimToken, BecomeRunning, RunGraph, Commit, Pause,
                      Refused, CancelAtAwait
  <2>3. CASE LoadHistory(w, r) \/ Announce(w, r) \/ AnnouncePause(w, r) \/ Fail(w, r)
             \/ FinishCancel(w, r) \/ FinishInterrupt(w, r)
    BY <1>0, <2>3 DEF LoadHistory, Announce, AnnouncePause, Fail, FinishCancel, FinishInterrupt,
                      Say, Terminal
  <2>4. CASE AcquireLock(w, r)
    BY <1>0, <2>1, <2>4 DEF AcquireLock
  <2>5. CASE Close(w, r) \/ CancelOutside(w, r)
    <3>1. lease' \in [Sessions -> Holder]
      <4>1. Home(r) \in Sessions => Released(w, r) \in Holder
        BY <1>0, <2>1 DEF Released
      <4>2. ASSUME NEW h, lease' = [lease EXCEPT ![Home(r)] = h],
                   Home(r) \in Sessions => h \in Holder
            PROVE  lease' \in [Sessions -> Holder]
        BY <1>0, <4>2
      <4>3. CASE lease' = [lease EXCEPT ![Home(r)] = Released(w, r)]
        BY <4>1, <4>2, <4>3
      <4>4. CASE lease' = [lease EXCEPT ![Home(r)] =
                 CASE task[w][r].pc = "locking" /\ @ = Free     -> <<Nil, r>>
                   [] task[w][r].pc = "closing" /\ @ = <<w, r>> -> <<Nil, r>>
                   [] OTHER                                     -> @]
        <5> DEFINE h == CASE task[w][r].pc = "locking" /\ lease[Home(r)] = Free     -> <<Nil, r>>
                          [] task[w][r].pc = "closing" /\ lease[Home(r)] = <<w, r>> -> <<Nil, r>>
                          [] OTHER                                     -> lease[Home(r)]
        <5>1. Home(r) \in Sessions => h \in Holder
          BY <1>0, <2>1
        <5>2. lease' = [lease EXCEPT ![Home(r)] = h] BY <4>4
        <5> HIDE DEF h
        <5> QED BY <4>2, <5>1, <5>2
      <4> QED BY <2>5, <4>3, <4>4 DEF Close, CancelOutside
    <3> QED BY <1>0, <2>5, <3>1 DEF Close, CancelOutside
  <2>6. CASE CallFails(w, r)
    <3>1. said' \in [Runs -> Terminal \union {"none", "running", "waiting_input"}]
      BY <1>0, <2>6 DEF CallFails, Say, Terminal
    <3> QED BY <1>0, <2>6, <3>1 DEF CallFails, Fault
  <2> QED BY <1>2, <2>2, <2>3, <2>4, <2>5, <2>6 DEF TaskStep
<1>3. ASSUME NEW w \in Workers, NEW r \in Runs, Heartbeat(w, r)
      PROVE  RestTypeOK'
  BY <1>0, <1>3 DEF Heartbeat, Fault
<1>4. ASSUME NEW w \in Workers, StopStep(w)
      PROVE  RestTypeOK'
  <2>1. CASE SweeperDies(w) BY <1>0, <2>1 DEF SweeperDies, Fault
  <2>2. CASE Crash(w) BY <1>0, <2>2 DEF Crash
  <2>3. CASE BeginShutdown(w) BY <1>0, <2>3 DEF BeginShutdown
  <2>4. CASE EndShutdown(w) BY <1>0, <2>4 DEF EndShutdown
  <2>5. ASSUME NEW r \in Runs, ShutdownMark(w, r) PROVE RestTypeOK'
    BY <1>0, <2>5 DEF ShutdownMark, Fault
  <2> QED BY <1>4, <2>1, <2>2, <2>3, <2>4, <2>5 DEF StopStep
<1>5. ASSUME NEW s \in Sessions, SessionStep(s)
      PROVE  RestTypeOK'
  BY <1>0, <1>5 DEF SessionStep, DeleteSessionCall, LeaseExpires, Fault, Free, Holder, procVars
<1>6. CASE (\E r \in Runs : TimePasses(r)) \/ Sweep \/ UNCHANGED vars
  BY <1>0, <1>6 DEF TimePasses, Sweep, procVars, vars
<1> QED BY <1>1, <1>2, <1>3, <1>4, <1>5, <1>6 DEF Next

LEMMA InvStep ==
  ASSUME Inv, [Next]_vars
  PROVE  Inv'
<1>1. RepoTypeOK /\ [RepoNext]_repoVars
  BY StepsAreRepoSteps DEF Inv, ChatTypeOK
<1>2. TasksFollow BY StepFollows
<1>3. ChatTypeOK'
  BY <1>1, <1>2, StepType, RestType DEF ChatTypeOK, RestTypeOK, TasksFollow
<1>4. ASSUME NEW w \in Workers, NEW r \in Runs,
             task'[w][r].pc # "none" \/ <<w, r>> \in pending'
      PROVE  run'[r].status # "absent"
  <2>1. CASE run[r].status # "absent" BY <1>1, <2>1, RowsStay
  <2>2. CASE run[r].status = "absent"
    <3>1. ~Managed(w, r) /\ <<w, r>> \notin pending BY <2>2 DEF Inv, TaskInv
    <3>2. task'[w][r].pc = "none" BY <1>2, <3>1 DEF TasksFollow, Follows
    <3> QED BY <1>4, <3>1, <3>2, PendingFollow
  <2> QED BY <2>1, <2>2
<1>5. ASSUME NEW w \in Workers, NEW r \in Runs, task'[w][r].pc \in Tokened
      PROVE  task'[w][r].token \in 1..session'[Home(r)'].fence
  <2>1. Follows(w, r, task'[w][r]) BY <1>2 DEF TasksFollow
  <2>2. CASE ClaimToken(w, r)
    <3>1. task'[w][r].token = session'[Home(r)].fence
      BY <2>2 DEF ClaimToken, Inv, ChatTypeOK
    <3> QED BY <2>2, <3>1, Claimed DEF Home
  <2>3. CASE task[w][r].pc \in Tokened /\ task'[w][r].token = task[w][r].token
    <3>1. run[r].status # "absent" BY <2>3 DEF Inv, TaskInv, Managed, Tokened
    <3>2. task[w][r].token \in 1..session[Home(r)].fence BY <2>3 DEF Inv, TaskInv
    <3>3. Home(r)' = Home(r) /\ session'[Home(r)].fence >= session[Home(r)].fence
      BY <1>1, <3>1, RowsStay DEF Home
    <3>4. Home(r) \in Sessions BY <1>1, <3>1, HomeIsASession
    <3>5. session[Home(r)].fence \in Nat /\ session'[Home(r)].fence \in Nat
      BY <1>3, <3>4 DEF Inv, ChatTypeOK, RepoTypeOK, SessionRow
    <3> QED BY <2>3, <3>2, <3>3, <3>5
  <2> QED BY <1>5, <2>1, <2>2, <2>3 DEF Follows
<1>6. TaskInv' BY <1>4, <1>5 DEF TaskInv, Managed
<1> QED BY <1>3, <1>6 DEF Inv

LEMMA InvInit == Init => Inv
<1> SUFFICES ASSUME Init PROVE Inv OBVIOUS
<1>1. RepoTypeOK BY InitType DEF Init
<1>2. task \in [Workers -> [Runs -> Task]] BY NoTaskType DEF Init
<1>3. RestTypeOK BY DEF Init, RestTypeOK, Holder, Free, Terminal
<1>4. \A w \in Workers, r \in Runs : task[w][r].pc = "none" BY DEF Init, NoTask
<1>5. TaskInv BY <1>4 DEF Init, TaskInv, Managed, Tokened
<1> QED BY <1>1, <1>2, <1>3, <1>5 DEF Inv, ChatTypeOK, RestTypeOK

LEMMA InvHolds == Spec => []Inv
BY InvInit, InvStep, PTL DEF Spec

(* Every variable of the composed system keeps its type: no error path      *)
(* leaves a task in a state the executor does not know.                    *)
THEOREM ChatTypesHold == Spec => []ChatTypeOK
<1>1. Inv => ChatTypeOK BY DEF Inv
<1> QED BY <1>1, InvHolds, PTL

(* However executions, calls, heartbeats, sweeps and stopping processes     *)
(* interleave, and whichever await fails, the tables see only transactions *)
(* RepoSpec allows, with tokens their sessions have allocated.             *)
THEOREM RepositoryImplemented == Spec => ImplementsRepository
<1>1. Init => RepoInit BY DEF Init
<1>2. Inv /\ [Next]_vars => [RepoNext]_repoVars BY StepsAreRepoSteps
<1> QED BY <1>1, <1>2, InvHolds, PTL DEF Spec, RepoSpec, ImplementsRepository

(* So a session of the composed system never has two active runs, ...       *)
THEOREM OneActiveRunInSystem == Spec => []OneActiveRun
BY RepositoryImplemented, OneActiveRunHolds, PTL DEF ImplementsRepository

(* ... and a run is completed exactly when the dialogue holds its turn.     *)
THEOREM CompletedIffAnsweredInSystem == Spec => []CompletedIffAnswered
BY RepositoryImplemented, CompletedIffAnsweredHolds, PTL DEF ImplementsRepository

---------------------------------------------------------------------------
(* Events and cancellations.                                               *)

(* What an announced answer, and what a killed task, may count on.         *)
Answered == {"completed", "deleted"}
Asked    == Terminal \union {"cancel_requested", "deleted"}

LEMMA StatusesLast ==
  ASSUME Inv, [Next]_vars, NEW r \in Runs
  PROVE  /\ run[r].status \in Answered => run'[r].status \in Answered
         /\ run[r].status \in Asked => run'[r].status \in Asked
<1>1. RepoTypeOK /\ [RepoNext]_repoVars BY StepsAreRepoSteps DEF Inv, ChatTypeOK
<1>2. CASE RepoNext
  BY <1>1, <1>2, RowSteps, DeletedStays DEF Answered, Asked, Terminal
<1>3. CASE UNCHANGED repoVars BY <1>3 DEF repoVars
<1> QED BY <1>1, <1>2, <1>3

(* Only a task at its announcement says "completed".                       *)
LEMMA OnlyAnnounceSays ==
  ASSUME Inv, [Next]_vars, NEW r \in Runs, said'[r] = "completed"
  PROVE  \/ said[r] = "completed"
         \/ \E w \in Workers : task[w][r].pc = "announcing"
<1>0. said \in [Runs -> Terminal \union {"none", "running", "waiting_input"}]
  BY DEF Inv, ChatTypeOK
<1>1. ASSUME NEW w \in Workers, NEW o \in Runs, TaskStep(w, o)
      PROVE  \/ said'[r] = said[r]
             \/ said'[r] # "completed"
             \/ o = r /\ task[w][r].pc = "announcing"
  <2>1. CASE UNCHANGED said BY <2>1
  <2>2. ASSUME NEW status, Say(o, status), status # "completed"
        PROVE  said'[r] = said[r] \/ said'[r] # "completed"
    BY <1>0, <2>2 DEF Say
  <2>3. CASE Announce(w, o)
    BY <1>0, <2>3 DEF Announce, Say, At
  <2>4. CASE LoadHistory(w, o) BY <2>2, <2>4 DEF LoadHistory
  <2>5. CASE AnnouncePause(w, o) BY <2>2, <2>5 DEF AnnouncePause
  <2>6. CASE Fail(w, o) BY <2>1, <2>2, <2>6 DEF Fail
  <2>7. CASE FinishCancel(w, o) BY <2>1, <2>2, <2>7 DEF FinishCancel
  <2>8. CASE FinishInterrupt(w, o) BY <2>1, <2>2, <2>8 DEF FinishInterrupt
  <2>9. CASE CallFails(w, o)
    <3>1. UNCHANGED said \/ Say(o, "failed") \/ Say(o, "interrupted")
      BY <2>9 DEF CallFails
    <3> QED BY <2>1, <2>2, <3>1
  <2> QED BY <1>1, <2>1, <2>3, <2>4, <2>5, <2>6, <2>7, <2>8, <2>9
      DEF TaskStep, StartTask, AcquireLock, LockFails, ClaimToken, BecomeRunning, RunGraph,
          Commit, Pause, Close, Refused, CancelAtAwait, CancelOutside
<1>2. ASSUME NEW w \in Workers, NEW o \in Runs, CallStep(w, o) \/ Heartbeat(w, o)
      PROVE  said' = said
  BY <1>2 DEF CallStep, CreateRunCall, ResumeRunCall, CancelRunCall, Dispatch, DeliverNotice,
              LoseNotice, Heartbeat
<1>3. ASSUME NEW w \in Workers, StopStep(w)
      PROVE  said' = said
  BY <1>3 DEF StopStep, SweeperDies, Crash, BeginShutdown, EndShutdown, ShutdownMark
<1>4. CASE (\E s \in Sessions : SessionStep(s)) \/ (\E o \in Runs : TimePasses(o)) \/ Sweep
           \/ UNCHANGED vars
  BY <1>4 DEF SessionStep, DeleteSessionCall, LeaseExpires, TimePasses, Sweep, procVars, vars
<1> QED BY <1>1, <1>2, <1>3, <1>4 DEF Next

AnnounceInv ==
  /\ AnnouncedIsDurable
  /\ \A w \in Workers, r \in Runs :
       task[w][r].pc = "announcing" => run[r].status \in Answered

(* A "completed" event stands for a stored turn, whatever happens between   *)
(* the commit and the event and whatever happens to the row afterwards.    *)
THEOREM AnnouncementsAreDurable == Spec => []AnnouncedIsDurable
<1>1. Init => AnnounceInv
  BY DEF Init, AnnounceInv, AnnouncedIsDurable, NoTask
<1>2. ASSUME Inv, AnnounceInv, [Next]_vars PROVE AnnounceInv'
  <2>1. ASSUME NEW r \in Runs, said'[r] = "completed"
        PROVE  run'[r].status \in Answered
    <3>1. run[r].status \in Answered
      BY <1>2, <2>1, OnlyAnnounceSays DEF AnnounceInv, AnnouncedIsDurable, Answered
    <3> QED BY <1>2, <3>1, StatusesLast
  <2>2. ASSUME NEW w \in Workers, NEW r \in Runs, task'[w][r].pc = "announcing"
        PROVE  run'[r].status \in Answered
    <3>1. task[w][r].pc = "announcing" \/ run'[r].status = "completed"
      BY <1>2, <2>2, StepFollows DEF TasksFollow, Follows
    <3> QED BY <1>2, <3>1, StatusesLast DEF AnnounceInv, Answered
  <2> QED BY <2>1, <2>2 DEF AnnounceInv, AnnouncedIsDurable, Answered
<1>3. AnnounceInv => AnnouncedIsDurable BY DEF AnnounceInv
<1> QED BY <1>1, <1>2, <1>3, InvHolds, PTL DEF Spec

(* A notice is sent for a run whose cancel is on record; a process that     *)
(* began to stop never comes back.                                         *)
LEMMA NoticesFollow ==
  ASSUME Inv, [Next]_vars, NEW w \in Workers, NEW r \in Runs
  PROVE  /\ <<w, r>> \in notices' => <<w, r>> \in notices \/ run'[r].status \in Asked
         /\ api'[w] = "up" => api[w] = "up"
<1>0. run \in [Runs -> Row] /\ api \in [Workers -> {"up", "draining", "down"}]
  BY DEF Inv, ChatTypeOK, RepoTypeOK
<1>1. ASSUME NEW v \in Workers, NEW o \in Runs, CallStep(v, o)
      PROVE  /\ <<w, r>> \in notices' => <<w, r>> \in notices \/ run'[r].status \in Asked
             /\ api' = api
  <2>1. ASSUME CancelRunCall(v, o)
        PROVE  /\ <<w, r>> \in notices' => <<w, r>> \in notices \/ o = r
               /\ run'[o].status \in Asked
    <3>1. run'[o].status \in {"cancelled", "cancel_requested"}
      <4>1. CASE RequestCancel(o) BY <1>0, <4>1 DEF RequestCancel, SetRow, Row
      <4>2. CASE run[o].status = "cancel_requested" /\ UNCHANGED repoVars
        BY <4>2 DEF repoVars
      <4> QED BY <2>1, <4>1, <4>2 DEF CancelRunCall
    <3>2. notices' = notices \union (CancelTargets(v, o) \X {o}) BY <2>1 DEF CancelRunCall
    <3>3. <<w, r>> \in notices' => <<w, r>> \in notices \/ o = r
      BY <3>2
    <3> QED BY <3>1, <3>3 DEF Asked, Terminal
  <2> QED BY <1>1, <2>1 DEF CallStep, CreateRunCall, ResumeRunCall, CancelRunCall, Dispatch,
              DeliverNotice, LoseNotice
<1>2. ASSUME NEW v \in Workers, NEW o \in Runs, TaskStep(v, o) \/ Heartbeat(v, o)
      PROVE  notices' = notices /\ api' = api
  BY <1>2 DEF TaskStep, StartTask, AcquireLock, LockFails, ClaimToken, BecomeRunning,
       LoadHistory, RunGraph, Commit, Announce, Pause, AnnouncePause, Fail, FinishCancel,
       FinishInterrupt, Close, Refused, CallFails, CancelAtAwait, CancelOutside, Heartbeat
<1>3. ASSUME NEW v \in Workers, StopStep(v)
      PROVE  notices' \subseteq notices /\ (api'[w] = "up" => api[w] = "up")
  BY <1>0, <1>3 DEF StopStep, SweeperDies, Crash, BeginShutdown, EndShutdown, ShutdownMark
<1>4. CASE (\E s \in Sessions : SessionStep(s)) \/ (\E o \in Runs : TimePasses(o)) \/ Sweep
           \/ UNCHANGED vars
  BY <1>4 DEF SessionStep, DeleteSessionCall, LeaseExpires, TimePasses, Sweep, procVars, vars
<1> QED BY <1>1, <1>2, <1>3, <1>4 DEF Next

KillInv ==
  /\ KilledOnlyIfAsked
  /\ \A w \in Workers, r \in Runs : <<w, r>> \in notices => run[r].status \in Asked

(* No task of a live process is cancelled for a run nobody cancelled,       *)
(* however late, duplicated or misdirected the notices are.                *)
THEOREM KillsAreAskedFor == Spec => []KilledOnlyIfAsked
<1>1. Init => KillInv
  BY DEF Init, KillInv, KilledOnlyIfAsked, NoTask
<1>2. ASSUME Inv, KillInv, [Next]_vars PROVE KillInv'
  <2>1. ASSUME NEW w \in Workers, NEW r \in Runs, api'[w] = "up", task'[w][r].kill
        PROVE  run'[r].status \in Asked
    <3>1. api[w] = "up" BY <1>2, <2>1, NoticesFollow
    <3>2. \/ task[w][r].kill
          \/ <<w, r>> \in notices
          \/ run[r].status = "cancel_requested"
      BY <1>2, <2>1, StepFollows DEF TasksFollow, Follows
    <3>3. run[r].status \in Asked
      BY <1>2, <3>1, <3>2 DEF KillInv, KilledOnlyIfAsked, Asked
    <3> QED BY <1>2, <3>3, StatusesLast
  <2>2. ASSUME NEW w \in Workers, NEW r \in Runs, <<w, r>> \in notices'
        PROVE  run'[r].status \in Asked
    BY <1>2, <2>2, NoticesFollow, StatusesLast DEF KillInv
  <2> QED BY <2>1, <2>2 DEF KillInv, KilledOnlyIfAsked, Asked
<1>3. KillInv => KilledOnlyIfAsked BY DEF KillInv
<1> QED BY <1>1, <1>2, <1>3, InvHolds, PTL DEF Spec

---------------------------------------------------------------------------
(* Answers and tokens.                                                     *)

LEMMA MarkRow ==
  ASSUME RepoTypeOK, NEW o \in Runs, NEW w \in Workers \union {Nil},
         MarkCancelled(o, w) \/ MarkFailed(o, w) \/ MarkInterrupted(o, w)
  PROVE  /\ \A r \in Runs \ {o} : run'[r] = run[r]
         /\ run[o].status # "absent"
         /\ run'[o].status \in {"cancelled", "failed", "interrupted"}
         /\ run'[o].token = run[o].token
<1>0. run \in [Runs -> Row] /\ run[o] \in Row BY DEF RepoTypeOK
<1>1. PICK status \in {"cancelled", "failed", "interrupted"} :
        run' = [run EXCEPT ![o] = [run[o] EXCEPT !.status = status, !.heartbeat = "fresh",
                                                 !.checkpoint = FALSE]]
  BY DEF MarkCancelled, MarkFailed, MarkInterrupted, MarkTerminal, SetRow
<1>2. run[o].status # "absent"
  BY DEF MarkCancelled, MarkFailed, MarkInterrupted, MarkTerminal, MayMark, Recoverable
<1> QED BY <1>0, <1>1, <1>2 DEF Row

(* FreeCall statements complete nothing and hand out no token.                *)
LEMMA FreeRows ==
  ASSUME RepoTypeOK, FreeCall, NEW r \in Runs
  PROVE  /\ run'[r].status = "completed" => run[r].status = "completed"
         /\ run'[r].token = 0 \/ (run'[r].token = run[r].token /\ run[r].status # "absent")
            \/ run'[r].status = "absent"
<1>0. run \in [Runs -> Row] /\ run[r] \in Row BY DEF RepoTypeOK
<1> DEFINE Plain == \/ run'[r] = run[r]
                    \/ /\ run'[r].status \notin {"completed", "absent"}
                       /\ run[r].status # "absent" \/ run'[r].token = 0
                       /\ run'[r].token \in {0, run[r].token}
<1>1. CASE UNCHANGED repoVars BY <1>1 DEF repoVars
<1>2. CASE SessionNext
  <2>1. ASSUME NEW s \in Sessions, DeleteSession(s) PROVE Plain
    BY <1>0, <2>1 DEF DeleteSession, Exists, Active, Terminal, Row
  <2>2. ASSUME NEW s \in Sessions,
               \/ CreateSession(s) \/ AllocateFencingToken(s)
               \/ \E q \in Requests : AppendDialogueTurn(s, q)
        PROVE  run' = run
    BY <2>2 DEF CreateSession, AllocateFencingToken, AppendDialogueTurn
  <2> QED BY <1>2, <2>1, <2>2 DEF SessionNext
<1>3. CASE InterruptStaleRuns
  BY <1>0, <1>3 DEF InterruptStaleRuns, StaleRuns, Recoverable, Row
<1>4. ASSUME NEW o \in Runs, NEW s \in Sessions, NEW q \in Requests, CreateRun(o, s, q)
      PROVE  Plain
  BY <1>0, <1>4 DEF CreateRun, SetRow, NewRow
<1>5. ASSUME NEW o \in Runs, NEW w \in Workers, UpdateHeartbeat(o, w)
      PROVE  Plain
  BY <1>0, <1>5 DEF UpdateHeartbeat, SetRow, Leased, Row
<1>6. ASSUME NEW o \in Runs, ResumeCheckpoint(o)
      PROVE  Plain
  BY <1>0, <1>6 DEF ResumeCheckpoint, SetRow, Row
<1>9. ASSUME NEW o \in Runs, PassCutoff(o)
      PROVE  Plain
  <2>1. o # r => run'[r] = run[r] BY <1>0, <1>9 DEF PassCutoff, SetRow
  <2>2. run[o].status \in Recoverable BY <1>9 DEF PassCutoff
  <2>3. o = r => run'[r].status = run[r].status /\ run'[r].token = run[r].token
    BY <1>0, <1>9 DEF PassCutoff, SetRow, Row
  <2> QED BY <2>1, <2>2, <2>3 DEF Recoverable
<1>7. ASSUME NEW o \in Runs, RequestCancel(o)
      PROVE  Plain
  BY <1>0, <1>7 DEF RequestCancel, SetRow, Active, Row
<1>8. ASSUME NEW o \in Runs, NEW w \in Workers \union {Nil},
             MarkCancelled(o, w) \/ MarkFailed(o, w) \/ MarkInterrupted(o, w)
      PROVE  Plain
  BY <1>8, MarkRow
<1> QED BY <1>1, <1>2, <1>3, <1>4, <1>5, <1>6, <1>7, <1>8, <1>9 DEF FreeCall

(* A task's statement changes its own run: it gives the row the task's      *)
(* token, takes it back, or leaves it; it completes the run only when it   *)
(* commits what it has seen under the session's newest token.              *)
LEMMA WriteRows ==
  ASSUME Inv, NEW w \in Workers, NEW o \in Runs, Write(w, o)
  PROVE  /\ \A r \in Runs \ {o} : run'[r] = run[r]
         /\ run[o].status # "absent"
         /\ \/ run'[o].token \in {0, run[o].token}
            \/ task[w][o].pc \in Tokened /\ run'[o].token = task[w][o].token
         /\ run'[o].status = "completed" /\ run[o].status # "completed" =>
              /\ task[w][o].pc = "committing"
              /\ task[w][o].seen = session[Home(o)].next
              /\ task[w][o].seen = run'[o].result
              /\ task[w][o].token = session[Home(o)].fence
              /\ run'[o].token = task[w][o].token
              /\ run'[o].session = run[o].session
<1>0. run \in [Runs -> Row] /\ run[o] \in Row BY DEF Inv, ChatTypeOK, RepoTypeOK
<1>1. run[o].status # "absent" BY DEF Write, Inv, TaskInv, Managed
<1>2. CASE task[w][o].pc = "claiming"
  BY <1>0, <1>1, <1>2 DEF Write, AllocateFencingToken
<1>3. CASE task[w][o].pc = "marking"
  <2>1. MarkRunning(o, w, task[w][o].token) BY <1>3 DEF Write
  <2>2. \A r \in Runs \ {o} : run'[r] = run[r] BY <1>0, <2>1 DEF MarkRunning, SetRow
  <2>3. run'[o].status = "running" /\ run'[o].token = task[w][o].token
    BY <1>0, <2>1 DEF MarkRunning, SetRow, Row
  <2> QED BY <1>1, <1>3, <2>2, <2>3 DEF Tokened
<1>4. CASE task[w][o].pc = "committing"
  <2>1. CompleteWithTurn(o, w, task[w][o].token, task[w][o].seen) BY <1>4 DEF Write
  <2>2. \A r \in Runs \ {o} : run'[r] = run[r] BY <1>0, <2>1 DEF CompleteWithTurn, SetRow
  <2>3. /\ run'[o].token = run[o].token
        /\ run'[o].session = run[o].session
        /\ run'[o].result = session[Home(o)].next
    BY <1>0, <2>1 DEF CompleteWithTurn, SetRow, Row, Home
  <2>4. /\ run[o].token = task[w][o].token
        /\ session[Home(o)].fence = task[w][o].token
        /\ session[Home(o)].next = task[w][o].seen
    BY <2>1 DEF CompleteWithTurn, CompleteAccepts, Owns, Home
  <2> QED BY <1>1, <1>4, <2>2, <2>3, <2>4
<1>5. CASE task[w][o].pc = "pausing"
  <2>1. MarkWaitingInput(o, w, task[w][o].token) BY <1>5 DEF Write
  <2>2. \A r \in Runs \ {o} : run'[r] = run[r] BY <1>0, <2>1 DEF MarkWaitingInput, SetRow
  <2>3. run'[o].status = "waiting_input" /\ run'[o].token = 0
    BY <1>0, <2>1 DEF MarkWaitingInput, SetRow, Row
  <2> QED BY <1>1, <2>2, <2>3
<1>6. CASE task[w][o].pc \in {"failing", "cancelling", "interrupting"}
  <2>1. MarkCancelled(o, w) \/ MarkFailed(o, w) \/ MarkInterrupted(o, w) BY <1>6 DEF Write
  <2> QED BY <1>1, <2>1, MarkRow DEF Inv, ChatTypeOK
<1> QED BY <1>2, <1>3, <1>4, <1>5, <1>6 DEF Write

LEMMA Completes ==
  ASSUME Inv, [Next]_vars, NEW r \in Runs,
         run[r].status # "completed", run'[r].status = "completed"
  PROVE  /\ \A o \in Runs \ {r} : run'[o] = run[o]
         /\ run[r].status # "absent"
         /\ run'[r].session = run[r].session
         /\ run'[r].result = session[Home(r)].next
         /\ run'[r].token = session[Home(r)].fence
         /\ \E w \in Workers :
              /\ task[w][r].pc = "committing"
              /\ task[w][r].seen = run'[r].result
              /\ task[w][r].token = session[Home(r)].fence
<1>1. ~FreeCall BY FreeRows DEF Inv, ChatTypeOK
<1>2. PICK w \in Workers, o \in Runs : Write(w, o) BY <1>1, Sources
<1>3. o = r BY <1>2, WriteRows
<1> QED BY <1>2, <1>3, WriteRows

(* An answer extends exactly the dialogue its execution loaded, under the   *)
(* youngest token of the session.                                          *)
THEOREM AnswersMatchHistory == Spec => AnswersWhatItSaw
<1>1. ASSUME Inv, [Next]_vars
      PROVE  [\A r \in Runs :
                run[r].status # "completed" /\ run'[r].status = "completed" =>
                  \E w \in Workers :
                    /\ task[w][r].pc = "committing"
                    /\ task[w][r].seen = run'[r].result
                    /\ task[w][r].token = session[Home(r)].fence]_vars
  BY <1>1, Completes
<1> QED BY <1>1, InvHolds, PTL DEF Spec, AnswersWhatItSaw

(* r works, or its row was last worked on, with token t.                   *)
Bears(r, t) ==
  \/ \E w \in Workers : task[w][r].pc \in Tokened /\ task[w][r].token = t
  \/ run[r].status # "absent" /\ run[r].token = t /\ t # 0

TokenInv ==
  /\ \A r \in Runs, t \in Nat : Bears(r, t) => t <= session[Home(r)].fence
  /\ \A r, o \in Runs, t \in Nat :
       Bears(r, t) /\ Bears(o, t) /\ Home(r) = Home(o) => r = o
  /\ \A r \in Runs : run[r].status = "completed" => run[r].token # 0
  /\ TurnsFollowTokens

LEMMA BearsStep ==
  ASSUME Inv, [Next]_vars, NEW r \in Runs, NEW t \in Nat, Bears(r, t)'
  PROVE  /\ run[r].status # "absent"
         /\ \/ Bears(r, t)
            \/ (\E w \in Workers : ClaimToken(w, r)) /\ t = session[Home(r)].fence + 1
<1>1. ASSUME NEW w \in Workers, task'[w][r].pc \in Tokened, task'[w][r].token = t
      PROVE  /\ run[r].status # "absent"
             /\ \/ Bears(r, t)
                \/ (\E v \in Workers : ClaimToken(v, r)) /\ t = session[Home(r)].fence + 1
  <2>1. Follows(w, r, task'[w][r]) BY StepFollows DEF TasksFollow
  <2>2. CASE task[w][r].pc \in Tokened /\ task'[w][r].token = task[w][r].token
    BY <1>1, <2>2 DEF Bears, Inv, TaskInv, Managed, Tokened
  <2>3. CASE ClaimToken(w, r)
    <3>1. task'[w][r].token = session'[Home(r)].fence
      BY <2>3 DEF ClaimToken, Inv, ChatTypeOK
    <3> QED BY <1>1, <2>3, <3>1, Claimed DEF Inv, TaskInv
  <2> QED BY <1>1, <2>1, <2>2, <2>3 DEF Follows
<1>2. ASSUME run'[r].status # "absent", run'[r].token = t, t # 0
      PROVE  run[r].status # "absent" /\ Bears(r, t)
  <2>1. CASE FreeCall
    BY <1>2, <2>1, FreeRows DEF Bears, Inv, ChatTypeOK
  <2>2. ASSUME NEW w \in Workers, NEW o \in Runs, Write(w, o)
        PROVE  run[r].status # "absent" /\ Bears(r, t)
    BY <1>2, <2>2, WriteRows DEF Bears
  <2> QED BY <2>1, <2>2, Sources
<1> QED BY <1>1, <1>2 DEF Bears

(* Two runs never claim in one step.                                       *)
LEMMA ClaimsAreAlone ==
  ASSUME Inv, NEW v \in Workers, NEW w \in Workers, NEW r \in Runs, NEW o \in Runs,
         ClaimToken(w, r), ClaimToken(v, o)
  PROVE  r = o
<1> SUFFICES ASSUME r # o PROVE FALSE OBVIOUS
<1>0. task \in [Workers -> [Runs -> Task]] BY DEF Inv, ChatTypeOK
<1>1. task'[v][o] = task[v][o] BY <1>0 DEF ClaimToken
<1>2. task[v][o].pc = "claiming" BY DEF ClaimToken, At
<1>3. task'[v][o].pc = "marking" BY <1>0 DEF ClaimToken, Task
<1> QED BY <1>1, <1>2, <1>3

LEMMA TokenStep ==
  ASSUME Inv, CompletedIffAnswered, TurnsContiguous, TokenInv, [Next]_vars
  PROVE  TokenInv'
<1>0. /\ RepoTypeOK /\ [RepoNext]_repoVars
      /\ run \in [Runs -> Row]
      /\ session \in [Sessions -> SessionRow] /\ session' \in [Sessions -> SessionRow]
  BY StepsAreRepoSteps, InvStep DEF Inv, ChatTypeOK, RepoTypeOK
<1>1. ASSUME NEW r \in Runs, run[r].status # "absent"
      PROVE  /\ Home(r)' = Home(r) /\ Home(r) \in Sessions
             /\ session[Home(r)].fence \in Nat /\ session'[Home(r)].fence \in Nat
             /\ session'[Home(r)].fence >= session[Home(r)].fence
  BY <1>0, <1>1, RowsStay, HomeIsASession DEF Home, SessionRow
<1>2. ASSUME NEW r \in Runs, NEW t \in Nat, Bears(r, t)'
      PROVE  t <= session'[Home(r)'].fence
  <2>1. run[r].status # "absent" BY <1>2, BearsStep
  <2>2. CASE Bears(r, t)
    <3>1. t <= session[Home(r)].fence BY <2>2 DEF TokenInv
    <3> QED BY <1>1, <2>1, <3>1
  <2>3. ASSUME NEW w \in Workers, ClaimToken(w, r), t = session[Home(r)].fence + 1
        PROVE  t <= session'[Home(r)'].fence
    BY <1>1, <2>1, <2>3, Claimed
  <2> QED BY <1>2, <2>2, <2>3, BearsStep
<1>3. ASSUME NEW r \in Runs, NEW o \in Runs, NEW t \in Nat,
             Bears(r, t)', Bears(o, t)', Home(r)' = Home(o)'
      PROVE  r = o
  <2>1. run[r].status # "absent" /\ run[o].status # "absent" BY <1>3, BearsStep
  <2>2. Home(r) = Home(o) BY <1>1, <1>3, <2>1
  <2>3. CASE Bears(r, t) /\ Bears(o, t)
    BY <2>2, <2>3 DEF TokenInv
  <2>4. CASE ~Bears(r, t) /\ ~Bears(o, t)
    BY <1>3, <2>4, BearsStep, ClaimsAreAlone
  <2>5. Bears(r, t) => t <= session[Home(r)].fence BY DEF TokenInv
  <2>6. Bears(o, t) => t <= session[Home(r)].fence BY <2>2 DEF TokenInv
  <2>7. ~Bears(r, t) \/ ~Bears(o, t) => t = session[Home(r)].fence + 1
    BY <1>3, <2>2, BearsStep
  <2>8. session[Home(r)].fence \in Nat BY <1>1, <2>1
  <2> QED BY <2>3, <2>4, <2>5, <2>6, <2>7, <2>8
<1>4. ASSUME NEW r \in Runs, run'[r].status = "completed"
      PROVE  run'[r].token # 0
  <2>1. CASE run[r].status = "completed"
    <3>1. run'[r] = run[r]
      BY <1>0, <1>4, <2>1, RowSteps DEF Terminal, repoVars
    <3> QED BY <2>1, <3>1 DEF TokenInv
  <2>2. CASE run[r].status # "completed"
    <3>1. PICK w \in Workers : task[w][r].pc = "committing"
                               /\ task[w][r].token = session[Home(r)].fence
      BY <1>4, <2>2, Completes
    <3>2. session[Home(r)].fence \in Nat BY <1>1, <1>4, <2>2, Completes
    <3>3. task[w][r].token \in 1..session[Home(r)].fence
      BY <3>1 DEF Inv, TaskInv, Tokened
    <3>4. run'[r].token = session[Home(r)].fence BY <1>4, <2>2, Completes
    <3> QED BY <3>1, <3>2, <3>3, <3>4
  <2> QED BY <2>1, <2>2
<1>5. ASSUME NEW r \in Runs, run[r].status = "completed"
      PROVE  /\ run[r].result < session[Home(r)].next
             /\ run[r].result \in Nat /\ run[r].token \in Nat
             /\ Bears(r, run[r].token)
             /\ run[r].token <= session[Home(r)].fence
             /\ session[Home(r)].fence \in Nat
  <2>1. Home(r) \in Sessions /\ session[Home(r)] \in SessionRow
    BY <1>0, <1>5, HomeIsASession
  <2>2. \E t \in turns[Home(r)] : t.index = run[r].result
    BY <1>5 DEF CompletedIffAnswered, Home
  <2>3. run[r].result \in 1..(session[Home(r)].next - 1)
    BY <2>1, <2>2 DEF TurnsContiguous
  <2>4. run[r].token \in Nat BY <1>0 DEF Row
  <2>5. Bears(r, run[r].token) BY <1>5 DEF Bears, TokenInv
  <2> QED BY <2>1, <2>3, <2>4, <2>5 DEF TokenInv, SessionRow
<1>6. ASSUME NEW r \in Runs, NEW o \in Runs,
             run'[r].status = "completed", run'[o].status = "completed",
             run'[r].session = run'[o].session, run'[r].result < run'[o].result
      PROVE  run'[r].token < run'[o].token
  <2>1. \A x \in {r, o} : run[x].status = "completed" => run'[x] = run[x]
    BY <1>0, <1>6, RowSteps DEF Terminal, repoVars
  <2>2. CASE run[r].status = "completed" /\ run[o].status = "completed"
    BY <1>6, <2>1, <2>2 DEF TokenInv, TurnsFollowTokens
  <2>3. CASE run[r].status = "completed" /\ run[o].status # "completed"
    <3>1. /\ run[o].status # "absent"
          /\ run'[o].session = run[o].session
          /\ run'[o].token = session[Home(o)].fence
          /\ \E w \in Workers : task[w][o].pc = "committing"
                                /\ task[w][o].token = session[Home(o)].fence
      BY <1>6, <2>3, Completes
    <3>2. Home(r) = Home(o) BY <1>6, <2>1, <2>3, <3>1 DEF Home
    <3>3. Bears(o, session[Home(o)].fence) BY <3>1 DEF Bears, Tokened
    <3>4. r # o BY <2>3
    <3>5. run[r].token # session[Home(o)].fence
      BY <1>5, <2>3, <3>2, <3>3, <3>4 DEF TokenInv
    <3>6. run'[r].token = run[r].token BY <2>1, <2>3
    <3> QED BY <1>5, <2>3, <3>1, <3>2, <3>5, <3>6
  <2>4. CASE run[r].status # "completed" /\ run[o].status = "completed"
    <3>1. run'[r].session = run[r].session /\ run'[r].result = session[Home(r)].next
      BY <1>6, <2>4, Completes
    <3>2. run'[o] = run[o] BY <2>1, <2>4
    <3>3. Home(r) = Home(o) BY <1>6, <3>1, <3>2 DEF Home
    <3>4. run[o].result < session[Home(r)].next /\ run[o].result \in Nat
      BY <1>5, <2>4, <3>3
    <3>5. session[Home(r)].next \in Nat
      BY <1>0, <1>6, <2>4, Completes, HomeIsASession DEF SessionRow
    <3> QED BY <1>6, <3>1, <3>2, <3>4, <3>5
  <2>5. CASE run[r].status # "completed" /\ run[o].status # "completed"
    <3>1. r = o BY <1>6, <2>5, Completes
    <3>2. run'[r].result \in Nat BY InvStep DEF Inv, ChatTypeOK, RepoTypeOK, Row
    <3> QED BY <1>6, <3>1, <3>2
  <2> QED BY <2>2, <2>3, <2>4, <2>5
<1> QED BY <1>2, <1>3, <1>4, <1>6 DEF TokenInv, TurnsFollowTokens

(* The order of the answers in a session's dialogue is the order in which   *)
(* their executions took the session.                                      *)
THEOREM TurnsInTokenOrder == Spec => []TurnsFollowTokens
<1>1. ASSUME Init PROVE TokenInv
  <2>1. \A r \in Runs : run[r].status = "absent" BY <1>1 DEF Init, RepoInit, NewRow
  <2>2. \A r \in Runs, w \in Workers : task[w][r].pc = "none" BY <1>1 DEF Init, NoTask
  <2>3. \A r \in Runs, t \in Nat : ~Bears(r, t) BY <2>1, <2>2 DEF Bears, Tokened
  <2> QED BY <2>1, <2>3 DEF TokenInv, TurnsFollowTokens
<1>2. Spec => [](CompletedIffAnswered /\ TurnsContiguous)
  BY RepositoryImplemented, CompletedIffAnsweredHolds, TurnsContiguousHold, PTL
     DEF ImplementsRepository
<1>3. TokenInv => TurnsFollowTokens BY DEF TokenInv
<1> QED BY <1>1, <1>2, <1>3, TokenStep, InvHolds, PTL DEF Spec

=============================================================================
