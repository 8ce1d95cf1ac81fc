------------------------------ MODULE TaskState ------------------------------
(***************************************************************************)
(* TaskStateCoordinator (agent/task_state.py) inside one stream: a serial  *)
(* plan, the observations that may be checkpointed, who owns them, and     *)
(* what has been claimed, while AgentRuntime._execute_tools_stream runs    *)
(* batches of tool calls and compactions take messages away.               *)
(***************************************************************************)
EXTENDS Naturals, Sequences, FiniteSets

CONSTANTS
  Tasks,      \* task keys
  Calls,      \* tool calls of the stream; each is made at most once
  NoTask      \* no task key

ASSUME TaskAssumption == NoTask \notin Tasks

VARIABLES
  tasks,        \* the plan: its keys in order, empty without a plan
  current,      \* index of the task in progress; past the end when complete
  checkpoints,  \* TaskStateStore: the sources of the latest checkpoint by key
  owners,       \* _source_owners: the task an observation was made for
  active,       \* _active_sources: observations a checkpoint could use
  claimed,      \* _claimed_source_tool_call_ids
  transcript,   \* successful observations the request's messages still hold
  pending,      \* observations of the batch in flight, not yet in a message
  used,         \* calls made so far
  step,         \* batch, between batches, or answering
  madeFor       \* which task was in progress or named when a call was made

taskVars == <<tasks, current, checkpoints, owners, active, claimed, transcript,
              pending, used, step, madeFor>>

NoneYet == [c \in {} |-> NoTask]

TaskInit ==
  /\ tasks = <<>> /\ current = 0 /\ checkpoints = NoneYet /\ owners = NoneYet /\ active = {}
  /\ claimed = {} /\ transcript = {} /\ pending = {} /\ used = {} /\ step = "batch"
  /\ madeFor = NoneYet
-----------------------------------------------------------------------------
HasPlan == tasks # <<>>
Planned == {tasks[i] : i \in DOMAIN tasks}
CurrentKey == IF HasPlan /\ current <= Len(tasks) THEN tasks[current] ELSE NoTask
Completed == {tasks[i] : i \in {j \in DOMAIN tasks : j < current}}

(* refresh: the sources are the unclaimed observations in the messages     *)
(* that have an owner, and an owner without a source is forgotten.  A raw  *)
(* artifact read without an owner is a source of no task; it is left out.  *)
Refreshed(seen) ==
  LET sources == {c \in seen : c \in DOMAIN owners /\ c \notin claimed}
  IN  /\ active' = sources
      /\ owners' = [c \in sources |-> owners[c]]

(* resolve_source_task_key, against the plan captured before the group:    *)
(* a named task must be planned, an unnamed one is the one in progress.    *)
ResolveSourceTaskKey(asked) ==
  IF ~HasPlan THEN NoTask ELSE IF asked = NoTask THEN CurrentKey ELSE asked

(* A group of observations runs side by side.  Each that succeeds with     *)
(* content a checkpoint may use is recorded under the task it resolved to  *)
(* (record_tool_result); a name outside the plan is refused before the     *)
(* tool runs.                                                              *)
RunGroup(group, asked, good) ==
  /\ step = "batch" /\ group \cap used = {} /\ good \subseteq group
  /\ used' = used \cup group
  /\ LET valid == {c \in good : ~HasPlan \/ asked[c] = NoTask \/ asked[c] \in Planned}
         keys  == [c \in valid |-> ResolveSourceTaskKey(asked[c])]
     IN  /\ owners' = [c \in DOMAIN owners \cup valid |->
                         IF c \in valid THEN keys[c] ELSE owners[c]]
         /\ madeFor' = [c \in DOMAIN madeFor \cup valid |->
                          IF c \in valid THEN keys[c] ELSE madeFor[c]]
         /\ pending' = pending \cup valid
  /\ UNCHANGED <<tasks, current, checkpoints, active, claimed, transcript, step>>

(* task.plan: once, in order, the first task in progress *)
CreatePlan(items) ==
  /\ step = "batch" /\ ~HasPlan
  /\ tasks' = items /\ current' = 1
  /\ UNCHANGED <<checkpoints, owners, active, claimed, transcript, pending, used, step, madeFor>>

(* task.checkpoint: the task in progress, with at least one source of its  *)
(* own; the checkpoint claims them all and the plan advances.  Anything    *)
(* else is an error result that changes nothing.                           *)
SourcesOf(key) == {c \in active : owners[c] = (IF HasPlan THEN key ELSE NoTask)}

(* Broken variant: the sources are not claimed *)
CheckpointUnclaimed(key) ==
  LET sources == SourcesOf(key)
  IN
  /\ step = "batch" /\ sources # {}
  /\ HasPlan => key = CurrentKey
  /\ checkpoints' = [k \in DOMAIN checkpoints \cup {key} |->
                       IF k = key THEN sources ELSE checkpoints[k]]
  /\ current' = IF HasPlan THEN current + 1 ELSE current
  /\ UNCHANGED <<tasks, owners, active, claimed, transcript, pending, used, step, madeFor>>

CreateCheckpoint(key) ==
  LET sources == SourcesOf(key)
  IN
  /\ step = "batch" /\ sources # {}
  /\ HasPlan => key = CurrentKey
  /\ checkpoints' = [k \in DOMAIN checkpoints \cup {key} |->
                       IF k = key THEN sources ELSE checkpoints[k]]
  /\ claimed' = claimed \cup sources
  /\ active' = active \ sources
  /\ owners' = [c \in DOMAIN owners \ sources |-> owners[c]]
  /\ current' = IF HasPlan THEN current + 1 ELSE current
  /\ UNCHANGED <<tasks, transcript, pending, used, step, madeFor>>

(* The batch joins request_messages *)
EndBatch ==
  /\ step = "batch"
  /\ transcript' = transcript \cup pending /\ pending' = {}
  /\ step' = IF HasPlan /\ CurrentKey = NoTask THEN "answering" ELSE "between"
  /\ UNCHANGED <<tasks, current, checkpoints, owners, active, claimed, used, madeFor>>

(* A compaction between two batches removes messages of the stream, and    *)
(* the rebuild refreshes the sources.                                      *)
Compact(kept) ==
  /\ step = "between" /\ kept \subseteq transcript
  /\ transcript' = kept /\ Refreshed(kept)
  /\ UNCHANGED <<tasks, current, checkpoints, claimed, pending, used, step, madeFor>>

(* The next request is built: refresh, and the model may call again *)
NextBatch ==
  /\ step = "between"
  /\ Refreshed(transcript)
  /\ step' = "batch"
  /\ UNCHANGED <<tasks, current, checkpoints, claimed, transcript, pending, used, madeFor>>

(* The model is done, or the deadline passes in the middle of a batch:     *)
(* its results stay out of the messages.                                   *)
StopExecution ==
  /\ step \in {"batch", "between"}
  /\ step' = "answering" /\ pending' = {}
  /\ UNCHANGED <<tasks, current, checkpoints, owners, active, claimed, transcript, used, madeFor>>

(* The next stream: reset_request_state *)
ResetTasks ==
  /\ step = "answering"
  /\ tasks' = <<>> /\ current' = 0 /\ checkpoints' = NoneYet /\ owners' = NoneYet /\ active' = {}
  /\ claimed' = {} /\ transcript' = {} /\ pending' = {} /\ used' = {} /\ step' = "batch"
  /\ madeFor' = NoneYet

Groups == {g \in SUBSET Calls : Cardinality(g) \in {1, 2}}
Plans  == {p \in [1..2 -> Tasks] : p[1] # p[2]}

TaskNext ==
  \/ \E g \in Groups : \E asked \in [g -> Tasks \cup {NoTask}], good \in SUBSET g :
       RunGroup(g, asked, good)
  \/ \E p \in Plans : CreatePlan(p)
  \/ \E k \in Tasks : CreateCheckpoint(k)
  \/ EndBatch \/ NextBatch \/ StopExecution \/ ResetTasks
  \/ \E kept \in SUBSET transcript : Compact(kept)

TaskSpec == TaskInit /\ [][TaskNext]_taskVars
-----------------------------------------------------------------------------
TaskTypeOK ==
  /\ current \in 0..Len(tasks) + 1
  /\ DOMAIN checkpoints \subseteq Tasks /\ DOMAIN owners \subseteq Calls
  /\ active \subseteq DOMAIN owners /\ claimed \subseteq used /\ pending \subseteq used

(* A checkpoint rests on observations made for its own task, and no        *)
(* observation serves two checkpoints, whatever batches, refreshes and     *)
(* compactions come between (task_state.py create_checkpoint).             *)
EvidenceServesOneTask ==
  /\ \A k \in DOMAIN checkpoints : \A c \in checkpoints[k] :
       k \in Completed => madeFor[c] = k
  /\ \A k, l \in DOMAIN checkpoints : k # l => checkpoints[k] \cap checkpoints[l] = {}

(* When the model is asked again, every observation its messages still     *)
(* hold can be checkpointed or has been: none is lost to a refresh.        *)
EvidenceStaysAvailable ==
  step = "batch" => \A c \in transcript : c \in claimed \cup active

(* The tasks reported complete are exactly those before the current one,   *)
(* and each has a checkpoint the answer can read (resolve_answer).         *)
CompletedTasksHaveState == Completed \subseteq DOMAIN checkpoints

(* Evidence reaches the answer: it stays available until a checkpoint of   *)
(* its own task takes it, and completed tasks have theirs.                 *)
EvidenceReachesAnswer ==
  TaskTypeOK /\ EvidenceServesOneTask /\ EvidenceStaysAvailable /\ CompletedTasksHaveState
=============================================================================
