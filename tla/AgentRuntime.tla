---------------------------- MODULE AgentRuntime ----------------------------
(***************************************************************************)
(* AgentRuntime.run_stream (agent/runtime.py) over the streams of one chat *)
(* session: the execution loop with its tool batches, rejected batches and *)
(* plan, context compaction under a watermark or after an overflow, and    *)
(* the answer stage with its primary, degraded and deterministic attempts. *)
(* One stream runs at a time (ProductChat's session lock); its consumer    *)
(* may close or cancel it, and its deadline may pass, at any point.        *)
(* Sizes are counted in messages, one token each.                          *)
(***************************************************************************)
EXTENDS SessionHistory

CONSTANTS
  Streams,           \* bound: streams started in the session
  ContextWindow,            \* context_window_tokens
  Reserve,           \* compaction_reserve_tokens
  Margin,            \* context_safety_margin_tokens
  MaxCalls,          \* bound: tool calls in one model response
  PlanSize,          \* bound: items of a task plan
  CompactionRetries, \* compaction_max_retries
  AttemptIds,        \* bound: identities of answer attempts, reused in turn
  Corrections        \* rejected batches in a row that are corrected

ASSUME LimitsAssumption ==
  /\ Streams \in Nat \ {0} /\ MaxCalls \in Nat \ {0} /\ PlanSize \in Nat \ {0, 1}
  /\ AttemptIds \in Nat \ {0, 1} /\ CompactionRetries \in Nat /\ Corrections \in Nat
  /\ Margin \in Nat \ {0} /\ Reserve \in Nat \ {0, 1} /\ ContextWindow \in Nat
  /\ Margin < ContextWindow /\ Reserve < ContextWindow

VARIABLES
  phase,    \* where the stream is; idle between streams
  stream,   \* number of streams started
  history,  \* the session's SessionExecutionHistory
  msgs,     \* request_messages
  start,    \* request_start: the messages in front of this stream's own
  late,     \* the clock has passed the deadline of the current stage
  run,      \* what the stream remembers: flags, plan, stop reason
  answer,   \* the answer stage and its current attempt
  batch,    \* the tool calls of the current response and their results so far
  comp,     \* the compaction in progress
  ending    \* how the last stream ended

runtimeVars == <<phase, stream, history, msgs, start, late, run, answer, batch, comp, ending>>

NewRun   == [tried |-> FALSE, recovered |-> FALSE, rejections |-> 0, reliable |-> FALSE,
             items |-> 0, done |-> 0, outcome |-> "none"]
NoAnswer == [kind |-> "none", attempt |-> 0, open |-> FALSE, spoken |-> FALSE, progress |-> FALSE]
NoBatch  == [n |-> 0, done |-> 0]
NoComp   == [from |-> "none", cut |-> 0, base |-> <<>>, parts |-> 0, tries |-> 0]

RuntimeInit ==
  /\ phase = "idle" /\ stream = 0 /\ history = NewHistory /\ msgs = <<>> /\ start = 0
  /\ late = FALSE /\ run = NewRun /\ answer = NoAnswer /\ batch = NoBatch
  /\ comp = NoComp /\ ending = "none"
-----------------------------------------------------------------------------
(* derive_output_budget and assess_request_capacity: the output shrinks to *)
(* what the window leaves, and nothing left is critical.                   *)
Input(h, ms) == Len(ms) + (IF h.summary THEN 1 ELSE 0)
Critical(h, ms) == Input(h, ms) + Margin >= ContextWindow
High(h, ms) == Critical(h, ms) \/ Input(h, ms) >= ContextWindow - Reserve + 1

(* assess_compaction_request_capacity, for the messages a summary reads *)
SummaryFits(part) == Len(part) + Margin < ContextWindow

(* resolve_answer *)
PlanComplete == run.items > 0 /\ run.done = run.items
AnswerMode ==
  IF run.items > 0
  THEN IF PlanComplete THEN "full" ELSE IF run.done > 0 THEN "partial" ELSE "failure"
  ELSE CASE run.outcome \in {"model_done", "plan_complete"} -> "full"
         [] run.outcome = "context_capacity" -> "partial"
         [] run.outcome = "generation_exhausted" /\ run.reliable -> "partial"
         [] OTHER -> "failure"

(* Where _check_controls or _await_controlled looks at the token and the   *)
(* clock                                                                   *)
Controlled ==
  {"step", "model", "tools", "prepare", "answering", "verify", "summarise", "rebuilt"}

(* The stream stops: AgentCompleted, AgentCancelled, AgentFailed (with     *)
(* CompactionFailed before it when that was the reason), or a generator    *)
(* its consumer closed, which publishes nothing.                           *)
EndStream(how) ==
  /\ phase' = "idle" /\ ending' = how
  /\ msgs' = <<>> /\ start' = 0 /\ late' = FALSE /\ run' = NewRun
  /\ answer' = NoAnswer /\ batch' = NoBatch /\ comp' = NoComp
  /\ UNCHANGED stream

Fail == EndStream("failed") /\ UNCHANGED history

(* _history_set_effective: a refused write fails the stream *)
Write(ms, p) ==
  IF Accepts(history, ms)
  THEN /\ history' = SetEffective(history, ms) /\ msgs' = ms /\ phase' = p
       /\ UNCHANGED <<stream, start, late, ending>>
  ELSE Fail

(* _record_delivery, and AgentCompleted with the current attempt *)
Deliver ==
  LET ms == Append(msgs, Final(stream))
  IN  IF Accepts(history, ms)
      THEN history' = SetEffective(history, ms) /\ EndStream("completed")
      ELSE Fail

(* The execution stage stops for a reason *)
Stop(why) == phase' = "resolve" /\ run' = [run EXCEPT !.outcome = why]
-----------------------------------------------------------------------------
(* ProductChat begins a request, or again one that did not complete, and   *)
(* the stream starts: _run_stream up to AgentStarted.                      *)
BeginStream(r, boot) ==
  /\ phase = "idle" /\ stream < Streams
  /\ \/ r = history.turn + 1
     \/ r = history.turn /\ r > 0 /\ ending # "completed"
  /\ MayBegin(history, r)
  /\ LET h == BeginRequest(history, r, boot, stream + 1)
     IN  history' = h /\ msgs' = h.eff /\ start' = Len(h.eff)
  /\ stream' = stream + 1 /\ phase' = "step"
  /\ UNCHANGED <<late, run, answer, batch, comp, ending>>

(* The environment: the clock passes the deadline, the consumer closes the *)
(* stream, or a check finds its token cancelled (AgentCancelledError).     *)
DeadlinePasses ==
  /\ phase \notin {"idle", "resolve", "fixed", "deliver"} /\ ~late
  /\ late' = TRUE
  /\ UNCHANGED <<phase, stream, history, msgs, start, run, answer, batch, comp, ending>>

Close == phase # "idle" /\ EndStream("closed") /\ UNCHANGED history

Cancelled == phase \in Controlled /\ EndStream("cancelled") /\ UNCHANGED history

(* Broken variant: an expired deadline starts the step again *)
ExecutionDeadlineRetries ==
  /\ phase \in Controlled /\ answer.kind = "none" /\ late
  /\ phase' = "step" /\ late' = FALSE /\ batch' = NoBatch /\ comp' = NoComp
  /\ UNCHANGED <<stream, history, msgs, start, run, answer, ending>>

(* AgentDeadlineExceeded in the execution stage.  The batch in flight is   *)
(* dropped: neither its calls nor its results reach request_messages.      *)
ExecutionDeadline ==
  /\ phase \in Controlled /\ answer.kind = "none" /\ late
  /\ Stop("deadline") /\ batch' = NoBatch /\ comp' = NoComp
  /\ UNCHANGED <<stream, history, msgs, start, late, answer, ending>>
-----------------------------------------------------------------------------
(* The top of the execution loop: a request under pressure is compacted    *)
(* first; one that is not goes to the model.                               *)
ExecutionStep ==
  /\ phase = "step" /\ ~late /\ run.rejections <= Corrections
  /\ IF High(history, msgs)
     THEN /\ phase' = "compact" /\ run' = [run EXCEPT !.tried = TRUE]
          /\ comp' = [NoComp EXCEPT !.from = "watermark"]
     ELSE phase' = "model" /\ UNCHANGED <<run, comp>>
  /\ UNCHANGED <<stream, history, msgs, start, late, answer, batch, ending>>

(* The model answers an execution request: a final message ends the stage, *)
(* a batch of calls is executed.                                           *)
ModelDone ==
  /\ phase = "model" /\ ~late
  /\ phase' = "resolve"
  /\ run' = [run EXCEPT !.outcome = "model_done", !.rejections = 0]
  /\ UNCHANGED <<stream, history, msgs, start, late, answer, batch, comp, ending>>

ModelCalls(n) ==
  /\ phase = "model" /\ ~late
  /\ phase' = "tools" /\ batch' = [n |-> n, done |-> 0]
  /\ run' = [run EXCEPT !.rejections = 0]
  /\ UNCHANGED <<stream, history, msgs, start, late, answer, comp, ending>>

(* ModelToolCallBatchRejected: the rejected calls and their unexecuted     *)
(* results join the history, and the next step may correct them.           *)
ModelBatchRejected(n) ==
  /\ phase = "model" /\ ~late
  /\ Write(msgs \o <<Rejected(n, stream)>> \o Results(n, stream), "step")
  /\ IF phase' = "step" THEN /\ run' = [run EXCEPT !.rejections = @ + 1]
                             /\ UNCHANGED <<answer, batch, comp>> ELSE TRUE

GenerationExhausted ==
  /\ phase = "step" /\ ~late /\ run.rejections > Corrections
  /\ Stop("generation_exhausted")
  /\ UNCHANGED <<stream, history, msgs, start, late, answer, batch, comp, ending>>

(* Any other provider or protocol error *)
ModelFails == phase = "model" /\ Fail

(* ModelContextWindowExceeded: the stream has one recovery, a compaction   *)
(* and a second try; a second overflow fails it.                           *)
ModelOverflows ==
  /\ phase = "model" /\ ~late
  /\ IF run.recovered THEN Fail
     ELSE /\ phase' = "compact"
          /\ run' = [run EXCEPT !.recovered = TRUE, !.tried = TRUE]
          /\ comp' = [NoComp EXCEPT !.from = "overflow"]
          /\ UNCHANGED <<stream, history, msgs, start, late, answer, batch, ending>>

(* _execute_tools_stream runs a group: k observations side by side, or one *)
(* call that writes the plan.  A result may be an error.                   *)
RunObservations(k, reliable) ==
  /\ phase = "tools" /\ ~late /\ batch.done + k <= batch.n
  /\ batch' = [batch EXCEPT !.done = @ + k]
  /\ run' = [run EXCEPT !.reliable = @ \/ reliable]
  /\ UNCHANGED <<phase, stream, history, msgs, start, late, answer, comp, ending>>

RunTaskTool ==
  /\ phase = "tools" /\ ~late /\ batch.done < batch.n
  /\ batch' = [batch EXCEPT !.done = @ + 1]
  /\ \/ run.items = 0 /\ run' = [run EXCEPT !.items = PlanSize]
     \/ run.done < run.items /\ run' = [run EXCEPT !.done = @ + 1]
  /\ UNCHANGED <<phase, stream, history, msgs, start, late, answer, comp, ending>>

(* The whole batch joins request_messages and the history at once *)
FinishBatch ==
  /\ phase = "tools" /\ ~late /\ batch.done = batch.n
  /\ Write(msgs \o <<Call(batch.n, stream)>> \o Results(batch.n, stream),
           IF PlanComplete THEN "resolve" ELSE "step")
  /\ IF phase' = "idle" THEN TRUE
     ELSE /\ run' = [run EXCEPT !.tried = FALSE,
                                !.outcome = IF PlanComplete THEN "plan_complete" ELSE @]
          /\ batch' = NoBatch /\ UNCHANGED <<answer, comp>>
-----------------------------------------------------------------------------
(* _compact_session_history: a snapshot, the summaries it needs, a commit. *)
(* Nothing changes before the commit.                                      *)
NothingToCompact(eff) ==
  LET cut == CutIndex(eff) IN cut = 0 \/ Removable(history, cut) < 1

(* What follows a compaction that removed nothing *)
SkipCompaction ==
  /\ comp' = NoComp
  /\ CASE comp.from = "watermark" ->
            IF Critical(history, msgs)
            THEN Stop("context_capacity") /\ UNCHANGED <<history, answer>>
            ELSE phase' = "model" /\ UNCHANGED <<run, history, answer>>
       [] comp.from = "answer_overflow" ->
            phase' = "answer_failed" /\ UNCHANGED <<run, history, answer>>
       [] comp.from = "answer" -> phase' = "prepare" /\ UNCHANGED <<run, history, answer>>

BeginCompaction ==
  LET eff   == history.eff
      cut   == CutIndex(eff)
      parts == SummaryInputs(eff, cut)
  IN
  /\ phase = "compact"
  /\ IF late THEN phase' = "summarise" /\ UNCHANGED <<stream, history, msgs, start, late, run, answer, batch, comp, ending>>
     ELSE IF ~PreservesCurrentUser(history, eff) \/ ~Grouped(eff) THEN Fail
     ELSE IF NothingToCompact(eff)
          THEN IF comp.from = "overflow" THEN Fail
               ELSE SkipCompaction /\ UNCHANGED <<stream, msgs, start, late, batch, ending>>
     ELSE IF \E i \in DOMAIN parts : ~SummaryFits(parts[i]) THEN Fail
     ELSE /\ phase' = "summarise"
          /\ comp' = [comp EXCEPT !.cut = cut, !.base = eff, !.parts = Len(parts)]
          /\ UNCHANGED <<stream, history, msgs, start, late, run, answer, batch, ending>>

(* A summary is generated, a transient failure is retried, or the          *)
(* compaction fails and the stream with it.                                *)
SummaryGenerated ==
  /\ phase = "summarise" /\ ~late /\ comp.parts > 1
  /\ comp' = [comp EXCEPT !.parts = @ - 1, !.tries = 0]
  /\ UNCHANGED <<phase, stream, history, msgs, start, late, run, answer, batch, ending>>

SummaryRetried ==
  /\ phase = "summarise" /\ ~late /\ comp.parts > 0 /\ comp.tries < CompactionRetries
  /\ comp' = [comp EXCEPT !.tries = @ + 1]
  /\ UNCHANGED <<phase, stream, history, msgs, start, late, run, answer, batch, ending>>

SummaryFails == phase = "summarise" /\ comp.parts > 0 /\ Fail

(* Broken variant: the user message pinned in front is not counted *)
NewStartUnpinned(old, cut) == IF old > cut THEN old - cut ELSE 0

(* The last summary is there: commit_compaction, and _rebuild_after_       *)
(* compaction moves the scope of the request with the messages.            *)
NewStart(old, cut) ==
  (IF old > cut THEN old - cut ELSE 0) + (IF history.cur <= cut THEN 1 ELSE 0)

CommitAndRebuild ==
  /\ phase = "summarise" /\ ~late /\ comp.parts = 1
  /\ IF MayCommit(history, history.turn, comp.base, comp.cut)
     THEN LET h == CommitCompaction(history, comp.cut)
          IN  /\ history' = h /\ msgs' = h.eff /\ start' = NewStart(start, comp.cut)
              /\ phase' = "rebuilt" /\ comp' = [NoComp EXCEPT !.from = comp.from]
              /\ UNCHANGED <<stream, late, run, answer, batch, ending>>
     ELSE Fail

(* The rebuilt request is measured and sent, or found too large *)
ExecutionRebuilt ==
  /\ phase = "rebuilt" /\ ~late /\ comp.from \in {"watermark", "overflow"}
  /\ IF Critical(history, msgs) THEN Stop("context_capacity")
     ELSE phase' = "model" /\ UNCHANGED run
  /\ comp' = NoComp
  /\ UNCHANGED <<stream, history, msgs, start, late, answer, batch, ending>>
-----------------------------------------------------------------------------
(* Broken variant: every attempt has the first one's identity *)
StartSameAttempt(kind, p) ==
  /\ answer' = [answer EXCEPT !.kind = kind, !.attempt = 1, !.open = TRUE, !.spoken = FALSE]
  /\ phase' = p

(* The answer stage.  Its attempts are numbered; text belongs to one.      *)
StartAttempt(kind, p) ==
  /\ answer' = [answer EXCEPT !.kind = kind, !.attempt = (@ % AttemptIds) + 1,
                              !.open = TRUE, !.spoken = FALSE]
  /\ phase' = p

BeginAnswerStage ==
  /\ phase = "resolve"
  /\ phase' = IF AnswerMode = "failure" THEN "fixed" ELSE "primary"
  /\ answer' = [NoAnswer EXCEPT !.kind = "resolved"]
  /\ late' = FALSE
  /\ UNCHANGED <<stream, history, msgs, start, run, batch, comp, ending>>

StartPrimary ==
  /\ phase = "primary" /\ StartAttempt("primary", "prepare")
  /\ UNCHANGED <<stream, history, msgs, start, late, run, batch, comp, ending>>

(* prepare_answer_continuation: progress of the tools permits one more     *)
(* compaction; the request must fit before it is sent.                     *)
PrepareCompacts ==
  /\ phase = "prepare" /\ ~late
  /\ High(history, msgs) /\ (answer.progress \/ ~run.tried)
  /\ phase' = "compact" /\ comp' = [NoComp EXCEPT !.from = "answer"]
  /\ run' = [run EXCEPT !.tried = TRUE] /\ answer' = [answer EXCEPT !.progress = FALSE]
  /\ UNCHANGED <<stream, history, msgs, start, late, batch, ending>>

PrepareSends ==
  /\ phase \in {"prepare", "rebuilt"} /\ ~late
  /\ phase = "rebuilt" => comp.from = "answer"
  /\ phase = "prepare" => ~High(history, msgs) \/ (run.tried /\ ~answer.progress)
  /\ phase' = IF Critical(history, msgs) THEN "answer_error" ELSE "answering"
  /\ run' = [run EXCEPT !.tried = @ /\ ~answer.progress]
  /\ answer' = [answer EXCEPT !.progress = FALSE] /\ comp' = NoComp
  /\ UNCHANGED <<stream, history, msgs, start, late, batch, ending>>

AnswerText ==
  /\ phase = "answering" /\ ~late /\ ~answer.spoken
  /\ answer' = [answer EXCEPT !.spoken = TRUE]
  /\ UNCHANGED <<phase, stream, history, msgs, start, late, run, batch, comp, ending>>

AnswerFinal == phase = "answering" /\ ~late /\ Deliver

(* The model verifies with local tools first: the calls join               *)
(* request_messages now, each result as it arrives, and a new attempt      *)
(* replaces what was said so far.                                          *)
AnswerCalls(n) ==
  /\ phase = "answering" /\ ~late
  /\ msgs' = Append(msgs, Call(n, stream)) /\ batch' = [n |-> n, done |-> 0]
  /\ StartAttempt(answer.kind, "verify")
  /\ UNCHANGED <<stream, history, start, late, run, comp, ending>>

VerifyCall(ok) ==
  /\ phase = "verify" /\ ~late /\ batch.done < batch.n
  /\ msgs' = msgs \o Results(1, stream) /\ batch' = [batch EXCEPT !.done = @ + 1]
  /\ answer' = [answer EXCEPT !.progress = @ \/ ok]
  /\ UNCHANGED <<phase, stream, history, start, late, run, comp, ending>>

FinishVerification ==
  /\ phase = "verify" /\ ~late /\ batch.done = batch.n
  /\ Write(msgs, "prepare")
  /\ IF phase' = "idle" THEN TRUE ELSE batch' = NoBatch /\ UNCHANGED <<run, answer, comp>>

(* The provider reports an overflow: the primary attempt fails, and the    *)
(* stream's one recovery may give it another.                              *)
AnswerOverflows ==
  /\ phase = "answering" /\ ~late /\ answer.kind = "primary" /\ ~run.recovered
  /\ answer' = [answer EXCEPT !.open = FALSE]
  /\ run' = [run EXCEPT !.recovered = TRUE, !.tried = TRUE]
  /\ phase' = "compact" /\ comp' = [NoComp EXCEPT !.from = "answer_overflow"]
  /\ UNCHANGED <<stream, history, msgs, start, late, batch, ending>>

AnswerRecovers ==
  /\ phase = "rebuilt" /\ ~late /\ comp.from = "answer_overflow"
  /\ IF Critical(history, msgs) THEN phase' = "answer_failed" /\ UNCHANGED answer
     ELSE StartAttempt("primary", "answering")
  /\ comp' = NoComp
  /\ UNCHANGED <<stream, history, msgs, start, late, run, batch, ending>>

(* What ends an attempt: a provider or protocol error, a truncated answer, *)
(* a request too large (answer_error), or the answer deadline at any check *)
(* or await of the stage.                                                  *)
AnswerErrs ==
  /\ \/ phase = "answering" /\ ~late
     \/ phase \in Controlled /\ answer.kind # "none" /\ late
     \/ phase = "answer_error"
  /\ answer' = [answer EXCEPT !.open = FALSE, !.progress = FALSE]
  /\ phase' = "answer_failed" /\ batch' = NoBatch /\ comp' = NoComp
  /\ UNCHANGED <<stream, history, msgs, start, late, run, ending>>

(* After the primary attempt a degraded one, after that a fixed text *)
StartDegraded ==
  /\ phase = "answer_failed" /\ answer.kind = "primary"
  /\ StartAttempt("degraded", "prepare")
  /\ UNCHANGED <<stream, history, msgs, start, late, run, batch, comp, ending>>

StartDeterministic ==
  /\ \/ phase = "answer_failed" /\ answer.kind = "degraded"
     \/ phase = "fixed"
  /\ StartAttempt("deterministic", "deliver")
  /\ UNCHANGED <<stream, history, msgs, start, late, run, batch, comp, ending>>

DeliverDeterministic == phase = "deliver" /\ Deliver
-----------------------------------------------------------------------------
Boots == {<<>>, <<User(0, 0), Final(0)>>}

StreamNext ==
  \/ ExecutionDeadline
  \/ ExecutionStep \/ ModelDone \/ (\E n \in 1..MaxCalls : ModelCalls(n))
  \/ (\E n \in 1..MaxCalls : ModelBatchRejected(n)) \/ GenerationExhausted
  \/ ModelFails \/ ModelOverflows
  \/ (\E k \in 1..MaxCalls, ok \in BOOLEAN : RunObservations(k, ok)) \/ RunTaskTool
  \/ FinishBatch
  \/ BeginCompaction \/ SummaryGenerated \/ SummaryRetried \/ SummaryFails
  \/ CommitAndRebuild \/ ExecutionRebuilt
  \/ BeginAnswerStage \/ StartPrimary \/ PrepareCompacts \/ PrepareSends
  \/ AnswerText \/ AnswerFinal \/ (\E n \in 1..MaxCalls : AnswerCalls(n))
  \/ (\E ok \in BOOLEAN : VerifyCall(ok)) \/ FinishVerification
  \/ AnswerOverflows \/ AnswerRecovers \/ AnswerErrs
  \/ StartDegraded \/ StartDeterministic \/ DeliverDeterministic

RuntimeNext ==
  \/ \E r \in 1..Streams, boot \in Boots : BeginStream(r, boot)
  \/ Cancelled \/ DeadlinePasses \/ Close
  \/ StreamNext

RuntimeSpec == RuntimeInit /\ [][RuntimeNext]_runtimeVars

(* The stream's task is scheduled, and the clock passes every deadline *)
RuntimeFairness ==
  /\ WF_runtimeVars(StreamNext)
  /\ WF_runtimeVars(DeadlinePasses)

FairRuntimeSpec == RuntimeSpec /\ RuntimeFairness
-----------------------------------------------------------------------------
Phases == {"idle", "compact", "resolve", "primary", "fixed", "deliver",
           "answer_error", "answer_failed"} \cup Controlled

Kinds == {"user", "final", "call", "rejected", "result"}
IsMessages(ms) ==
  \A i \in DOMAIN ms : ms[i].kind \in Kinds /\ ms[i].n \in Nat /\ ms[i].by \in 0..Streams

RuntimeTypeOK ==
  /\ phase \in Phases /\ stream \in 0..Streams /\ start \in 0..Len(msgs)
  /\ IsMessages(msgs) /\ IsMessages(history.eff) /\ history.turn \in 0..Streams
  /\ history.cur \in 0..Len(history.eff)
  /\ run.rejections \in 0..Corrections + 1 /\ run.done \in 0..run.items
  /\ batch.done \in 0..batch.n
  /\ comp.parts \in 0..2 /\ comp.tries \in 0..CompactionRetries
  /\ ending \in {"none", "completed", "failed", "cancelled", "closed"}

(* Whatever the stream holds may be written to the history at any moment:  *)
(* it keeps the current user message at the place the history remembers    *)
(* and drops nothing the history has, so no step of the loop and no        *)
(* delivered answer is refused (session_history.py set_effective).         *)
WritesAreAccepted == phase # "idle" => Accepts(history, msgs)

(* request_start follows the messages through every compaction: behind it  *)
(* are exactly the messages of this stream, so no evidence of an earlier   *)
(* one counts for its task state, and none of its own is lost to it        *)
(* (runtime.py _rebuild_after_compaction).                                 *)
ScopeIsExact ==
  phase # "idle" =>
    \A i \in DOMAIN msgs : ~IsUser(msgs[i]) => (i > start <=> msgs[i].by = stream)

(* A batch of calls without all its results is in the history only right   *)
(* in front of an answer: every other write keeps whole groups.            *)
GapAt(ms, i) == IsCall(ms[i]) /\ \E j \in 1..ms[i].n : i + j > Len(ms) \/ ms[i+j].kind # "result"
OnlyAnswersLeaveGaps ==
  \A i \in DOMAIN history.eff : GapAt(history.eff, i) =>
    \E j \in i+1 .. Len(history.eff) :
      /\ history.eff[j].kind = "final"
      /\ \A k \in i+1 .. j-1 : history.eff[k].kind = "result"

(* The history a stream works on and leaves behind is one that the next    *)
(* write, the next compaction and the next stream can take up.             *)
HistoryIsSound == RuntimeTypeOK /\ WritesAreAccepted /\ ScopeIsExact /\ OnlyAnswersLeaveGaps

(* The docs' promise: a batch of tool calls and its results stay together  *)
(* in the effective history.                                               *)
EffectiveHistoryIsGrouped == Grouped(history.eff)

(* Every stream ends, whatever the model and the tools do: nothing but the *)
(* deadlines bounds the loop.                                              *)
StreamsEnd == phase # "idle" ~> phase = "idle"

(* The events of the streams follow AgentProtocol *)
AbstractStage ==
  IF phase = "idle" THEN ending
  ELSE IF answer.kind = "none" THEN "execution" ELSE "answer"

Events == INSTANCE AgentProtocol WITH
  stage <- AbstractStage, attempt <- answer.attempt, open <- answer.open, spoken <- answer.spoken

(* Every stream of the tool loop is one the abstract protocol allows: the  *)
(* events run_stream (runtime.py) yields open, answer and end as promised. *)
ImplementsProtocol == Events!ProtocolSpec
=============================================================================
