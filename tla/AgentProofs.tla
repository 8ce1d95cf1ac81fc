----------------------------- MODULE AgentProofs -----------------------------
(***************************************************************************)
(* What the streams of the agent's tool loop keep, for any limits of       *)
(* window, reserve, retries, batches and attempts.                         *)
(*                                                                         *)
(* First, each is a stream AgentProtocol allows.  The protocol speaks of   *)
(* the stage and of the attempt; where the stream is decides both, and a   *)
(* compaction remembers where it came from, so the invariant is a table of *)
(* what each phase has of the answer.                                      *)
(*                                                                         *)
(* Second, the session's history stays sound.  The invariant says how the  *)
(* messages of the stream relate to the history: they are the history's,   *)
(* except while the answer stage verifies or once its deadline has passed, *)
(* when a part of one batch is behind them.  Three lemmas about sequences  *)
(* carry it: messages that fit are added, a request begins, a compaction   *)
(* cuts.                                                                   *)
(*                                                                         *)
(* Third, evidence reaches the answer, for any set of task keys and calls: *)
(* the observations of a stream are owned by the task they were made for   *)
(* until a checkpoint claims them, and what is claimed is claimed once.    *)
(*                                                                         *)
(* Fourth, what the model reads of stored results fits, pages on without   *)
(* a gap, and is only replaced by a receipt when a later read shows as     *)
(* much, for any documents, budgets and pages.                             *)
(*                                                                         *)
(* Fifth, an answer sees the last turn: the history it is computed from    *)
(* never ends before the turn that the remembered index names, although    *)
(* cache, counter and turns are read in separate awaits; RememberedInv     *)
(* says so of every execution between its reads and its commit.  What is   *)
(* in the cache does not matter.                                           *)
(*                                                                         *)
(* Sixth, the cache and every window an execution holds is an unbroken run *)
(* of stored turns, and the run a rebuild would keep (SoundInv); stored    *)
(* turns never change, so a window that is late is still one.  The work is *)
(* in the operators: which turns fit the budget depends on the sums of the *)
(* newest ones (Used, which is recursive), and a window grown by a turn    *)
(* and cut again must be what is kept of the whole dialogue.  Facts about  *)
(* Used are proved by induction, as the absence of a least counterexample. *)
(***************************************************************************)
EXTENDS AgentRuntime, TaskState, ArtifactReads, RecentWindow, SequenceTheorems, FiniteSetTheorems,
        WellFoundedInduction, TLAPS

AnswerType ==
  [kind : {"none", "resolved", "primary", "degraded", "deterministic"},
   attempt : 0..AttemptIds, open : BOOLEAN, spoken : BOOLEAN, progress : BOOLEAN]

ExecutionPhases  == {"step", "model", "tools", "resolve"}
CompactionPhases == {"compact", "summarise", "rebuilt"}
AttemptKinds     == {"primary", "degraded"}

(* What a phase says of the answer: the execution stage has none; an       *)
(* attempt that is prepared, answering, verifying or delivered is open.    *)
PhaseSays ==
  /\ phase \in ExecutionPhases \cup {"idle"} => answer.kind = "none"
  /\ phase \in {"primary", "fixed"} => answer.kind = "resolved"
  /\ phase \in {"prepare", "answering", "verify"} =>
       answer.kind \in AttemptKinds /\ answer.open = TRUE
  /\ phase \in {"answer_error", "answer_failed"} => answer.kind \in AttemptKinds
  /\ phase = "deliver" => answer.kind = "deterministic" /\ answer.open = TRUE

(* A compaction returns to the stage it came from.                         *)
CompactionSays ==
  phase \in CompactionPhases =>
    \/ comp.from \in {"watermark", "overflow"} /\ answer.kind = "none"
    \/ comp.from = "answer" /\ answer.kind \in AttemptKinds /\ answer.open = TRUE
    \/ comp.from = "answer_overflow" /\ answer.kind = "primary"

ProtocolInv ==
  /\ phase \in Phases /\ answer \in AnswerType
  /\ "from" \in DOMAIN comp
  /\ ending \in {"none", "completed", "failed", "cancelled", "closed"}
  /\ answer.kind = "none" => answer = NoAnswer
  /\ PhaseSays
  /\ CompactionSays

(* The abstract step or stutter a step of the runtime has to be.           *)
Allowed == [Events!ProtocolNext]_(Events!protocolVars)

USE DEF Phases, Controlled, ExecutionPhases, CompactionPhases, AttemptKinds
-----------------------------------------------------------------------------
LEMMA InitProtocol == RuntimeInit => ProtocolInv /\ Events!ProtocolInit
BY LimitsAssumption
DEF RuntimeInit, ProtocolInv, AnswerType, NoAnswer, NoComp, PhaseSays, CompactionSays,
  Events!ProtocolInit, AbstractStage

(* The identity of the next attempt is in range and is not the last one.   *)
LEMMA NextIdentity ==
  ASSUME NEW a \in 0..AttemptIds
  PROVE  (a % AttemptIds) + 1 \in 1..AttemptIds /\ (a % AttemptIds) + 1 # a
<1> PICK n \in Nat : n = AttemptIds /\ n > 1 BY LimitsAssumption
<1>1. CASE a = n BY <1>1
<1>2. CASE a < n BY <1>2
<1> QED BY <1>1, <1>2

(* A stream that ends is back in the idle state of both specifications.    *)
LEMMA EndKeeps ==
  ASSUME ProtocolInv, phase # "idle", NEW how \in {"completed", "failed", "cancelled", "closed"},
         EndStream(how), how = "completed" => answer.kind # "none" /\ answer.open = TRUE
  PROVE  ProtocolInv' /\ Allowed
<1>1. ProtocolInv'
  BY LimitsAssumption
  DEF ProtocolInv, EndStream, AnswerType, NoAnswer, NoComp, PhaseSays, CompactionSays
<1>2. /\ AbstractStage \in {"execution", "answer"} /\ AbstractStage' = how
      /\ answer'.open = FALSE /\ answer'.attempt = 0 /\ answer'.spoken = FALSE
  BY DEF EndStream, AbstractStage, NoAnswer
<1>3. CASE how = "completed"
  <2>1. AbstractStage = "answer" /\ answer.open BY <1>3 DEF AbstractStage
  <2>2. Events!AgentCompleted BY <1>2, <1>3, <2>1 DEF Events!AgentCompleted
  <2> QED BY <1>1, <2>2 DEF Allowed, Events!ProtocolNext
<1>4. CASE how # "completed"
  <2>1. Events!Broken(how) BY <1>2 DEF Events!Broken, Events!Running
  <2> QED BY <1>1, <1>4, <2>1 DEF Allowed, Events!ProtocolNext
<1> QED BY <1>1, <1>3, <1>4

LEMMA FailKeeps ==
  ASSUME ProtocolInv, phase # "idle", Fail
  PROVE  ProtocolInv' /\ Allowed
BY EndKeeps DEF Fail

(* A refused write fails the stream; an accepted one changes the phase.    *)
LEMMA WriteKeeps ==
  ASSUME ProtocolInv, NEW ms, NEW p \in {"step", "resolve", "prepare"}, phase # "idle", Write(ms, p)
  PROVE  \/ ProtocolInv' /\ Allowed /\ phase' = "idle"
         \/ phase' = p /\ UNCHANGED ending
<1>1. CASE Fail BY <1>1, FailKeeps DEF Fail, EndStream
<1>2. CASE ~Fail BY <1>2 DEF Write
<1> QED BY <1>1, <1>2

LEMMA DeliverKeeps ==
  ASSUME ProtocolInv, phase # "idle", answer.kind # "none", answer.open = TRUE, Deliver
  PROVE  ProtocolInv' /\ Allowed
<1>1. Fail \/ EndStream("completed") BY DEF Deliver
<1> QED BY <1>1, FailKeeps, EndKeeps

(* Steps that leave the answer alone and stay in its stage.                *)
LEMMA QuietKeeps ==
  ASSUME ProtocolInv, UNCHANGED <<answer, ending>>, phase # "idle", phase' # "idle"
  PROVE  Allowed
BY DEF Allowed, Events!protocolVars, AbstractStage

LEMMA StartKeeps ==
  ASSUME ProtocolInv, NEW kind \in {"primary", "degraded", "deterministic"},
         NEW p \in Phases \ {"idle"}, StartAttempt(kind, p),
         phase # "idle", answer.kind # "none"
  PROVE  /\ answer' \in AnswerType /\ answer'.kind = kind /\ answer'.open = TRUE
         /\ phase' = p /\ Allowed
<1> DEFINE a == answer.attempt
           b == (a % AttemptIds) + 1
<1>1. a \in 0..AttemptIds BY DEF ProtocolInv, AnswerType
<1>2. b \in 1..AttemptIds /\ b # a BY <1>1, NextIdentity
<1>3. b \in Nat \ {0} /\ b \in 0..AttemptIds BY <1>2, LimitsAssumption
<1>4. /\ answer' = [answer EXCEPT !.kind = kind, !.attempt = b, !.open = TRUE, !.spoken = FALSE]
      /\ phase' = p
  BY DEF StartAttempt
<1> HIDE DEF b
<1>5. answer' \in AnswerType BY <1>3, <1>4 DEF ProtocolInv, AnswerType
<1>6. /\ answer'.kind = kind /\ answer'.open = TRUE /\ answer'.attempt = b
      /\ answer'.spoken = FALSE
  BY <1>4 DEF ProtocolInv, AnswerType
<1>7. AbstractStage = "answer" /\ AbstractStage' = "answer"
  BY <1>4, <1>6 DEF AbstractStage
<1>8. Events!AnswerAttemptStarted
  BY <1>2, <1>3, <1>6, <1>7 DEF Events!AnswerAttemptStarted
<1> QED BY <1>4, <1>5, <1>6, <1>8 DEF Allowed, Events!ProtocolNext

(* Steps of the execution stage and of a compaction's summaries.           *)
LEMMA ExecutionSteps ==
  ASSUME ProtocolInv,
         \/ DeadlinePasses \/ ExecutionDeadline \/ ExecutionStep \/ ModelDone
         \/ (\E n \in 1..MaxCalls : ModelCalls(n)) \/ GenerationExhausted
         \/ (\E k \in 1..MaxCalls, ok \in BOOLEAN : RunObservations(k, ok)) \/ RunTaskTool
         \/ SummaryGenerated \/ SummaryRetried \/ ExecutionRebuilt
  PROVE  ProtocolInv' /\ Allowed
<1> USE DEF PhaseSays, CompactionSays
<1>1. CASE DeadlinePasses
  <2>1. phase # "idle" /\ UNCHANGED <<phase, stream, run, answer, batch, comp, ending>>
    BY <1>1 DEF DeadlinePasses
  <2>2. Allowed BY <2>1, QuietKeeps
  <2> QED BY <1>1, <2>1, <2>2 DEF DeadlinePasses, ProtocolInv
<1>2. CASE ExecutionDeadline
  BY <1>2, QuietKeeps DEF ExecutionDeadline, Stop, ProtocolInv, NoComp
<1>3. CASE ExecutionStep
  BY <1>3, QuietKeeps DEF ExecutionStep, ProtocolInv, NoComp
<1>4. CASE ModelDone BY <1>4, QuietKeeps DEF ModelDone, ProtocolInv
<1>5. ASSUME NEW n \in 1..MaxCalls, ModelCalls(n) PROVE ProtocolInv' /\ Allowed
  BY <1>5, QuietKeeps DEF ModelCalls, ProtocolInv
<1>6. CASE GenerationExhausted BY <1>6, QuietKeeps DEF GenerationExhausted, Stop, ProtocolInv
<1>7. ASSUME NEW k \in 1..MaxCalls, NEW ok \in BOOLEAN, RunObservations(k, ok)
      PROVE  ProtocolInv' /\ Allowed
  BY <1>7, QuietKeeps DEF RunObservations, ProtocolInv
<1>8. CASE RunTaskTool BY <1>8, QuietKeeps DEF RunTaskTool, ProtocolInv
<1>9. CASE SummaryGenerated
  <2>1. comp'.from = comp.from /\ "from" \in DOMAIN comp'
    BY <1>9 DEF SummaryGenerated, ProtocolInv
  <2> QED BY <1>9, <2>1, QuietKeeps DEF SummaryGenerated, ProtocolInv
<1>10. CASE SummaryRetried
  <2>1. comp'.from = comp.from /\ "from" \in DOMAIN comp'
    BY <1>10 DEF SummaryRetried, ProtocolInv
  <2> QED BY <1>10, <2>1, QuietKeeps DEF SummaryRetried, ProtocolInv
<1>11. CASE ExecutionRebuilt
  BY <1>11, QuietKeeps DEF ExecutionRebuilt, Stop, ProtocolInv, NoComp
<1> QED BY <1>1, <1>2, <1>3, <1>4, <1>5, <1>6, <1>7, <1>8, <1>9, <1>10, <1>11

(* Steps that write the history, call the model in vain or compact.        *)
LEMMA WritingSteps ==
  ASSUME ProtocolInv,
         \/ (\E n \in 1..MaxCalls : ModelBatchRejected(n)) \/ FinishBatch \/ FinishVerification
         \/ ModelFails \/ ModelOverflows \/ SummaryFails \/ CommitAndRebuild \/ BeginCompaction
  PROVE  ProtocolInv' /\ Allowed
<1> USE DEF PhaseSays, CompactionSays
<1>1. ASSUME NEW n \in 1..MaxCalls, ModelBatchRejected(n) PROVE ProtocolInv' /\ Allowed
  <2>1. phase = "model" /\ Write(msgs \o <<Rejected(n, stream)>> \o Results(n, stream), "step")
    BY <1>1 DEF ModelBatchRejected
  <2>2. \/ ProtocolInv' /\ Allowed
        \/ phase' = "step" /\ UNCHANGED ending
    BY <2>1, WriteKeeps
  <2>3. CASE phase' = "step" /\ UNCHANGED ending
    <3>1. UNCHANGED <<answer, comp>> BY <1>1, <2>3 DEF ModelBatchRejected
    <3> QED BY <2>1, <2>3, <3>1, QuietKeeps DEF ProtocolInv
  <2> QED BY <2>2, <2>3
<1>2. CASE FinishBatch
  <2> DEFINE p == IF PlanComplete THEN "resolve" ELSE "step"
  <2>1. phase = "tools" /\ Write(msgs \o <<Call(batch.n, stream)>> \o Results(batch.n, stream), p)
    BY <1>2 DEF FinishBatch
  <2>2. p \in {"step", "resolve", "prepare"} OBVIOUS
  <2>3. \/ ProtocolInv' /\ Allowed
        \/ phase' \in {"step", "resolve"} /\ UNCHANGED ending
    BY <2>1, <2>2, WriteKeeps
  <2>4. CASE phase' \in {"step", "resolve"} /\ UNCHANGED ending
    <3>1. UNCHANGED <<answer, comp>> BY <1>2, <2>4 DEF FinishBatch
    <3> QED BY <2>1, <2>4, <3>1, QuietKeeps DEF ProtocolInv
  <2> QED BY <2>3, <2>4
<1>3. CASE FinishVerification
  <2>1. phase = "verify" /\ Write(msgs, "prepare") BY <1>3 DEF FinishVerification
  <2>2. \/ ProtocolInv' /\ Allowed
        \/ phase' = "prepare" /\ UNCHANGED ending
    BY <2>1, WriteKeeps
  <2>3. CASE phase' = "prepare" /\ UNCHANGED ending
    <3>1. UNCHANGED <<answer, comp>> BY <1>3, <2>3 DEF FinishVerification
    <3> QED BY <2>1, <2>3, <3>1, QuietKeeps DEF ProtocolInv
  <2> QED BY <2>2, <2>3
<1>4. CASE ModelFails BY <1>4, FailKeeps DEF ModelFails
<1>5. CASE ModelOverflows
  <2>1. CASE Fail BY <1>5, <2>1, FailKeeps DEF ModelOverflows
  <2>2. CASE ~Fail BY <1>5, <2>2, QuietKeeps DEF ModelOverflows, ProtocolInv, NoComp
  <2> QED BY <2>1, <2>2
<1>6. CASE SummaryFails BY <1>6, FailKeeps DEF SummaryFails
<1>7. CASE CommitAndRebuild
  <2>1. CASE Fail BY <1>7, <2>1, FailKeeps DEF CommitAndRebuild
  <2>2. CASE ~Fail
    <3>1. /\ phase = "summarise" /\ phase' = "rebuilt" /\ UNCHANGED <<answer, ending>>
          /\ comp' = [NoComp EXCEPT !.from = comp.from]
      BY <1>7, <2>2 DEF CommitAndRebuild
    <3>2. comp'.from = comp.from /\ "from" \in DOMAIN comp' BY <3>1 DEF NoComp
    <3> QED BY <3>1, <3>2, QuietKeeps DEF ProtocolInv
  <2> QED BY <2>1, <2>2
<1>8. CASE BeginCompaction
  <2>1. CASE Fail BY <1>8, <2>1, FailKeeps DEF BeginCompaction
  <2>2. CASE ~Fail /\ phase' = "summarise"
    <3>1. phase = "compact" BY <1>8 DEF BeginCompaction
    <3>2. CASE late
      BY <1>8, <3>1, <3>2, QuietKeeps DEF BeginCompaction, ProtocolInv
    <3>3. CASE ~late /\ NothingToCompact(history.eff)
      BY <1>8, <2>2, <3>1, <3>3 DEF BeginCompaction, SkipCompaction, Stop, ProtocolInv
    <3>4. CASE ~late /\ ~NothingToCompact(history.eff)
      <4>1. /\ UNCHANGED <<answer, ending>>
            /\ comp'.from = comp.from /\ "from" \in DOMAIN comp'
        BY <1>8, <2>2, <3>4 DEF BeginCompaction, ProtocolInv
      <4> QED BY <2>2, <3>1, <4>1, QuietKeeps DEF ProtocolInv
    <3> QED BY <3>2, <3>3, <3>4
  <2>3. CASE ~Fail /\ phase' # "summarise"
    <3>1. /\ phase = "compact" /\ comp.from # "overflow"
          /\ SkipCompaction /\ UNCHANGED ending
      BY <1>8, <2>3 DEF BeginCompaction
    <3>2. /\ UNCHANGED answer /\ comp' = NoComp
          /\ \/ comp.from = "watermark" /\ phase' \in {"resolve", "model"}
             \/ comp.from = "answer_overflow" /\ phase' = "answer_failed"
             \/ comp.from = "answer" /\ phase' = "prepare"
      BY <3>1 DEF SkipCompaction, Stop, ProtocolInv
    <3> QED BY <3>1, <3>2, QuietKeeps DEF ProtocolInv, NoComp
  <2> QED BY <2>1, <2>2, <2>3
<1> QED BY <1>1, <1>2, <1>3, <1>4, <1>5, <1>6, <1>7, <1>8

(* The steps of the answer stage but those that deliver.                   *)
LEMMA AnswerSteps ==
  ASSUME ProtocolInv,
         \/ BeginAnswerStage \/ StartPrimary \/ PrepareCompacts \/ PrepareSends
         \/ AnswerText \/ (\E n \in 1..MaxCalls : AnswerCalls(n))
         \/ (\E ok \in BOOLEAN : VerifyCall(ok)) \/ AnswerOverflows \/ AnswerRecovers
         \/ AnswerErrs \/ StartDegraded \/ StartDeterministic
  PROVE  ProtocolInv' /\ Allowed
<1> USE DEF PhaseSays, CompactionSays
<1>1. CASE BeginAnswerStage
  <2>1. answer = NoAnswer /\ phase = "resolve" BY <1>1 DEF BeginAnswerStage, ProtocolInv
  <2>2. answer' = [kind |-> "resolved", attempt |-> 0, open |-> FALSE, spoken |-> FALSE,
                   progress |-> FALSE]
    BY <1>1 DEF BeginAnswerStage, NoAnswer
  <2>3. ProtocolInv'
    BY <1>1, <2>1, <2>2, LimitsAssumption DEF BeginAnswerStage, ProtocolInv, AnswerType
  <2>4. /\ AbstractStage = "execution" /\ AbstractStage' = "answer"
        /\ UNCHANGED <<answer.attempt, answer.open, answer.spoken>>
    BY <1>1, <2>1, <2>2 DEF BeginAnswerStage, NoAnswer, AbstractStage
  <2>5. Events!AnswerStageStarted BY <2>4 DEF Events!AnswerStageStarted
  <2> QED BY <2>3, <2>5 DEF Allowed, Events!ProtocolNext
<1>2. CASE StartPrimary
  <2>1. phase # "idle" /\ answer.kind # "none" BY <1>2 DEF StartPrimary, ProtocolInv
  <2>2. /\ answer' \in AnswerType /\ answer'.kind = "primary" /\ answer'.open = TRUE
        /\ phase' = "prepare" /\ Allowed /\ UNCHANGED <<comp, ending>>
    BY <1>2, <2>1, StartKeeps DEF StartPrimary
  <2> QED BY <2>2 DEF ProtocolInv
<1>3. CASE PrepareCompacts
  <2>1. /\ answer' \in AnswerType /\ answer'.kind = answer.kind /\ answer'.open = answer.open
        /\ answer'.attempt = answer.attempt /\ answer'.spoken = answer.spoken
    BY <1>3 DEF PrepareCompacts, ProtocolInv, AnswerType
  <2>2. ProtocolInv' BY <1>3, <2>1 DEF PrepareCompacts, ProtocolInv, NoComp
  <2>3. Allowed
    BY <1>3, <2>1 DEF PrepareCompacts, Allowed, Events!protocolVars, AbstractStage
  <2> QED BY <2>2, <2>3
<1>4. CASE PrepareSends
  <2>1. /\ answer' \in AnswerType /\ answer'.kind = answer.kind /\ answer'.open = answer.open
        /\ answer'.attempt = answer.attempt /\ answer'.spoken = answer.spoken
    BY <1>4 DEF PrepareSends, ProtocolInv, AnswerType
  <2>2. answer.kind \in AttemptKinds /\ answer.open = TRUE
    BY <1>4 DEF PrepareSends, ProtocolInv
  <2>3. ProtocolInv' BY <1>4, <2>1, <2>2 DEF PrepareSends, ProtocolInv, NoComp
  <2>4. Allowed
    BY <1>4, <2>1, <2>2 DEF PrepareSends, Allowed, Events!protocolVars, AbstractStage
  <2> QED BY <2>3, <2>4
<1>5. CASE AnswerText
  <2>1. /\ answer' \in AnswerType /\ answer'.kind = answer.kind /\ answer'.open = answer.open
        /\ answer'.attempt = answer.attempt /\ answer'.spoken = TRUE
    BY <1>5 DEF AnswerText, ProtocolInv, AnswerType
  <2>2. answer.kind \in AttemptKinds /\ answer.open = TRUE
    BY <1>5 DEF AnswerText, ProtocolInv
  <2>3. ProtocolInv' BY <1>5, <2>1, <2>2 DEF AnswerText, ProtocolInv
  <2>4. UNCHANGED AbstractStage BY <1>5, <2>1 DEF AnswerText, AbstractStage
  <2>5. Events!TextDelta BY <2>1, <2>2, <2>4 DEF Events!TextDelta
  <2> QED BY <2>3, <2>5 DEF Allowed, Events!ProtocolNext
<1>6. ASSUME NEW n \in 1..MaxCalls, AnswerCalls(n) PROVE ProtocolInv' /\ Allowed
  <2>1. /\ phase = "answering" /\ answer.kind \in AttemptKinds
        /\ StartAttempt(answer.kind, "verify") /\ UNCHANGED <<comp, ending>>
    BY <1>6 DEF AnswerCalls, ProtocolInv
  <2>2. /\ answer' \in AnswerType /\ answer'.kind = answer.kind /\ answer'.open = TRUE
        /\ phase' = "verify" /\ Allowed
    BY <2>1, StartKeeps
  <2> QED BY <2>1, <2>2 DEF ProtocolInv
<1>7. ASSUME NEW ok \in BOOLEAN, VerifyCall(ok) PROVE ProtocolInv' /\ Allowed
  <2>1. /\ answer' \in AnswerType /\ answer'.kind = answer.kind /\ answer'.open = answer.open
        /\ answer'.attempt = answer.attempt /\ answer'.spoken = answer.spoken
    BY <1>7 DEF VerifyCall, ProtocolInv, AnswerType
  <2>2. answer.kind \in AttemptKinds BY <1>7 DEF VerifyCall, ProtocolInv
  <2>3. ProtocolInv' BY <1>7, <2>1, <2>2 DEF VerifyCall, ProtocolInv
  <2>4. Allowed BY <1>7, <2>1 DEF VerifyCall, Allowed, Events!protocolVars, AbstractStage
  <2> QED BY <2>3, <2>4
<1>8. CASE AnswerOverflows
  <2>1. /\ answer' \in AnswerType /\ answer'.kind = "primary" /\ answer'.open = FALSE
        /\ answer'.attempt = answer.attempt /\ answer'.spoken = answer.spoken
    BY <1>8 DEF AnswerOverflows, ProtocolInv, AnswerType
  <2>2. answer.kind = "primary" /\ answer.open = TRUE
    BY <1>8 DEF AnswerOverflows, ProtocolInv
  <2>3. ProtocolInv' BY <1>8, <2>1 DEF AnswerOverflows, ProtocolInv, NoComp
  <2>4. UNCHANGED AbstractStage BY <1>8, <2>1, <2>2 DEF AnswerOverflows, AbstractStage
  <2>5. Events!AnswerAttemptFailed
    BY <2>1, <2>2, <2>4 DEF Events!AnswerAttemptFailed
  <2> QED BY <2>3, <2>5 DEF Allowed, Events!ProtocolNext
<1>9. CASE AnswerRecovers
  <2>1. /\ phase = "rebuilt" /\ answer.kind = "primary" /\ comp' = NoComp /\ UNCHANGED ending
    BY <1>9 DEF AnswerRecovers, ProtocolInv
  <2>2. CASE Critical(history, msgs)
    BY <1>9, <2>1, <2>2, QuietKeeps DEF AnswerRecovers, ProtocolInv, NoComp
  <2>3. CASE ~Critical(history, msgs)
    <3>1. StartAttempt("primary", "answering") BY <1>9, <2>3 DEF AnswerRecovers
    <3>2. /\ answer' \in AnswerType /\ answer'.kind = "primary" /\ answer'.open = TRUE
          /\ phase' = "answering" /\ Allowed
      BY <2>1, <3>1, StartKeeps
    <3> QED BY <2>1, <3>2 DEF ProtocolInv, NoComp
  <2> QED BY <2>2, <2>3
<1>10. CASE AnswerErrs
  <2>1. answer.kind \in AttemptKinds /\ phase # "idle"
    BY <1>10 DEF AnswerErrs, ProtocolInv
  <2>2. /\ answer' \in AnswerType /\ answer'.kind = answer.kind /\ answer'.open = FALSE
        /\ answer'.attempt = answer.attempt /\ answer'.spoken = answer.spoken
        /\ phase' = "answer_failed" /\ comp' = NoComp /\ UNCHANGED ending
    BY <1>10 DEF AnswerErrs, ProtocolInv, AnswerType
  <2>3. ProtocolInv' BY <2>1, <2>2 DEF ProtocolInv, NoComp
  <2>4. UNCHANGED AbstractStage BY <2>1, <2>2 DEF AbstractStage
  <2>5. CASE answer.open = TRUE
    <3>1. Events!AnswerAttemptFailed BY <2>2, <2>4, <2>5 DEF Events!AnswerAttemptFailed
    <3> QED BY <2>3, <3>1 DEF Allowed, Events!ProtocolNext
  <2>6. CASE answer.open = FALSE
    BY <2>2, <2>3, <2>4, <2>6 DEF Allowed, Events!protocolVars
  <2>7. answer.open \in BOOLEAN BY DEF ProtocolInv, AnswerType
  <2> QED BY <2>5, <2>6, <2>7
<1>11. CASE StartDegraded
  <2>1. /\ answer' \in AnswerType /\ answer'.kind = "degraded" /\ answer'.open = TRUE
        /\ phase' = "prepare" /\ Allowed /\ UNCHANGED <<comp, ending>>
    BY <1>11, StartKeeps DEF StartDegraded
  <2> QED BY <2>1 DEF ProtocolInv
<1>12. CASE StartDeterministic
  <2>1. phase # "idle" /\ answer.kind # "none" BY <1>12 DEF StartDeterministic, ProtocolInv
  <2>2. /\ answer' \in AnswerType /\ answer'.kind = "deterministic" /\ answer'.open = TRUE
        /\ phase' = "deliver" /\ Allowed /\ UNCHANGED <<comp, ending>>
    BY <1>12, <2>1, StartKeeps DEF StartDeterministic
  <2> QED BY <2>2 DEF ProtocolInv
<1> QED BY <1>1, <1>2, <1>3, <1>4, <1>5, <1>6, <1>7, <1>8, <1>9, <1>10, <1>11, <1>12

LEMMA StreamStep ==
  ASSUME ProtocolInv, [RuntimeNext]_runtimeVars
  PROVE  ProtocolInv' /\ Allowed
<1>1. CASE UNCHANGED runtimeVars
  BY <1>1 DEF runtimeVars, ProtocolInv, PhaseSays, CompactionSays, Allowed, Events!protocolVars,
    AbstractStage
<1>2. ASSUME NEW r \in 1..Streams, NEW boot \in Boots, BeginStream(r, boot)
      PROVE  ProtocolInv' /\ Allowed
  <2>1. /\ phase = "idle" /\ phase' = "step" /\ UNCHANGED <<answer, comp, ending>>
        /\ answer = NoAnswer
    BY <1>2 DEF BeginStream, ProtocolInv, PhaseSays
  <2>2. ProtocolInv' BY <2>1 DEF ProtocolInv, PhaseSays, CompactionSays, NoAnswer
  <2>3. /\ AbstractStage \notin Events!Running /\ AbstractStage' = "execution"
        /\ answer'.attempt = 0 /\ answer'.open = FALSE /\ answer'.spoken = FALSE
    BY <2>1 DEF AbstractStage, Events!Running, ProtocolInv, NoAnswer
  <2>4. Events!AgentStarted BY <2>3 DEF Events!AgentStarted
  <2> QED BY <2>2, <2>4 DEF Allowed, Events!ProtocolNext
<1>3. CASE Cancelled BY <1>3, EndKeeps DEF Cancelled
<1>4. CASE Close BY <1>4, EndKeeps DEF Close
<1>5. CASE AnswerFinal
  BY <1>5, DeliverKeeps DEF AnswerFinal, ProtocolInv, PhaseSays
<1>6. CASE DeliverDeterministic
  BY <1>6, DeliverKeeps DEF DeliverDeterministic, ProtocolInv, PhaseSays
<1> QED
  BY <1>1, <1>2, <1>3, <1>4, <1>5, <1>6, ExecutionSteps, WritingSteps, AnswerSteps
  DEF RuntimeNext, StreamNext

(* Every stream of run_stream (agent/runtime.py) is one the event protocol *)
(* of agent/events.py allows, whatever the model, the tools, the deadlines *)
(* and the consumer do: the stages come in order, an attempt that failed   *)
(* says nothing more and is not the answer, a new attempt has a new        *)
(* identity, and a stream that ended publishes nothing.                    *)
THEOREM StreamsFollowTheProtocol == RuntimeSpec => ImplementsProtocol
<1>1. RuntimeInit => ProtocolInv /\ Events!ProtocolInit BY InitProtocol
<1>2. ProtocolInv /\ [RuntimeNext]_runtimeVars
        => ProtocolInv' /\ [Events!ProtocolNext]_(Events!protocolVars)
  BY StreamStep DEF Allowed
<1> QED BY <1>1, <1>2, PTL DEF RuntimeSpec, ImplementsProtocol, Events!ProtocolSpec
-----------------------------------------------------------------------------
(* A message the history may hold.                                         *)
Stored == [kind : Kinds, n : Nat, by : 0..Streams]

HistoryType ==
  [ready : BOOLEAN, known : SUBSET (1..Streams), turn : 0..Streams, eff : Seq(Stored),
   cur : Nat, summary : BOOLEAN]

(* A batch without all its results stands right in front of an answer.     *)
Gaps(ms) ==
  \A i \in DOMAIN ms : GapAt(ms, i) =>
    \E j \in i+1 .. Len(ms) :
      /\ ms[j].kind = "final"
      /\ \A k \in i+1 .. j-1 : ms[k].kind = "result"

WrittenBy(ms, b) == \A i \in DOMAIN ms : ms[i].by <= b

(* Behind st are exactly the messages of stream b.                         *)
Scoped(ms, st, b) ==
  /\ st \in 0..Len(ms)
  /\ \A i \in DOMAIN ms : ~IsUser(ms[i]) => (i > st <=> ms[i].by = b)

(* A history that has begun holds the user message of its current request  *)
(* where it remembers it.                                                  *)
Remembers(h) ==
  /\ h.cur \in 1..Len(h.eff)
  /\ IsUser(h.eff[h.cur]) /\ h.eff[h.cur].n = h.turn

SoundHistory(h, b) ==
  /\ h \in HistoryType
  /\ h.ready = FALSE => h = NewHistory
  /\ h.ready = TRUE => Remembers(h)
  /\ WrittenBy(h.eff, b) /\ Gaps(h.eff)

(* Messages of stream b, and those that may be added to a history.         *)
Own(new, b) == new \in Seq(Stored) /\ \A i \in DOMAIN new : new[i].by = b

Fits(new, b) == Own(new, b) /\ Gaps(new)
-----------------------------------------------------------------------------
(* A function on 1..n is a sequence of length n.                           *)
LEMMA FunctionIsSeq ==
  ASSUME NEW S, NEW n \in Nat, NEW f \in [1..n -> S]
  PROVE  f \in Seq(S) /\ Len(f) = n
<1>1. f \in Seq(S) BY SeqDef
<1>2. Len(f) = n BY <1>1, LenProperties
<1> QED BY <1>1, <1>2

(* u is s of length a with t of length c behind it.                        *)
IsJoin(u, s, t, a, c) ==
  /\ Len(u) = a + c /\ DOMAIN u = 1..(a + c)
  /\ \A i \in 1..a : u[i] = s[i]
  /\ \A i \in 1..c : u[a + i] = t[i]

(* Two sequences joined, by their lengths as plain numbers.                *)
LEMMA Joined ==
  ASSUME NEW S, NEW s \in Seq(S), NEW t \in Seq(S), NEW a \in Nat, NEW c \in Nat,
         Len(s) = a, Len(t) = c
  PROVE  s \o t \in Seq(S) /\ IsJoin(s \o t, s, t, a, c)
<1>1. s \o t \in Seq(S) /\ Len(s \o t) = a + c BY ConcatProperties
<1>2. DOMAIN (s \o t) = 1..(a + c) BY <1>1, LenProperties
<1>3. \A i \in 1..a : (s \o t)[i] = s[i] BY ConcatProperties
<1>4. \A i \in 1..c : (s \o t)[a + i] = t[i] BY ConcatProperties
<1> QED BY <1>1, <1>2, <1>3, <1>4 DEF IsJoin

(* A sequence of at least one message has no gap it did not have.          *)
LEMMA GapsJoin ==
  ASSUME NEW s \in Seq(Stored), NEW t \in Seq(Stored), Gaps(s), Gaps(t)
  PROVE  Gaps(s \o t)
<1> DEFINE u == s \o t
<1>1. PICK a \in Nat : Len(s) = a /\ DOMAIN s = 1..a BY LenProperties
<1>2. PICK b \in Nat : Len(t) = b /\ DOMAIN t = 1..b BY LenProperties
<1>3. u \in Seq(Stored) /\ IsJoin(u, s, t, a, b) BY <1>1, <1>2, Joined
<1>4. u \in Seq(Stored) /\ Len(u) = a + b BY <1>3 DEF IsJoin
<1>5. DOMAIN u = 1..(a + b) BY <1>3 DEF IsJoin
<1>6. \A i \in 1..a : u[i] = s[i] BY <1>3 DEF IsJoin
<1>7. \A i \in 1..b : u[a + i] = t[i] BY <1>3 DEF IsJoin
<1> HIDE DEF u
<1>8. ASSUME NEW i \in 1..a, GapAt(u, i)
      PROVE  \E j \in i+1 .. a+b : /\ u[j].kind = "final"
                                   /\ \A k \in i+1 .. j-1 : u[k].kind = "result"
  <2>1. s[i] \in Stored /\ IsCall(s[i]) /\ u[i] = s[i]
    BY <1>1, <1>6, <1>8, ElementOfSeq DEF GapAt
  <2>2. PICK n \in Nat : n = s[i].n BY <2>1 DEF Stored
  <2>3. PICK j \in 1..n : i + j > a + b \/ u[i + j].kind # "result"
    BY <1>4, <1>8, <2>1, <2>2 DEF GapAt
  <2>4. i + j > a \/ s[i + j].kind # "result"
    BY <1>6, <2>3
  <2>5. GapAt(s, i) BY <1>1, <2>1, <2>2, <2>3, <2>4 DEF GapAt
  <2>6. PICK m \in i+1 .. a : s[m].kind = "final" /\ \A k \in i+1 .. m-1 : s[k].kind = "result"
    BY <1>1, <2>5 DEF Gaps
  <2>7. m \in 1..a /\ m \in i+1 .. a+b BY <2>6
  <2>8. \A k \in i+1 .. m-1 : k \in 1..a BY <2>7
  <2> QED BY <1>6, <2>6, <2>7, <2>8
<1>9. ASSUME NEW i \in 1..b, GapAt(u, a + i)
      PROVE  \E j \in a+i+1 .. a+b : /\ u[j].kind = "final"
                                     /\ \A k \in a+i+1 .. j-1 : u[k].kind = "result"
  <2>1. t[i] \in Stored /\ IsCall(t[i]) /\ u[a + i] = t[i]
    BY <1>2, <1>7, <1>9, ElementOfSeq DEF GapAt
  <2>2. PICK n \in Nat : n = t[i].n BY <2>1 DEF Stored
  <2>3. PICK j \in 1..n : (a + i) + j > a + b \/ u[(a + i) + j].kind # "result"
    BY <1>4, <1>9, <2>1, <2>2 DEF GapAt
  <2>4. i + j > b \/ t[i + j].kind # "result"
    <3>1. CASE i + j > b BY <3>1
    <3>2. CASE i + j <= b
      <4>1. i + j \in 1..b /\ (a + i) + j = a + (i + j) BY <3>2
      <4>2. u[a + (i + j)] = t[i + j] BY <1>7, <4>1
      <4>3. ~((a + i) + j > a + b) BY <3>2
      <4> QED BY <2>3, <4>1, <4>2, <4>3
    <3> QED BY <3>1, <3>2
  <2>5. GapAt(t, i) BY <1>2, <2>1, <2>2, <2>3, <2>4 DEF GapAt
  <2>6. PICK m \in i+1 .. b : t[m].kind = "final" /\ \A k \in i+1 .. m-1 : t[k].kind = "result"
    BY <1>2, <2>5 DEF Gaps
  <2>7. m \in 1..b /\ a + m \in a+i+1 .. a+b BY <2>6
  <2>8. u[a + m].kind = "final" BY <1>7, <2>6, <2>7
  <2>9. ASSUME NEW k \in a+i+1 .. (a+m)-1 PROVE u[k].kind = "result"
    <3>1. k - a \in i+1 .. m-1 /\ k - a \in 1..b /\ a + (k - a) = k BY <2>7
    <3>2. u[a + (k - a)] = t[k - a] BY <1>7, <3>1
    <3> QED BY <2>6, <3>1, <3>2
  <2> QED BY <2>7, <2>8, <2>9
<1>10. ASSUME NEW i \in DOMAIN u, GapAt(u, i)
      PROVE  \E j \in i+1 .. Len(u) : /\ u[j].kind = "final"
                                      /\ \A k \in i+1 .. j-1 : u[k].kind = "result"
  <2>1. CASE i <= a BY <1>4, <1>5, <1>8, <1>10, <2>1
  <2>2. CASE i > a
    <3>1. i - a \in 1..b /\ a + (i - a) = i BY <1>5, <2>2
    <3>2. \E j \in a+(i-a)+1 .. a+b : /\ u[j].kind = "final"
                                      /\ \A k \in a+(i-a)+1 .. j-1 : u[k].kind = "result"
      BY <1>9, <1>10, <3>1
    <3> QED BY <1>4, <3>1, <3>2
  <2> QED BY <1>5, <2>1, <2>2
<1> QED BY <1>10 DEF Gaps, u

LEMMA ScopedGrows ==
  ASSUME NEW s \in Seq(Stored), NEW t, NEW b \in Nat, Own(t, b), NEW st, Scoped(s, st, b)
  PROVE  Scoped(s \o t, st, b)
<1> DEFINE u == s \o t
<1>1. t \in Seq(Stored) BY DEF Fits, Own
<1>2. PICK a \in Nat : Len(s) = a /\ DOMAIN s = 1..a BY LenProperties
<1>3. PICK c \in Nat : Len(t) = c /\ DOMAIN t = 1..c BY <1>1, LenProperties
<1>4. u \in Seq(Stored) /\ IsJoin(u, s, t, a, c) BY <1>1, <1>2, <1>3, Joined
<1>5. u \in Seq(Stored) /\ Len(u) = a + c BY <1>4 DEF IsJoin
<1>6. DOMAIN u = 1..(a + c) BY <1>4 DEF IsJoin
<1>7. \A i \in 1..a : u[i] = s[i] BY <1>4 DEF IsJoin
<1>8. \A i \in 1..c : u[a + i] = t[i] BY <1>4 DEF IsJoin
<1> HIDE DEF u
<1>9. st \in 0..a BY <1>2 DEF Scoped
<1>10. ASSUME NEW i \in 1..(a + c), ~IsUser(u[i]) PROVE i > st <=> u[i].by = b
  <2>1. CASE i <= a BY <1>2, <1>7, <1>10, <2>1 DEF Scoped
  <2>2. CASE i > a
    <3>1. i - a \in 1..c /\ a + (i - a) = i BY <2>2
    <3>2. u[i].by = b BY <1>3, <1>8, <3>1 DEF Fits, Own
    <3> QED BY <1>9, <2>2, <3>2
  <2> QED BY <2>1, <2>2
<1> QED BY <1>5, <1>6, <1>9, <1>10 DEF Scoped, u

LEMMA SoundGrows ==
  ASSUME NEW h, NEW b \in 0..Streams, SoundHistory(h, b), h.ready = TRUE, NEW t, Fits(t, b)
  PROVE  SoundHistory(SetEffective(h, h.eff \o t), b)
<1> DEFINE u == h.eff \o t
           g == SetEffective(h, u)
<1>1. t \in Seq(Stored) /\ h.eff \in Seq(Stored) BY DEF Fits, Own, SoundHistory, HistoryType
<1>2. PICK a \in Nat : Len(h.eff) = a /\ DOMAIN h.eff = 1..a BY <1>1, LenProperties
<1>3. PICK c \in Nat : Len(t) = c /\ DOMAIN t = 1..c BY <1>1, LenProperties
<1>4. u \in Seq(Stored) /\ IsJoin(u, h.eff, t, a, c) BY <1>1, <1>2, <1>3, Joined
<1>5. u \in Seq(Stored) /\ Len(u) = a + c BY <1>4 DEF IsJoin
<1>6. DOMAIN u = 1..(a + c) BY <1>4 DEF IsJoin
<1>7. \A i \in 1..a : u[i] = h.eff[i] BY <1>4 DEF IsJoin
<1>8. \A i \in 1..c : u[a + i] = t[i] BY <1>4 DEF IsJoin
<1>9. Gaps(u) BY <1>1, GapsJoin DEF Fits, Own, SoundHistory
<1> HIDE DEF u
<1>10. /\ g \in HistoryType /\ g.ready = TRUE /\ g.cur = h.cur /\ g.turn = h.turn /\ g.eff = u
  BY <1>5 DEF SoundHistory, HistoryType, SetEffective
<1>11. WrittenBy(u, b)
  <2> SUFFICES ASSUME NEW i \in 1..(a + c) PROVE u[i].by <= b BY <1>6 DEF WrittenBy
  <2>1. CASE i <= a BY <1>2, <1>7, <2>1 DEF SoundHistory, WrittenBy
  <2>2. CASE i > a
    <3>1. i - a \in 1..c /\ a + (i - a) = i BY <2>2
    <3>2. u[i].by = b BY <1>3, <1>8, <3>1 DEF Fits, Own
    <3> QED BY <3>2
  <2> QED BY <2>1, <2>2
<1>12. Remembers(g)
  <2>1. h.cur \in 1..a BY <1>2 DEF SoundHistory, Remembers
  <2>2. h.cur \in 1..(a + c) /\ u[h.cur] = h.eff[h.cur] BY <1>7, <2>1
  <2> HIDE DEF g
  <2> QED BY <1>5, <1>10, <2>2 DEF SoundHistory, Remembers
<1> HIDE DEF g
<1>13. SoundHistory(g, b) BY <1>9, <1>10, <1>11, <1>12 DEF SoundHistory
<1> QED BY <1>13 DEF g, u

(* One message that is no call.                                            *)
LEMMA OneFits ==
  ASSUME NEW m \in Stored, m.kind \in {"user", "final"}
  PROVE  Fits(<<m>>, m.by)
<1>1. <<m>> \in Seq(Stored) /\ Len(<<m>>) = 1 /\ <<m>>[1] = m OBVIOUS
<1>2. DOMAIN <<m>> = 1..1 BY <1>1, LenProperties
<1> QED BY <1>1, <1>2 DEF Fits, Own, Gaps, GapAt, IsCall

Begun(kind, n, k, b) == <<Message(kind, n, b)>> \o Results(k, b)

(* What such a sequence is, and what its results are.                      *)
AreResults(s, k, b) ==
  /\ s \in Seq(Stored) /\ Len(s) = k
  /\ \A i \in 1..k : s[i] = Message("result", 0, b)

IsBegun(s, kind, n, k, b) ==
  /\ s \in Seq(Stored) /\ Len(s) = k + 1 /\ DOMAIN s = 1..(k + 1)
  /\ s[1] = Message(kind, n, b)
  /\ \A i \in 2..(k + 1) : s[i] = Message("result", 0, b)

LEMMA ResultsShape ==
  ASSUME NEW k \in Nat, NEW b \in 0..Streams
  PROVE  AreResults(Results(k, b), k, b)
<1>1. Message("result", 0, b) \in Stored BY DEF Message, Stored, Kinds
<1>2. Results(k, b) \in [1..k -> Stored] BY <1>1 DEF Results
<1> QED BY <1>2, FunctionIsSeq DEF Results, AreResults

LEMMA BegunShape ==
  ASSUME NEW kind \in {"call", "rejected"}, NEW n \in Nat, NEW k \in Nat, NEW b \in 0..Streams
  PROVE  IsBegun(Begun(kind, n, k, b), kind, n, k, b)
<1> DEFINE m == Message(kind, n, b)
           s == <<m>>
           t == Results(k, b)
           u == s \o t
<1>1. m \in Stored BY DEF Message, Stored, Kinds
<1>2. s \in Seq(Stored) /\ Len(s) = 1 /\ s[1] = m BY <1>1
<1>3. t \in Seq(Stored) /\ Len(t) = k /\ \A i \in 1..k : t[i] = Message("result", 0, b)
  BY ResultsShape DEF AreResults
<1> HIDE DEF s, t, m
<1>4. u \in Seq(Stored) /\ IsJoin(u, s, t, 1, k) BY <1>2, <1>3, Joined
<1> HIDE DEF u
<1>5. /\ u \in Seq(Stored) /\ Len(u) = 1 + k /\ DOMAIN u = 1..(1 + k)
      /\ \A i \in 1..1 : u[i] = s[i]
      /\ \A i \in 1..k : u[1 + i] = t[i]
  BY <1>4 DEF IsJoin
<1>6. u[1] = m BY <1>2, <1>5
<1>7. ASSUME NEW i \in 2..(k + 1) PROVE u[i] = Message("result", 0, b)
  <2>1. i - 1 \in 1..k /\ 1 + (i - 1) = i OBVIOUS
  <2>2. u[1 + (i - 1)] = t[i - 1] BY <1>5, <2>1
  <2> QED BY <1>3, <2>1, <2>2
<1>8. Begun(kind, n, k, b) = u BY DEF Begun, u, s, t, m
<1>9. IsBegun(u, kind, n, k, b) BY <1>5, <1>6, <1>7 DEF m, IsBegun
<1> QED BY <1>8, <1>9

(* A batch with all its results.                                           *)
LEMMA BatchFits ==
  ASSUME NEW kind \in {"call", "rejected"}, NEW n \in Nat, NEW b \in 0..Streams
  PROVE  Fits(Begun(kind, n, n, b), b)
<1> DEFINE u == Begun(kind, n, n, b)
<1>1. IsBegun(u, kind, n, n, b) BY BegunShape
<1> HIDE DEF u
<1>2. /\ u \in Seq(Stored) /\ Len(u) = n + 1 /\ DOMAIN u = 1..(n + 1)
      /\ u[1] = Message(kind, n, b)
      /\ \A i \in 2..(n + 1) : u[i] = Message("result", 0, b)
  BY <1>1 DEF IsBegun
<1>3. ASSUME NEW i \in 1..(n + 1) PROVE u[i].by = b /\ ~GapAt(u, i)
  <2>1. CASE i = 1
    <3>1. u[i].by = b /\ u[i].n = n BY <1>2, <2>1 DEF Message
    <3>2. ASSUME NEW j \in 1..n PROVE ~(i + j > n + 1) /\ u[i + j].kind = "result"
      <4>1. i + j \in 2..(n + 1) BY <2>1
      <4>2. u[i + j] = Message("result", 0, b) BY <1>2, <4>1
      <4> QED BY <4>1, <4>2 DEF Message
    <3> QED BY <1>2, <3>1, <3>2 DEF GapAt
  <2>2. CASE i # 1
    <3>1. u[i] = Message("result", 0, b) BY <1>2, <2>2
    <3> QED BY <3>1 DEF Message, GapAt, IsCall
  <2> QED BY <2>1, <2>2
<1>4. Fits(u, b) BY <1>2, <1>3 DEF Fits, Own, Gaps
<1> QED BY <1>4 DEF u

(* A batch cut short right in front of the answer.                         *)
LEMMA AnsweredFits ==
  ASSUME NEW kind \in {"call", "rejected"}, NEW n \in Nat, NEW k \in Nat, NEW b \in 0..Streams
  PROVE  Fits(Begun(kind, n, k, b) \o <<Final(b)>>, b)
<1> DEFINE s == Begun(kind, n, k, b)
           f == Final(b)
           t == <<f>>
           u == s \o t
<1>1. IsBegun(s, kind, n, k, b) BY BegunShape
<1>2. f \in Stored /\ f.kind = "final" /\ f.by = b BY DEF Final, Message, Stored, Kinds
<1> HIDE DEF s, f
<1>3. PICK c \in Nat : c = k + 1 OBVIOUS
<1>4. /\ s \in Seq(Stored) /\ Len(s) = c
      /\ s[1] = Message(kind, n, b)
      /\ \A i \in 2..c : s[i] = Message("result", 0, b)
  BY <1>1, <1>3 DEF IsBegun
<1>5. t \in Seq(Stored) /\ Len(t) = 1 /\ t[1] = f BY <1>2
<1> HIDE DEF t
<1>6. /\ s \in Seq(Stored) /\ Len(s) = c /\ c \in Nat
       /\ t \in Seq(Stored) /\ Len(t) = 1 /\ 1 \in Nat
  BY <1>4, <1>5
<1>7. u \in Seq(Stored) /\ IsJoin(u, s, t, c, 1) BY ONLY <1>6, Joined DEF u
<1> HIDE DEF u
<1>8. /\ u \in Seq(Stored) /\ Len(u) = c + 1 /\ DOMAIN u = 1..(c + 1)
      /\ \A i \in 1..c : u[i] = s[i]
      /\ \A i \in 1..1 : u[c + i] = t[i]
  BY <1>7 DEF IsJoin
<1>9. /\ u[1] = Message(kind, n, b)
      /\ \A i \in 2..c : u[i] = Message("result", 0, b)
  BY <1>3, <1>4, <1>8
<1>10. u[c + 1] = f BY <1>5, <1>8
<1>11. ASSUME NEW i \in 1..(c + 1) PROVE u[i].by = b /\ (IsCall(u[i]) => i = 1)
  <2>1. CASE i = 1 BY <1>9, <2>1 DEF Message
  <2>2. CASE i = c + 1 BY <1>2, <1>10, <2>2 DEF IsCall
  <2>3. CASE i \in 2..c BY <1>9, <2>3 DEF Message, IsCall
  <2> QED BY <1>3, <2>1, <2>2, <2>3
<1>12. Gaps(u)
  <2> SUFFICES ASSUME NEW i \in 1..(c + 1), GapAt(u, i)
               PROVE  \E j \in i+1 .. c+1 : /\ u[j].kind = "final"
                                            /\ \A m \in i+1 .. j-1 : u[m].kind = "result"
    BY <1>8 DEF Gaps
  <2>1. i = 1 BY <1>11 DEF GapAt
  <2>2. c + 1 \in i+1 .. c+1 /\ u[c + 1].kind = "final" BY <1>2, <1>3, <1>10, <2>1
  <2>3. ASSUME NEW m \in i+1 .. (c+1)-1 PROVE u[m].kind = "result"
    <3>1. m \in 2..c BY <2>1
    <3> QED BY <1>9, <3>1 DEF Message
  <2> QED BY <2>2, <2>3
<1>13. Fits(u, b) BY <1>8, <1>11, <1>12 DEF Fits, Own
<1> QED BY <1>13 DEF u, s, t, f

LEMMA BegunGrows ==
  ASSUME NEW kind \in {"call", "rejected"}, NEW n \in Nat, NEW k \in Nat, NEW b \in 0..Streams
  PROVE  Begun(kind, n, k, b) \o Results(1, b) = Begun(kind, n, k + 1, b)
<1> DEFINE s == Begun(kind, n, k, b)
           t == Begun(kind, n, k + 1, b)
           r == Results(1, b)
           u == s \o r
<1>1. IsBegun(s, kind, n, k, b) /\ IsBegun(t, kind, n, k + 1, b) /\ AreResults(r, 1, b)
  BY BegunShape, ResultsShape
<1> HIDE DEF s, r, t
<1>2. PICK c \in Nat : c = k + 1 OBVIOUS
<1>3. /\ s \in Seq(Stored) /\ Len(s) = c
      /\ s[1] = Message(kind, n, b)
      /\ \A i \in 2..c : s[i] = Message("result", 0, b)
  BY <1>1, <1>2 DEF IsBegun
<1>4. /\ t \in Seq(Stored) /\ Len(t) = c + 1
      /\ t[1] = Message(kind, n, b)
      /\ \A i \in 2..(c + 1) : t[i] = Message("result", 0, b)
  BY <1>1, <1>2 DEF IsBegun
<1>5. r \in Seq(Stored) /\ Len(r) = 1 /\ r[1] = Message("result", 0, b)
  BY <1>1 DEF AreResults
<1>6. /\ s \in Seq(Stored) /\ Len(s) = c /\ c \in Nat
       /\ r \in Seq(Stored) /\ Len(r) = 1 /\ 1 \in Nat
  BY <1>3, <1>5
<1>7. u \in Seq(Stored) /\ IsJoin(u, s, r, c, 1) BY ONLY <1>6, Joined DEF u
<1> HIDE DEF u
<1>8. /\ u \in Seq(Stored) /\ Len(u) = c + 1
      /\ \A i \in 1..c : u[i] = s[i]
      /\ \A i \in 1..1 : u[c + i] = r[i]
  BY <1>7 DEF IsJoin
<1>9. ASSUME NEW i \in 1..(c + 1) PROVE u[i] = t[i]
  <2>1. CASE i = 1 BY <1>2, <1>3, <1>4, <1>8, <2>1
  <2>2. CASE i \in 2..c BY <1>3, <1>4, <1>8, <2>2
  <2>3. CASE i = c + 1
    <3>1. i \in 2..(c + 1) BY <1>2, <2>3
    <3> QED BY <1>4, <1>5, <1>8, <2>3, <3>1
  <2> QED BY <2>1, <2>2, <2>3
<1>10. u = t BY <1>4, <1>8, <1>9, SeqEqual
<1> QED BY <1>10 DEF u, s, t, r

LEMMA BegunStarts ==
  ASSUME NEW n \in Nat, NEW b \in 0..Streams
  PROVE  Begun("call", n, 0, b) = <<Call(n, b)>>
<1> DEFINE m == Message("call", n, b)
           s == Begun("call", n, 0, b)
<1>1. m \in Stored BY DEF Message, Stored, Kinds
<1>2. <<m>> \in Seq(Stored) /\ Len(<<m>>) = 1 /\ <<m>>[1] = m BY <1>1
<1>3. IsBegun(s, "call", n, 0, b) BY BegunShape
<1> HIDE DEF s
<1>4. s \in Seq(Stored) /\ Len(s) = 1 /\ s[1] = m BY <1>3 DEF IsBegun
<1> HIDE DEF m
<1>5. s = <<m>> BY <1>2, <1>4, SeqEqual
<1> QED BY <1>5 DEF m, s, Call

(* A new request, or the current one again, in a history nobody of stream  *)
(* b + 1 has written to.                                                   *)
LEMMA SoundBegins ==
  ASSUME NEW h, NEW b \in 0..Streams, SoundHistory(h, b), b + 1 \in 0..Streams,
         NEW r \in 1..Streams, NEW boot \in Boots, MayBegin(h, r)
  PROVE  LET g == BeginRequest(h, r, boot, b + 1)
         IN  /\ SoundHistory(g, b + 1) /\ g.ready = TRUE
             /\ Scoped(g.eff, Len(g.eff), b + 1)
<1> DEFINE base == IF h.ready THEN h.eff ELSE boot
           m == User(r, b + 1)
           u == Append(base, m)
           g == BeginRequest(h, r, boot, b + 1)
<1>1. h \in HistoryType BY DEF SoundHistory
<1>2. CASE r \in h.known
  <2>1. g = h BY <1>2 DEF BeginRequest
  <2>2. h.ready = TRUE BY <1>1, <1>2 DEF SoundHistory, NewHistory, HistoryType
  <2>3. PICK a \in Nat : Len(h.eff) = a /\ DOMAIN h.eff = 1..a /\ h.eff \in [1..a -> Stored]
    BY <1>1, LenProperties DEF HistoryType
  <2>4. \A i \in 1..a : h.eff[i].by \in 0..Streams /\ h.eff[i].by <= b
    BY <2>3 DEF SoundHistory, WrittenBy, Stored
  <2>5. WrittenBy(h.eff, b + 1) BY <2>3, <2>4 DEF WrittenBy
  <2>6. Scoped(h.eff, Len(h.eff), b + 1) BY <2>3, <2>4 DEF Scoped
  <2> HIDE DEF g
  <2> QED BY <2>1, <2>2, <2>5, <2>6 DEF SoundHistory, g
<1>3. CASE r \notin h.known
  <2>1. m \in Stored /\ m.kind = "user" /\ m.by = b + 1 /\ m.n = r
    BY DEF User, Message, Stored, Kinds
  <2>2. base \in Seq(Stored) /\ Gaps(base) /\ WrittenBy(base, b)
    <3>1. CASE h.ready = TRUE BY <1>1, <3>1 DEF SoundHistory, HistoryType
    <3>2. CASE h.ready = FALSE /\ boot = <<>>
      <4>1. base = <<>> BY <3>2
      <4>2. <<>> \in Seq(Stored) /\ Len(<<>>) = 0 BY EmptySeq
      <4>3. DOMAIN <<>> = 1..0 BY <4>2, LenProperties
      <4>4. \A i \in 1..0 : FALSE OBVIOUS
      <4> HIDE DEF base
      <4> QED BY <4>1, <4>2, <4>3, <4>4 DEF Gaps, WrittenBy
    <3>3. CASE h.ready = FALSE /\ boot = <<User(0, 0), Final(0)>>
      <4>1. /\ User(0, 0) \in Stored /\ Final(0) \in Stored
            /\ ~IsCall(User(0, 0)) /\ ~IsCall(Final(0)) /\ User(0, 0).by = 0 /\ Final(0).by = 0
        BY LimitsAssumption DEF User, Final, Message, Stored, Kinds, IsCall
      <4>2. boot \in Seq(Stored) /\ Len(boot) = 2 /\ boot[1] = User(0, 0) /\ boot[2] = Final(0)
        BY <3>3, <4>1
      <4>3. DOMAIN boot = 1..2 BY <4>2, LenProperties
      <4>4. base = boot BY <3>3
      <4>5. \A i \in 1..2 : boot[i].by = 0 /\ ~IsCall(boot[i]) BY <4>1, <4>2
      <4> HIDE DEF base
      <4> QED BY <4>2, <4>3, <4>4, <4>5 DEF Gaps, GapAt, WrittenBy
    <3> QED BY <1>1, <3>1, <3>2, <3>3 DEF Boots, HistoryType
  <2> HIDE DEF base, m
  <2>3. PICK a \in Nat : Len(base) = a /\ DOMAIN base = 1..a /\ base \in [1..a -> Stored]
    BY <2>2, LenProperties
  <2>4. u = base \o <<m>> BY <2>1, <2>2, AppendIsConcat
  <2>5. Fits(<<m>>, b + 1) BY <2>1, OneFits
  <2>6. <<m>> \in Seq(Stored) BY <2>5 DEF Fits, Own
  <2>7. Gaps(u) BY <2>2, <2>4, <2>5, <2>6, GapsJoin DEF Fits, Own
  <2>8. /\ u \in Seq(Stored) /\ Len(u) = a + 1 /\ u[a + 1] = m
        /\ \A i \in 1..a : u[i] = base[i]
    BY <2>1, <2>2, <2>3, AppendProperties
  <2>9. DOMAIN u = 1..(a + 1) BY <2>8, LenProperties
  <2> HIDE DEF u
  <2>10. \A i \in 1..a : u[i].by \in 0..Streams /\ u[i].by <= b
    BY <2>2, <2>3, <2>8 DEF WrittenBy, Stored
  <2>11. ASSUME NEW i \in 1..(a + 1)
         PROVE  u[i].by <= b + 1 /\ (~IsUser(u[i]) => u[i].by # b + 1)
    <3>1. CASE i = a + 1 BY <2>1, <2>8, <3>1 DEF IsUser
    <3>2. CASE i # a + 1
      <4>1. i \in 1..a BY <3>2
      <4> QED BY <2>10, <4>1
    <3> QED BY <3>1, <3>2
  <2>12. WrittenBy(u, b + 1) BY <2>9, <2>11 DEF WrittenBy
  <2>13. Scoped(u, a + 1, b + 1) BY <2>8, <2>9, <2>11 DEF Scoped
  <2>14. g = [h EXCEPT !.ready = TRUE, !.known = @ \cup {r}, !.turn = r, !.eff = u,
                       !.cur = Len(u)]
    BY <1>3 DEF BeginRequest, base, u, m
  <2> HIDE DEF g
  <2>15. a + 1 \in Nat /\ a + 1 \in 1..(a + 1) /\ r \in 0..Streams OBVIOUS
  <2>16. h.known \cup {r} \in SUBSET (1..Streams) BY <1>1 DEF HistoryType
  <2>17. g = [h EXCEPT !.ready = TRUE, !.known = h.known \cup {r}, !.turn = r, !.eff = u,
                        !.cur = a + 1]
    BY <1>1, <2>8, <2>14 DEF HistoryType
  <2>18. /\ g \in HistoryType /\ g.ready = TRUE /\ g.eff = u /\ g.cur = a + 1 /\ g.turn = r
    BY <1>1, <2>8, <2>15, <2>16, <2>17 DEF HistoryType
  <2>19. Remembers(g) BY <2>1, <2>8, <2>15, <2>18 DEF Remembers, IsUser
  <2>20. SoundHistory(g, b + 1) BY <2>7, <2>12, <2>18, <2>19 DEF SoundHistory
  <2> QED BY <2>8, <2>13, <2>18, <2>20 DEF g
<1> QED BY <1>2, <1>3

(* What a compaction leaves: a suffix, with the current user message       *)
(* pinned in front of it when the cut is behind that message.              *)
LEMMA SuffixKeeps ==
  ASSUME NEW s \in Seq(Stored), NEW a \in Nat, Len(s) = a, NEW cut \in 1..(a - 1),
         NEW b \in 0..Streams, WrittenBy(s, b), Gaps(s)
  PROVE  LET t == SubSeq(s, cut + 1, a)
         IN  /\ t \in Seq(Stored) /\ Len(t) = a - cut /\ DOMAIN t = 1..(a - cut)
             /\ \A i \in 1..(a - cut) : t[i] = s[cut + i]
             /\ WrittenBy(t, b) /\ Gaps(t)
<1> DEFINE t == SubSeq(s, cut + 1, a)
<1>1. DOMAIN s = 1..a BY LenProperties
<1>2. \A i \in (cut + 1)..a : s[i] \in Stored BY ElementOfSeq
<1>3. t \in Seq(Stored) /\ Len(t) = a - cut /\ \A i \in 1..(a - cut) : t[i] = s[cut + i]
  <2>1. /\ t \in Seq(Stored)
        /\ Len(t) = IF cut + 1 <= a THEN a - (cut + 1) + 1 ELSE 0
        /\ \A i \in 1 .. a - (cut + 1) + 1 : t[i] = s[(cut + 1) + i - 1]
    BY <1>2, SubSeqProperties
  <2>2. a - (cut + 1) + 1 = a - cut /\ cut + 1 <= a OBVIOUS
  <2>3. ASSUME NEW i \in 1..(a - cut) PROVE t[i] = s[cut + i]
    <3>1. (cut + 1) + i - 1 = cut + i OBVIOUS
    <3> QED BY <2>1, <2>2, <3>1
  <2> QED BY <2>1, <2>2, <2>3
<1>4. PICK c \in Nat : c = a - cut OBVIOUS
<1> HIDE DEF t
<1>5. Len(t) = c /\ DOMAIN t = 1..c BY <1>3, <1>4, LenProperties
<1>6. \A i \in 1..c : cut + i \in 1..a /\ t[i] = s[cut + i] BY <1>3, <1>4
<1>7. WrittenBy(t, b) BY <1>1, <1>5, <1>6 DEF WrittenBy
<1>8. ASSUME NEW i \in 1..c, GapAt(t, i)
      PROVE  \E j \in i+1 .. c : /\ t[j].kind = "final"
                                 /\ \A k \in i+1 .. j-1 : t[k].kind = "result"
  <2>1. IsCall(s[cut + i]) /\ t[i] = s[cut + i] /\ s[cut + i] \in Stored
    BY <1>6, <1>8, ElementOfSeq DEF GapAt
  <2>2. PICK n \in Nat : n = t[i].n /\ n = s[cut + i].n BY <2>1 DEF Stored
  <2>3. PICK j \in 1..n : i + j > c \/ t[i + j].kind # "result"
    BY <1>5, <1>8, <2>2 DEF GapAt
  <2>4. (cut + i) + j > a \/ s[(cut + i) + j].kind # "result"
    <3>1. CASE i + j > c BY <1>4, <3>1
    <3>2. CASE i + j <= c
      <4>1. i + j \in 1..c /\ cut + (i + j) = (cut + i) + j BY <3>2
      <4> QED BY <1>6, <2>3, <3>2, <4>1
    <3> QED BY <3>1, <3>2
  <2>5. GapAt(s, cut + i) BY <2>1, <2>2, <2>3, <2>4 DEF GapAt
  <2>6. PICK m \in (cut+i)+1 .. a : /\ s[m].kind = "final"
                                    /\ \A k \in (cut+i)+1 .. m-1 : s[k].kind = "result"
    BY <1>1, <1>6, <2>5 DEF Gaps
  <2>7. m - cut \in i+1 .. c /\ m - cut \in 1..c /\ cut + (m - cut) = m BY <1>4
  <2>8. t[m - cut].kind = "final" BY <1>6, <2>6, <2>7
  <2>9. ASSUME NEW k \in i+1 .. (m - cut)-1 PROVE t[k].kind = "result"
    <3>1. k \in 1..c /\ cut + k \in (cut+i)+1 .. m-1 BY <2>7
    <3> QED BY <1>6, <2>6, <3>1
  <2> QED BY <2>7, <2>8, <2>9
<1>9. Gaps(t) BY <1>5, <1>8 DEF Gaps
<1> QED BY <1>3, <1>4, <1>5, <1>7, <1>9 DEF t

(* A position behind a cut, counted from the cut *)
LEMMA PositionLeft ==
  ASSUME NEW a \in Nat, NEW cut \in 1..(a - 1), NEW pos \in 1..a, NEW c \in Nat,
         cut + c = a, pos > cut
  PROVE  pos - cut \in Nat /\ pos - cut \in 1..c /\ cut + (pos - cut) = pos
OBVIOUS

LEMMA SoundCommits ==
  ASSUME NEW b \in 0..Streams, SoundHistory(history, b), history.ready = TRUE,
         NEW st, Scoped(history.eff, st, b), NEW cut \in 1 .. Len(history.eff) - 1
  PROVE  LET g == CommitCompaction(history, cut)
         IN  /\ SoundHistory(g, b) /\ g.ready = TRUE
             /\ Scoped(g.eff, NewStart(st, cut), b)
<1> DEFINE s == history.eff
           cur == history.cur
           t == SubSeq(s, cut + 1, Len(s))
           g == CommitCompaction(history, cut)
<1>1. history \in HistoryType /\ Remembers(history) /\ WrittenBy(s, b) /\ Gaps(s)
  BY DEF SoundHistory
<1>2. PICK a \in Nat : Len(s) = a /\ DOMAIN s = 1..a /\ s \in [1..a -> Stored]
  BY <1>1, LenProperties DEF HistoryType
<1>3. s \in Seq(Stored) /\ cut \in 1..(a - 1) BY <1>1, <1>2 DEF HistoryType
<1> DEFINE c == a - cut
<1>4. /\ t \in Seq(Stored) /\ Len(t) = c /\ DOMAIN t = 1..c
      /\ \A i \in 1..c : t[i] = s[cut + i]
      /\ WrittenBy(t, b) /\ Gaps(t)
  BY <1>1, <1>2, <1>3, SuffixKeeps
<1>5. cur \in 1..a /\ IsUser(s[cur]) /\ s[cur].n = history.turn /\ s[cur] \in Stored
  BY <1>1, <1>2 DEF Remembers
<1>6. st \in 0..a /\ \A i \in 1..a : ~IsUser(s[i]) => (i > st <=> s[i].by = b)
  BY <1>2 DEF Scoped
<1>7. c \in Nat /\ c \in 1..a /\ cut + c = a BY <1>3
<1> HIDE DEF t, c
<1>8. CASE cur > cut
  <2>1. g = [history EXCEPT !.summary = TRUE, !.cur = cur - cut, !.eff = t]
    BY <1>1, <1>5, <1>8 DEF CommitCompaction, t, HistoryType
  <2>a. cur \in 1..a BY <1>5
  <2>b. cut \in 1..(a - 1) BY <1>3
  <2>2. cur - cut \in Nat /\ cur - cut \in 1..c /\ cut + (cur - cut) = cur
    BY ONLY <2>a, <2>b, <1>7, <1>8, PositionLeft
  <2> HIDE DEF g
  <2>3. /\ g \in HistoryType /\ g.ready = TRUE /\ g.eff = t /\ g.cur = cur - cut
        /\ g.turn = history.turn
    BY <1>1, <1>4, <2>1, <2>2 DEF HistoryType
  <2>4. t[cur - cut] = s[cur] BY <1>4, <2>2
  <2>5. Remembers(g) BY <1>4, <1>5, <2>2, <2>3, <2>4 DEF Remembers
  <2>6. SoundHistory(g, b) BY <1>4, <2>3, <2>5 DEF SoundHistory
  <2> DEFINE n == NewStart(st, cut)
  <2>7. n = IF st > cut THEN st - cut ELSE 0 BY <1>3, <1>5, <1>6, <1>8 DEF NewStart
  <2>8. n \in 0..c BY <1>3, <1>6, <1>7, <2>7
  <2> HIDE DEF n
  <2>9. ASSUME NEW i \in 1..c, ~IsUser(t[i]) PROVE i > n <=> t[i].by = b
    <3>1. cut + i \in 1..a /\ t[i] = s[cut + i] BY <1>3, <1>4, <1>7
    <3>2. cut + i > st <=> t[i].by = b BY <1>6, <2>9, <3>1
    <3>3. cut + i > st <=> i > n BY <1>3, <1>6, <2>7
    <3> QED BY <3>2, <3>3
  <2>10. Scoped(t, n, b) BY <1>4, <2>8, <2>9 DEF Scoped
  <2> QED BY <2>3, <2>6, <2>10 DEF n, g
<1>9. CASE cur <= cut
  <2> DEFINE m == s[cur]
             u == <<m>> \o t
  <2>1. g = [history EXCEPT !.summary = TRUE, !.cur = 1, !.eff = u]
    BY <1>9 DEF CommitCompaction, t
  <2> HIDE DEF m
  <2>2. m \in Stored /\ m.kind = "user" BY <1>5 DEF IsUser, m
  <2>3. Fits(<<m>>, m.by) BY <2>2, OneFits
  <2>4. <<m>> \in Seq(Stored) /\ Len(<<m>>) = 1 /\ <<m>>[1] = m BY <2>2
  <2>5. u \in Seq(Stored) /\ IsJoin(u, <<m>>, t, 1, c) BY <1>4, <1>7, <2>4, Joined
  <2>6. Gaps(u) BY <1>4, <2>3, <2>4, GapsJoin DEF Fits, Own
  <2> HIDE DEF u, g
  <2>7. /\ Len(u) = 1 + c /\ DOMAIN u = 1..(1 + c) /\ u[1] = m
        /\ \A i \in 1..c : u[1 + i] = t[i]
    BY <2>4, <2>5 DEF IsJoin
  <2>8. \A i \in 2..(1 + c) : i - 1 \in 1..c /\ u[i] = t[i - 1]
    <3> TAKE i \in 2..(1 + c)
    <3>1. i - 1 \in 1..c /\ 1 + (i - 1) = i BY <1>7
    <3> QED BY <2>7, <3>1
  <2>9. /\ g \in HistoryType /\ g.ready = TRUE /\ g.eff = u /\ g.cur = 1
        /\ g.turn = history.turn
    BY <1>1, <2>1, <2>5 DEF HistoryType
  <2>10. Remembers(g) BY <1>5, <1>7, <2>7, <2>9 DEF Remembers, m
  <2>11. WrittenBy(u, b)
    <3> SUFFICES ASSUME NEW i \in 1..(1 + c) PROVE u[i].by <= b BY <2>7 DEF WrittenBy
    <3>1. CASE i = 1 BY <1>1, <1>2, <1>5, <2>7, <3>1 DEF WrittenBy, m
    <3>2. CASE i # 1
      <4>1. i \in 2..(1 + c) BY <3>2
      <4> QED BY <1>4, <2>8, <4>1 DEF WrittenBy
    <3> QED BY <3>1, <3>2
  <2>12. SoundHistory(g, b) BY <2>6, <2>9, <2>10, <2>11 DEF SoundHistory
  <2> DEFINE n == NewStart(st, cut)
  <2>13. n = (IF st > cut THEN st - cut ELSE 0) + 1 BY <1>9 DEF NewStart
  <2>14. n \in 0..(1 + c) BY <1>3, <1>6, <1>7, <2>13
  <2> HIDE DEF n
  <2>15. ASSUME NEW i \in 1..(1 + c), ~IsUser(u[i]) PROVE i > n <=> u[i].by = b
    <3>1. i # 1 BY <2>2, <2>7, <2>15 DEF IsUser
    <3>2. i \in 2..(1 + c) BY <3>1
    <3>3. i - 1 \in 1..c /\ u[i] = t[i - 1] BY <2>8, <3>2
    <3>4. cut + (i - 1) \in 1..a /\ t[i - 1] = s[cut + (i - 1)]
      <4>1. cut + (i - 1) \in 1..a BY <1>3, <1>7, <3>3
      <4> QED BY <1>4, <3>3, <4>1
    <3>5. cut + (i - 1) > st <=> u[i].by = b BY <1>6, <2>15, <3>3, <3>4
    <3>6. cut + (i - 1) > st <=> i > n BY <1>3, <1>6, <2>13, <3>3
    <3> QED BY <3>5, <3>6
  <2>16. Scoped(u, n, b) BY <2>7, <2>14, <2>15 DEF Scoped
  <2> QED BY <2>9, <2>12, <2>16 DEF n, g
<1>10. cur \in Nat /\ cut \in Nat BY <1>3, <1>5
<1>11. cur > cut \/ cur <= cut BY <1>10
<1> HIDE DEF cur
<1> QED BY <1>8, <1>9, <1>11
-----------------------------------------------------------------------------
(* The counters of a stream: what it rejected, planned, ran and summarised. *)
CounterInv ==
  /\ {"rejections", "items", "done"} \subseteq DOMAIN run
  /\ run.rejections \in 0..Corrections + 1 /\ run.items \in Nat /\ run.done \in 0..run.items
  /\ batch \in [n : 0..MaxCalls, done : Nat] /\ batch.done <= batch.n
  /\ {"parts", "tries"} \subseteq DOMAIN comp
  /\ comp.parts \in 0..2 /\ comp.tries \in 0..CompactionRetries
  /\ phase = "model" \/ (phase \in CompactionPhases /\ answer.kind = "none")
       => run.rejections <= Corrections

LEMMA CountersInit == RuntimeInit => CounterInv
BY LimitsAssumption DEF RuntimeInit, CounterInv, NewRun, NoBatch, NoComp

LEMMA EndCounters == ASSUME NEW how, EndStream(how) PROVE CounterInv'
BY LimitsAssumption DEF EndStream, CounterInv, NewRun, NoBatch, NoComp

LEMMA FailCounters == Fail => CounterInv'
BY EndCounters DEF Fail

(* A step that leaves the run's numbers and the batch alone, and ends a     *)
(* compaction or goes on with one that counted nothing yet.                *)
LEMMA CountersStay ==
  ASSUME CounterInv, UNCHANGED batch,
         /\ {"rejections", "items", "done"} \subseteq DOMAIN run'
         /\ run'.rejections = run.rejections /\ run'.items = run.items /\ run'.done = run.done,
         /\ {"parts", "tries"} \subseteq DOMAIN comp' /\ comp'.parts = 0 /\ comp'.tries = 0,
         phase' = "model" \/ (phase' \in CompactionPhases /\ answer'.kind = "none")
           => run.rejections <= Corrections
  PROVE  CounterInv'
BY LimitsAssumption DEF CounterInv

LEMMA CounterSteps ==
  ASSUME CounterInv, ProtocolInv, [RuntimeNext]_runtimeVars
  PROVE  CounterInv'
<1> USE LimitsAssumption
<1>1. CASE UNCHANGED runtimeVars BY <1>1 DEF runtimeVars, CounterInv
<1>2. ASSUME NEW r \in 1..Streams, NEW boot \in Boots, BeginStream(r, boot) PROVE CounterInv'
  BY <1>2 DEF BeginStream, CounterInv
<1>3. CASE Cancelled \/ Close BY <1>3, EndCounters DEF Cancelled, Close
<1>4. CASE DeadlinePasses BY <1>4 DEF DeadlinePasses, CounterInv
<1>5. CASE ExecutionDeadline
  BY <1>5 DEF ExecutionDeadline, Stop, CounterInv, NoBatch, NoComp
<1>6. CASE ExecutionStep
  <2>1. \/ UNCHANGED comp
        \/ {"parts", "tries"} \subseteq DOMAIN comp' /\ comp'.parts = 0 /\ comp'.tries = 0
    BY <1>6 DEF ExecutionStep, NoComp
  <2>2. \/ UNCHANGED run
        \/ run' = [run EXCEPT !.tried = TRUE]
    BY <1>6 DEF ExecutionStep
  <2>3. /\ {"rejections", "items", "done"} \subseteq DOMAIN run'
        /\ run'.rejections = run.rejections /\ run'.items = run.items /\ run'.done = run.done
    BY <2>2 DEF CounterInv
  <2> QED BY <1>6, <2>1, <2>3 DEF ExecutionStep, CounterInv
<1>7. CASE ModelDone BY <1>7 DEF ModelDone, CounterInv
<1>8. ASSUME NEW n \in 1..MaxCalls, ModelCalls(n) PROVE CounterInv'
  BY <1>8 DEF ModelCalls, CounterInv
<1>9. ASSUME NEW n \in 1..MaxCalls, ModelBatchRejected(n) PROVE CounterInv'
  <2>1. CASE Fail BY <2>1, FailCounters
  <2>2. CASE ~Fail
    <3>1. phase' = "step" BY <1>9, <2>2 DEF ModelBatchRejected, Write
    <3> QED BY <1>9, <3>1 DEF ModelBatchRejected, CounterInv
  <2> QED BY <2>1, <2>2
<1>10. CASE GenerationExhausted BY <1>10 DEF GenerationExhausted, Stop, CounterInv
<1>11. CASE ModelFails \/ SummaryFails BY <1>11, FailCounters DEF ModelFails, SummaryFails
<1>12. CASE ModelOverflows
  <2>1. CASE Fail BY <2>1, FailCounters
  <2>2. CASE ~Fail
    <3>1. {"parts", "tries"} \subseteq DOMAIN comp' /\ comp'.parts = 0 /\ comp'.tries = 0
      BY <1>12, <2>2 DEF ModelOverflows, NoComp
    <3>2. /\ {"rejections", "items", "done"} \subseteq DOMAIN run'
          /\ run'.rejections = run.rejections /\ run'.items = run.items /\ run'.done = run.done
      BY <1>12, <2>2 DEF ModelOverflows, CounterInv
    <3> QED BY <1>12, <2>2, <3>1, <3>2 DEF ModelOverflows, CounterInv
  <2> QED BY <2>1, <2>2
<1>13. ASSUME NEW k \in 1..MaxCalls, NEW ok \in BOOLEAN, RunObservations(k, ok) PROVE CounterInv'
  BY <1>13 DEF RunObservations, CounterInv
<1>14. CASE RunTaskTool BY <1>14 DEF RunTaskTool, CounterInv
<1>15. CASE FinishBatch
  <2>1. CASE Fail BY <2>1, FailCounters
  <2>2. CASE ~Fail
    <3>1. phase' \in {"step", "resolve"} BY <1>15, <2>2 DEF FinishBatch, Write
    <3>2. /\ batch' = NoBatch /\ UNCHANGED <<answer, comp>>
          /\ run' = [run EXCEPT !.tried = FALSE,
                                !.outcome = IF PlanComplete THEN "plan_complete" ELSE @]
      BY <1>15, <3>1 DEF FinishBatch
    <3> QED BY <3>1, <3>2 DEF CounterInv, NoBatch
  <2> QED BY <2>1, <2>2
<1>16. CASE BeginCompaction
  <2>1. CASE Fail BY <2>1, FailCounters
  <2>2. CASE ~Fail /\ late BY <1>16, <2>2 DEF BeginCompaction, CounterInv
  <2>3. CASE ~Fail /\ ~late /\ NothingToCompact(history.eff)
    <3>1. /\ phase = "compact" /\ SkipCompaction /\ UNCHANGED batch /\ comp.from # "overflow"
      BY <1>16, <2>3 DEF BeginCompaction
    <3>2. /\ comp' = NoComp
          /\ \/ comp.from = "watermark" /\ UNCHANGED <<run, answer>>
             \/ comp.from = "watermark" /\ UNCHANGED answer /\ phase' = "resolve"
                  /\ run' = [run EXCEPT !.outcome = "context_capacity"]
             \/ phase' = "answer_failed" /\ UNCHANGED <<run, answer>>
             \/ phase' = "prepare" /\ UNCHANGED <<run, answer>>
      BY <3>1 DEF SkipCompaction, Stop, ProtocolInv, CompactionSays
    <3>3. {"parts", "tries"} \subseteq DOMAIN comp' /\ comp'.parts = 0 /\ comp'.tries = 0
      BY <3>2 DEF NoComp
    <3>4. /\ {"rejections", "items", "done"} \subseteq DOMAIN run'
          /\ run'.rejections = run.rejections /\ run'.items = run.items /\ run'.done = run.done
      BY <3>2 DEF CounterInv
    <3>5. CASE comp.from = "watermark"
      <4>1. answer.kind = "none" BY <3>1, <3>5 DEF ProtocolInv, CompactionSays
      <4> QED BY <3>1, <3>3, <3>4, <4>1 DEF CounterInv
    <3>6. CASE comp.from # "watermark"
      <4>1. phase' \in {"answer_failed", "prepare"} BY <3>2, <3>6
      <4> QED BY <3>1, <3>3, <3>4, <4>1 DEF CounterInv
    <3> QED BY <3>5, <3>6
  <2>4. CASE ~Fail /\ ~late /\ ~NothingToCompact(history.eff)
    <3> DEFINE parts == SummaryInputs(history.eff, CutIndex(history.eff))
    <3>1. /\ UNCHANGED <<run, answer, batch>> /\ phase = "compact" /\ phase' = "summarise"
          /\ comp' = [comp EXCEPT !.cut = CutIndex(history.eff), !.base = history.eff,
                                  !.parts = Len(parts)]
      BY <1>16, <2>4 DEF BeginCompaction
    <3>2. Len(parts) \in 1..2 BY DEF SummaryInputs
    <3> HIDE DEF parts
    <3>3. /\ {"parts", "tries"} \subseteq DOMAIN comp' /\ comp'.parts = Len(parts)
          /\ comp'.tries = comp.tries
      BY <3>1 DEF CounterInv
    <3>4. comp'.parts \in 0..2 BY <3>2, <3>3
    <3> QED BY <3>1, <3>3, <3>4 DEF CounterInv
  <2> QED BY <2>1, <2>2, <2>3, <2>4
<1>17. CASE SummaryGenerated BY <1>17 DEF SummaryGenerated, CounterInv
<1>18. CASE SummaryRetried BY <1>18 DEF SummaryRetried, CounterInv
<1>19. CASE CommitAndRebuild
  <2>1. CASE Fail BY <2>1, FailCounters
  <2>2. CASE ~Fail
    <3>1. UNCHANGED <<run, batch, answer>> /\ phase = "summarise" /\ phase' = "rebuilt"
      BY <1>19, <2>2 DEF CommitAndRebuild
    <3>2. comp' = [NoComp EXCEPT !.from = comp.from]
      BY <1>19, <2>2 DEF CommitAndRebuild
    <3>3. {"parts", "tries"} \subseteq DOMAIN comp' /\ comp'.parts = 0 /\ comp'.tries = 0
      BY <3>2 DEF NoComp
    <3>4. phase \in CompactionPhases /\ {"rejections", "items", "done"} \subseteq DOMAIN run
      BY <3>1 DEF CounterInv
    <3>5. phase' = "model" \/ (phase' \in CompactionPhases /\ answer'.kind = "none")
            => run.rejections <= Corrections
      BY <3>1, <3>4 DEF CounterInv
    <3> QED BY <3>1, <3>3, <3>4, <3>5, CountersStay
  <2> QED BY <2>1, <2>2
<1>20. CASE ExecutionRebuilt
  <2>1. /\ UNCHANGED <<batch, answer>> /\ phase = "rebuilt" /\ comp' = NoComp
        /\ comp.from \in {"watermark", "overflow"}
    BY <1>20 DEF ExecutionRebuilt
  <2>2. UNCHANGED run \/ run' = [run EXCEPT !.outcome = "context_capacity"]
    BY <1>20 DEF ExecutionRebuilt, Stop
  <2>3. /\ {"rejections", "items", "done"} \subseteq DOMAIN run'
        /\ run'.rejections = run.rejections /\ run'.items = run.items /\ run'.done = run.done
    BY <2>2 DEF CounterInv
  <2>4. {"parts", "tries"} \subseteq DOMAIN comp' /\ comp'.parts = 0 /\ comp'.tries = 0
    BY <2>1 DEF NoComp
  <2>5. answer.kind = "none" BY <2>1 DEF ProtocolInv, CompactionSays
  <2>6. run.rejections <= Corrections BY <2>1, <2>5 DEF CounterInv
  <2> QED BY <2>1, <2>3, <2>4, <2>6, CountersStay
<1>21. CASE BeginAnswerStage BY <1>21 DEF BeginAnswerStage, CounterInv
<1>22. CASE StartPrimary BY <1>22 DEF StartPrimary, StartAttempt, CounterInv
<1>23. CASE PrepareCompacts
  <2>1. /\ answer'.kind = answer.kind /\ answer.kind # "none"
    BY <1>23 DEF PrepareCompacts, ProtocolInv, PhaseSays, AnswerType
  <2>2. /\ UNCHANGED batch /\ phase' = "compact" /\ run' = [run EXCEPT !.tried = TRUE]
        /\ comp' = [NoComp EXCEPT !.from = "answer"]
    BY <1>23 DEF PrepareCompacts
  <2>3. /\ {"rejections", "items", "done"} \subseteq DOMAIN run'
        /\ run'.rejections = run.rejections /\ run'.items = run.items /\ run'.done = run.done
    BY <2>2 DEF CounterInv
  <2>4. {"parts", "tries"} \subseteq DOMAIN comp' /\ comp'.parts = 0 /\ comp'.tries = 0
    BY <2>2 DEF NoComp
  <2> QED BY <2>1, <2>2, <2>3, <2>4, CountersStay
<1>24. CASE PrepareSends BY <1>24 DEF PrepareSends, CounterInv, NoComp
<1>25. CASE AnswerText BY <1>25 DEF AnswerText, CounterInv
<1>26. CASE AnswerFinal \/ DeliverDeterministic
  <2>1. Fail \/ EndStream("completed") BY <1>26 DEF AnswerFinal, DeliverDeterministic, Deliver
  <2> QED BY <2>1, FailCounters, EndCounters
<1>27. ASSUME NEW n \in 1..MaxCalls, AnswerCalls(n) PROVE CounterInv'
  <2>1. UNCHANGED <<run, comp>> /\ phase' = "verify" /\ batch' = [n |-> n, done |-> 0]
    BY <1>27 DEF AnswerCalls, StartAttempt
  <2>2. batch' \in [n : 0..MaxCalls, done : Nat] /\ batch'.done <= batch'.n BY <2>1
  <2> QED BY <2>1, <2>2 DEF CounterInv
<1>28. ASSUME NEW ok \in BOOLEAN, VerifyCall(ok) PROVE CounterInv'
  <2>1. batch' \in [n : 0..MaxCalls, done : Nat] /\ batch'.done <= batch'.n
    <3>1. batch.done < batch.n /\ batch' = [batch EXCEPT !.done = @ + 1] BY <1>28 DEF VerifyCall
    <3> QED BY <3>1 DEF CounterInv
  <2> QED BY <1>28, <2>1 DEF VerifyCall, CounterInv
<1>29. CASE FinishVerification
  <2>1. CASE Fail BY <2>1, FailCounters
  <2>2. CASE ~Fail
    <3>1. phase' = "prepare" BY <1>29, <2>2 DEF FinishVerification, Write
    <3>2. batch' = NoBatch /\ UNCHANGED <<run, answer, comp>> BY <1>29, <3>1 DEF FinishVerification
    <3> QED BY <3>1, <3>2 DEF CounterInv, NoBatch
  <2> QED BY <2>1, <2>2
<1>30. CASE AnswerOverflows
  <2>1. answer'.kind = answer.kind /\ answer.kind # "none"
    BY <1>30 DEF AnswerOverflows, ProtocolInv, PhaseSays, AnswerType
  <2>2. /\ UNCHANGED batch /\ phase' = "compact"
        /\ run' = [run EXCEPT !.recovered = TRUE, !.tried = TRUE]
        /\ comp' = [NoComp EXCEPT !.from = "answer_overflow"]
    BY <1>30 DEF AnswerOverflows
  <2>3. /\ {"rejections", "items", "done"} \subseteq DOMAIN run'
        /\ run'.rejections = run.rejections /\ run'.items = run.items /\ run'.done = run.done
    BY <2>2 DEF CounterInv
  <2>4. {"parts", "tries"} \subseteq DOMAIN comp' /\ comp'.parts = 0 /\ comp'.tries = 0
    BY <2>2 DEF NoComp
  <2> QED BY <2>1, <2>2, <2>3, <2>4, CountersStay
<1>31. CASE AnswerRecovers
  <2>1. UNCHANGED <<run, batch>> /\ comp' = NoComp /\ phase' \in {"answer_failed", "answering"}
    BY <1>31 DEF AnswerRecovers, StartAttempt
  <2>2. {"parts", "tries"} \subseteq DOMAIN comp' /\ comp'.parts = 0 /\ comp'.tries = 0
    BY <2>1 DEF NoComp
  <2>3. {"rejections", "items", "done"} \subseteq DOMAIN run BY DEF CounterInv
  <2> QED BY <2>1, <2>2, <2>3, CountersStay
<1>32. CASE AnswerErrs BY <1>32 DEF AnswerErrs, CounterInv, NoBatch, NoComp
<1>33. CASE StartDegraded BY <1>33 DEF StartDegraded, StartAttempt, CounterInv
<1>34. CASE StartDeterministic BY <1>34 DEF StartDeterministic, StartAttempt, CounterInv
<1> QED
  BY <1>1, <1>2, <1>3, <1>4, <1>5, <1>6, <1>7, <1>8, <1>9, <1>10, <1>11, <1>12, <1>13, <1>14,
     <1>15, <1>16, <1>17, <1>18, <1>19, <1>20, <1>21, <1>22, <1>23, <1>24, <1>25, <1>26, <1>27,
     <1>28, <1>29, <1>30, <1>31, <1>32, <1>33, <1>34
  DEF RuntimeNext, StreamNext
-----------------------------------------------------------------------------
(* The messages are the history's but while the answer stage verifies, or  *)
(* once its deadline has passed: then they hold a part of the batch it     *)
(* began as well.                                                          *)
InStep == phase # "verify" /\ (late = FALSE \/ answer.kind = "none")

Ahead(n, k) ==
  /\ n \in 1..MaxCalls /\ k \in 0..n
  /\ msgs = history.eff \o Begun("call", n, k, stream)

HistoryInv ==
  /\ stream \in 0..Streams /\ late \in BOOLEAN
  /\ SoundHistory(history, stream)
  /\ phase = "idle" => msgs = <<>> /\ start = 0
  /\ phase # "idle" => /\ history.ready = TRUE
                       /\ Scoped(history.eff, start, stream)
                       /\ msgs = history.eff \/ \E n, k \in Nat : Ahead(n, k)
                       /\ InStep => msgs = history.eff
  /\ phase = "verify" => Ahead(batch.n, batch.done)

LEMMA HistoryInit == RuntimeInit => HistoryInv
<1> SUFFICES ASSUME RuntimeInit PROVE HistoryInv OBVIOUS
<1> USE LimitsAssumption
<1>1. <<>> \in Seq(Stored) /\ Len(<<>>) = 0 BY EmptySeq
<1>2. DOMAIN <<>> = 1..0 BY <1>1, LenProperties
<1>3. \A i \in 1..0 : FALSE OBVIOUS
<1>4. NewHistory \in HistoryType /\ NewHistory.ready = FALSE /\ NewHistory.eff = <<>>
  BY <1>1 DEF NewHistory, HistoryType
<1>5. SoundHistory(NewHistory, 0) BY <1>2, <1>3, <1>4 DEF SoundHistory, WrittenBy, Gaps
<1>6. /\ phase = "idle" /\ stream = 0 /\ history = NewHistory /\ msgs = <<>> /\ start = 0
      /\ late = FALSE
  BY DEF RuntimeInit
<1>7. SoundHistory(history, stream) BY <1>5, <1>6
<1>8. stream = 0 /\ late = FALSE BY <1>6
<1>9. late \in BOOLEAN BY <1>8
<1>10. 0 \in 0..Streams OBVIOUS
<1>11. stream \in 0..Streams /\ late \in BOOLEAN BY ONLY <1>8, <1>9, <1>10
<1>12. phase = "idle" => msgs = <<>> /\ start = 0 BY <1>6
<1>13. ~(phase # "idle") /\ ~(phase = "verify") BY <1>6
<1> QED BY <1>7, <1>11, <1>12, <1>13 DEF HistoryInv

(* Steps that leave the history and the messages alone.                    *)
LEMMA HistoryRests ==
  ASSUME HistoryInv, UNCHANGED <<stream, history, msgs, start>>, late' \in BOOLEAN,
         phase # "idle", phase' \notin {"idle", "verify"}, InStep' => InStep
  PROVE  HistoryInv'
BY DEF HistoryInv, Ahead

LEMMA HistoryStreamEnds ==
  ASSUME HistoryInv, NEW how, EndStream(how), SoundHistory(history', stream)
  PROVE  HistoryInv'
BY DEF EndStream, HistoryInv

LEMMA HistoryFails == ASSUME HistoryInv, Fail PROVE HistoryInv'
<1>1. EndStream("failed") /\ SoundHistory(history', stream) BY DEF Fail, HistoryInv
<1> QED BY <1>1, HistoryStreamEnds

(* A write of messages that fit goes on with them, or fails the stream.    *)
LEMMA HistoryWrites ==
  ASSUME HistoryInv, phase # "idle", NEW new, Fits(new, stream),
         NEW p \in Phases \ {"idle", "verify"}, Write(history.eff \o new, p)
  PROVE  HistoryInv'
<1>1. CASE Fail BY <1>1, HistoryFails
<1>2. CASE ~Fail
  <2> DEFINE ms == history.eff \o new
             h == SetEffective(history, ms)
  <2>1. /\ history' = h /\ msgs' = ms /\ phase' = p /\ UNCHANGED <<stream, start, late>>
    BY <1>2 DEF Write
  <2>2. history.eff \in Seq(Stored) /\ history.ready = TRUE /\ stream \in 0..Streams
        /\ history \in HistoryType
    BY DEF HistoryInv, SoundHistory, HistoryType
  <2>3. SoundHistory(h, stream) BY <2>2, SoundGrows DEF HistoryInv
  <2>4. Scoped(ms, start, stream)
    <3>1. stream \in Nat BY <2>2, LimitsAssumption
    <3>2. Own(new, stream) /\ Scoped(history.eff, start, stream) BY DEF Fits, HistoryInv
    <3> QED BY <2>2, <3>1, <3>2, ScopedGrows
  <2>5. h.eff = ms /\ h.ready = TRUE BY <2>2 DEF SetEffective, HistoryType
  <2> HIDE DEF ms, h
  <2> QED BY <2>1, <2>2, <2>3, <2>4, <2>5 DEF HistoryInv
<1> QED BY <1>1, <1>2

(* The batch of a response, with its results, joins the messages.          *)
LEMMA BatchJoins ==
  ASSUME HistoryInv, phase # "idle", NEW kind \in {"call", "rejected"}, NEW n \in Nat
  PROVE  /\ (history.eff \o <<Message(kind, n, stream)>>) \o Results(n, stream)
              = history.eff \o Begun(kind, n, n, stream)
         /\ Fits(Begun(kind, n, n, stream), stream)
<1>1. history.eff \in Seq(Stored) /\ stream \in 0..Streams
  BY DEF HistoryInv, SoundHistory, HistoryType
<1>2. Message(kind, n, stream) \in Stored BY <1>1 DEF Message, Stored, Kinds
<1>3. <<Message(kind, n, stream)>> \in Seq(Stored) BY <1>2
<1>4. Results(n, stream) \in Seq(Stored) BY <1>1, ResultsShape DEF AreResults
<1>5. Fits(Begun(kind, n, n, stream), stream) BY <1>1, BatchFits
<1> DEFINE e == history.eff
           m == <<Message(kind, n, stream)>>
           t == Results(n, stream)
<1>6. e \in Seq(Stored) /\ m \in Seq(Stored) /\ t \in Seq(Stored) BY <1>1, <1>3, <1>4
<1>7. Begun(kind, n, n, stream) = m \o t BY DEF Begun
<1> HIDE DEF e, m, t
<1>8. (e \o m) \o t = e \o (m \o t) BY ONLY <1>6, ConcatAssociative
<1> QED BY <1>5, <1>7, <1>8 DEF e, m, t

(* The answer joins the history behind whatever the messages hold.         *)
LEMMA HistoryDelivers ==
  ASSUME HistoryInv, phase # "idle", Deliver
  PROVE  HistoryInv'
<1> DEFINE f == Final(stream)
           ms == Append(msgs, f)
<1>1. CASE Fail BY <1>1, HistoryFails
<1>2. CASE ~Fail
  <2>1. history' = SetEffective(history, ms) /\ EndStream("completed")
    BY <1>2 DEF Deliver
  <2>2. /\ history.eff \in Seq(Stored) /\ stream \in 0..Streams /\ history.ready = TRUE
        /\ SoundHistory(history, stream)
    BY DEF HistoryInv, SoundHistory, HistoryType
  <2>3. f \in Stored /\ f.kind = "final" /\ f.by = stream
    BY <2>2 DEF Final, Message, Stored, Kinds
  <2>4. Fits(<<f>>, stream) BY <2>3, OneFits
  <2> HIDE DEF f
  <2>5. <<f>> \in Seq(Stored) BY <2>3
  <2>6. CASE msgs = history.eff
    <3>1. ms = history.eff \o <<f>> BY <2>2, <2>3, <2>6, AppendIsConcat
    <3>2. SoundHistory(SetEffective(history, history.eff \o <<f>>), stream)
      BY <2>2, <2>4, SoundGrows
    <3>3. SoundHistory(history', stream) BY <2>1, <3>1, <3>2
    <3> QED BY <2>1, <3>3, HistoryStreamEnds
  <2>7. ASSUME NEW n \in Nat, NEW k \in Nat, Ahead(n, k) PROVE HistoryInv'
    <3> DEFINE t == Begun("call", n, k, stream)
    <3>1. t \in Seq(Stored) BY <2>2, BegunShape DEF IsBegun
    <3>2. Fits(t \o <<f>>, stream) BY <2>2, AnsweredFits DEF f
    <3>3. msgs = history.eff \o t BY <2>7 DEF Ahead
    <3> HIDE DEF t
    <3>4. msgs \in Seq(Stored) BY <2>2, <3>1, <3>3, ConcatProperties
    <3>5. ms = msgs \o <<f>> BY <2>3, <3>4, AppendIsConcat
    <3> DEFINE e == history.eff
               g == <<f>>
    <3>6. e \in Seq(Stored) /\ t \in Seq(Stored) /\ g \in Seq(Stored) BY <2>2, <2>5, <3>1
    <3> HIDE DEF e, g
    <3>7. (e \o t) \o g = e \o (t \o g) BY ONLY <3>6, ConcatAssociative
    <3>8. ms = history.eff \o (t \o <<f>>) BY <3>3, <3>5, <3>7 DEF e, g
    <3>9. SoundHistory(SetEffective(history, history.eff \o (t \o <<f>>)), stream)
      BY <2>2, <3>2, SoundGrows
    <3>10. SoundHistory(history', stream) BY <2>1, <3>8, <3>9
    <3> QED BY <2>1, <3>10, HistoryStreamEnds
  <2> QED BY <2>6, <2>7 DEF HistoryInv
<1> QED BY <1>1, <1>2

LEMMA HistoryQuietSteps ==
  ASSUME HistoryInv, ProtocolInv,
         \/ DeadlinePasses \/ ExecutionDeadline \/ ExecutionStep \/ ModelDone
         \/ (\E n \in 1..MaxCalls : ModelCalls(n)) \/ GenerationExhausted
         \/ (\E k \in 1..MaxCalls, ok \in BOOLEAN : RunObservations(k, ok)) \/ RunTaskTool
         \/ SummaryGenerated \/ SummaryRetried \/ ExecutionRebuilt
         \/ ModelOverflows \/ BeginCompaction
         \/ BeginAnswerStage \/ StartPrimary \/ PrepareCompacts \/ PrepareSends
         \/ AnswerText \/ AnswerOverflows \/ AnswerRecovers \/ AnswerErrs
         \/ StartDegraded \/ StartDeterministic
  PROVE  HistoryInv'
<1> USE DEF PhaseSays, CompactionSays
<1>1. late \in BOOLEAN BY DEF HistoryInv
<1>2. CASE DeadlinePasses
  <2>1. CASE phase = "verify" BY <1>2, <2>1 DEF DeadlinePasses, HistoryInv, InStep, Ahead
  <2>2. CASE phase # "verify"
    BY <1>2, <2>2, HistoryRests DEF DeadlinePasses, InStep, ProtocolInv
  <2> QED BY <2>1, <2>2
<1>3. CASE ExecutionDeadline
  BY <1>1, <1>3, HistoryRests DEF ExecutionDeadline, Stop, InStep, ProtocolInv
<1>4. CASE ExecutionStep BY <1>1, <1>4, HistoryRests DEF ExecutionStep, InStep
<1>5. CASE ModelDone BY <1>1, <1>5, HistoryRests DEF ModelDone, InStep
<1>6. ASSUME NEW n \in 1..MaxCalls, ModelCalls(n) PROVE HistoryInv'
  BY <1>1, <1>6, HistoryRests DEF ModelCalls, InStep
<1>7. CASE GenerationExhausted
  BY <1>1, <1>7, HistoryRests DEF GenerationExhausted, Stop, InStep
<1>8. ASSUME NEW k \in 1..MaxCalls, NEW ok \in BOOLEAN, RunObservations(k, ok) PROVE HistoryInv'
  BY <1>1, <1>8, HistoryRests DEF RunObservations, InStep
<1>9. CASE RunTaskTool BY <1>1, <1>9, HistoryRests DEF RunTaskTool, InStep
<1>10. CASE SummaryGenerated BY <1>1, <1>10, HistoryRests DEF SummaryGenerated, InStep
<1>11. CASE SummaryRetried BY <1>1, <1>11, HistoryRests DEF SummaryRetried, InStep
<1>12. CASE ExecutionRebuilt BY <1>1, <1>12, HistoryRests DEF ExecutionRebuilt, Stop, InStep
<1>13. CASE ModelOverflows
  <2>1. CASE Fail BY <2>1, HistoryFails
  <2>2. CASE ~Fail BY <1>1, <1>13, <2>2, HistoryRests DEF ModelOverflows, InStep
  <2> QED BY <2>1, <2>2
<1>14. CASE BeginCompaction
  <2>1. CASE Fail BY <2>1, HistoryFails
  <2>2. CASE ~Fail
    <3>1. phase = "compact" /\ UNCHANGED <<stream, msgs, start, late>>
      BY <1>14, <2>2 DEF BeginCompaction
    <3>2. /\ UNCHANGED <<history, answer>>
          /\ phase' \in {"summarise", "resolve", "model", "answer_failed", "prepare"}
      <4>1. CASE NothingToCompact(history.eff) /\ ~late
        <5>1. SkipCompaction /\ comp.from # "overflow" BY <1>14, <2>2, <4>1 DEF BeginCompaction
        <5> QED BY <3>1, <5>1 DEF SkipCompaction, Stop, ProtocolInv
      <4>2. CASE ~NothingToCompact(history.eff) \/ late
        BY <1>14, <2>2, <4>2 DEF BeginCompaction
      <4> QED BY <4>1, <4>2
    <3>3. late' \in BOOLEAN /\ (InStep' => InStep) BY <1>1, <3>1, <3>2 DEF InStep
    <3> QED BY <3>1, <3>2, <3>3, HistoryRests
  <2> QED BY <2>1, <2>2
<1>15. CASE BeginAnswerStage
  BY <1>15, HistoryRests DEF BeginAnswerStage, InStep, ProtocolInv
<1>16. CASE StartPrimary
  <2>1. answer.kind # "none" /\ answer'.kind = "primary"
    BY <1>16 DEF StartPrimary, StartAttempt, ProtocolInv, AnswerType
  <2> QED BY <1>1, <1>16, <2>1, HistoryRests DEF StartPrimary, StartAttempt, InStep
<1>17. CASE PrepareCompacts
  BY <1>1, <1>17, HistoryRests DEF PrepareCompacts, InStep
<1>18. CASE PrepareSends
  BY <1>1, <1>18, HistoryRests DEF PrepareSends, InStep
<1>19. CASE AnswerText BY <1>1, <1>19, HistoryRests DEF AnswerText, InStep
<1>20. CASE AnswerOverflows BY <1>1, <1>20, HistoryRests DEF AnswerOverflows, InStep
<1>21. CASE AnswerRecovers
  BY <1>1, <1>21, HistoryRests DEF AnswerRecovers, StartAttempt, InStep
<1>22. CASE AnswerErrs
  <2>1. answer.kind # "none" /\ answer'.kind = answer.kind
    BY <1>22 DEF AnswerErrs, ProtocolInv, AnswerType
  <2> QED BY <1>1, <1>22, <2>1, HistoryRests DEF AnswerErrs, InStep
<1>23. CASE StartDegraded
  <2>1. answer'.kind = "degraded"
    BY <1>23 DEF StartDegraded, StartAttempt, ProtocolInv, AnswerType
  <2> QED BY <1>1, <1>23, <2>1, HistoryRests DEF StartDegraded, StartAttempt, InStep
<1>24. CASE StartDeterministic
  <2>1. answer'.kind = "deterministic"
    BY <1>24 DEF StartDeterministic, StartAttempt, ProtocolInv, AnswerType
  <2> QED BY <1>1, <1>24, <2>1, HistoryRests DEF StartDeterministic, StartAttempt, InStep
<1> QED
  BY <1>2, <1>3, <1>4, <1>5, <1>6, <1>7, <1>8, <1>9, <1>10, <1>11, <1>12, <1>13, <1>14, <1>15,
     <1>16, <1>17, <1>18, <1>19, <1>20, <1>21, <1>22, <1>23, <1>24

LEMMA HistorySteps ==
  ASSUME HistoryInv, ProtocolInv, CounterInv, [RuntimeNext]_runtimeVars
  PROVE  HistoryInv'
<1> USE DEF PhaseSays, CompactionSays
<1>1. /\ late \in BOOLEAN /\ stream \in 0..Streams /\ SoundHistory(history, stream)
      /\ history.eff \in Seq(Stored) /\ history \in HistoryType
  BY DEF HistoryInv, SoundHistory, HistoryType
<1>2. CASE UNCHANGED runtimeVars
  BY <1>2 DEF runtimeVars, HistoryInv, InStep, Ahead
<1>3. ASSUME NEW r \in 1..Streams, NEW boot \in Boots, BeginStream(r, boot) PROVE HistoryInv'
  <2> DEFINE h == BeginRequest(history, r, boot, stream + 1)
  <2>1. /\ MayBegin(history, r) /\ history' = h /\ msgs' = h.eff /\ start' = Len(h.eff)
        /\ stream' = stream + 1 /\ stream < Streams /\ phase' = "step" /\ UNCHANGED late
    BY <1>3 DEF BeginStream
  <2>2. stream + 1 \in 0..Streams BY <1>1, <2>1, LimitsAssumption
  <2>3. SoundHistory(h, stream + 1) /\ h.ready = TRUE /\ Scoped(h.eff, Len(h.eff), stream + 1)
    BY <1>1, <2>1, <2>2, SoundBegins
  <2> HIDE DEF h
  <2> QED BY <1>1, <2>1, <2>2, <2>3 DEF HistoryInv
<1>4. CASE Cancelled \/ Close
  <2>1. \E how \in {"cancelled", "closed"} : EndStream(how) /\ UNCHANGED history
    BY <1>4 DEF Cancelled, Close
  <2> QED BY <1>1, <2>1, HistoryStreamEnds
<1>5. CASE ModelFails \/ SummaryFails BY <1>5, HistoryFails DEF ModelFails, SummaryFails
<1>6. CASE AnswerFinal \/ DeliverDeterministic
  BY <1>6, HistoryDelivers DEF AnswerFinal, DeliverDeterministic
<1>7. ASSUME NEW n \in 1..MaxCalls, ModelBatchRejected(n) PROVE HistoryInv'
  <2>1. /\ phase = "model"
        /\ Write(msgs \o <<Rejected(n, stream)>> \o Results(n, stream), "step")
    BY <1>7 DEF ModelBatchRejected
  <2>2. InStep /\ phase # "idle" BY <2>1 DEF InStep, ProtocolInv
  <2>3. msgs = history.eff BY <2>2 DEF HistoryInv
  <2>4. n \in Nat OBVIOUS
  <2>5. /\ (history.eff \o <<Message("rejected", n, stream)>>) \o Results(n, stream)
              = history.eff \o Begun("rejected", n, n, stream)
        /\ Fits(Begun("rejected", n, n, stream), stream)
    BY <2>2, <2>4, BatchJoins
  <2>6. Write(history.eff \o Begun("rejected", n, n, stream), "step")
    BY <2>1, <2>3, <2>5 DEF Rejected
  <2> QED BY <2>2, <2>5, <2>6, HistoryWrites
<1>8. CASE FinishBatch
  <2> DEFINE n == batch.n
             p == IF PlanComplete THEN "resolve" ELSE "step"
  <2>1. /\ phase = "tools"
        /\ Write(msgs \o <<Call(n, stream)>> \o Results(n, stream), p)
    BY <1>8 DEF FinishBatch
  <2>2. InStep /\ phase # "idle" BY <2>1 DEF InStep, ProtocolInv
  <2>3. msgs = history.eff BY <2>2 DEF HistoryInv
  <2>4. n \in Nat BY LimitsAssumption DEF CounterInv
  <2>5. p \in Phases \ {"idle", "verify"} OBVIOUS
  <2> HIDE DEF n, p
  <2>6. /\ (history.eff \o <<Message("call", n, stream)>>) \o Results(n, stream)
              = history.eff \o Begun("call", n, n, stream)
        /\ Fits(Begun("call", n, n, stream), stream)
    BY <2>2, <2>4, BatchJoins
  <2>7. Write(history.eff \o Begun("call", n, n, stream), p)
    BY <2>1, <2>3, <2>6 DEF Call
  <2> QED BY <2>2, <2>5, <2>6, <2>7, HistoryWrites
<1>9. CASE FinishVerification
  <2>1. phase = "verify" /\ batch.done = batch.n /\ Write(msgs, "prepare")
    BY <1>9 DEF FinishVerification
  <2>2. Ahead(batch.n, batch.n) BY <2>1 DEF HistoryInv
  <2>3. /\ msgs = history.eff \o Begun("call", batch.n, batch.n, stream) /\ batch.n \in Nat
    BY <2>2, LimitsAssumption DEF Ahead
  <2>4. Fits(Begun("call", batch.n, batch.n, stream), stream) BY <1>1, <2>3, BatchFits
  <2>5. Write(history.eff \o Begun("call", batch.n, batch.n, stream), "prepare")
    BY <2>1, <2>3
  <2>6. phase # "idle" BY <2>1
  <2> QED BY <2>4, <2>5, <2>6, HistoryWrites
<1>10. ASSUME NEW n \in 1..MaxCalls, AnswerCalls(n) PROVE HistoryInv'
  <2>1. /\ phase = "answering" /\ late = FALSE /\ phase' = "verify"
        /\ msgs' = Append(msgs, Call(n, stream)) /\ batch' = [n |-> n, done |-> 0]
        /\ UNCHANGED <<stream, history, start, late>>
    BY <1>1, <1>10 DEF AnswerCalls, StartAttempt
  <2>2. msgs = history.eff BY <2>1 DEF HistoryInv, InStep
  <2>3. Call(n, stream) \in Stored BY <1>1 DEF Call, Message, Stored, Kinds
  <2>4. msgs' = history.eff \o <<Call(n, stream)>> BY <1>1, <2>1, <2>2, <2>3, AppendIsConcat
  <2>5. n \in Nat OBVIOUS
  <2>6. msgs' = history.eff \o Begun("call", n, 0, stream) BY <1>1, <2>4, <2>5, BegunStarts
  <2>7. Ahead(n, 0)' BY <2>1, <2>6 DEF Ahead
  <2>8. Ahead(batch.n, batch.done)' BY <2>1, <2>7
  <2>9. n \in Nat /\ 0 \in Nat OBVIOUS
  <2> QED BY <2>1, <2>7, <2>8, <2>9 DEF HistoryInv, InStep
<1>11. ASSUME NEW ok \in BOOLEAN, VerifyCall(ok) PROVE HistoryInv'
  <2>1. PICK n \in Nat, k \in Nat : n = batch.n /\ k = batch.done
    BY LimitsAssumption DEF CounterInv
  <2> DEFINE e == history.eff
             s == Begun("call", n, k, stream)
             t == Results(1, stream)
  <2>2. /\ phase = "verify" /\ phase' = "verify" /\ k < n
        /\ msgs' = msgs \o t /\ batch' = [batch EXCEPT !.done = @ + 1]
        /\ UNCHANGED <<stream, history, start, late>>
    BY <1>11, <2>1 DEF VerifyCall
  <2>3. Ahead(n, k) BY <2>1, <2>2 DEF HistoryInv
  <2>4. n \in 1..MaxCalls /\ k + 1 \in Nat /\ k + 1 \in 0..n
    BY <2>2, <2>3 DEF Ahead
  <2>5. batch'.n = n /\ batch'.done = k + 1 BY <2>1, <2>2 DEF CounterInv
  <2>6. s \in Seq(Stored) BY <1>1, <2>4, BegunShape DEF IsBegun
  <2>7. t \in Seq(Stored) BY <1>1, ResultsShape DEF AreResults
  <2>8. s \o t = Begun("call", n, k + 1, stream) BY <1>1, <2>4, BegunGrows
  <2>9. msgs = e \o s BY <2>3 DEF Ahead
  <2>10. e \in Seq(Stored) /\ s \in Seq(Stored) /\ t \in Seq(Stored) BY <1>1, <2>6, <2>7
  <2> HIDE DEF e, s, t
  <2>11. (e \o s) \o t = e \o (s \o t) BY ONLY <2>10, ConcatAssociative
  <2>12. msgs' = history.eff \o Begun("call", n, k + 1, stream) BY <2>2, <2>8, <2>9, <2>11 DEF e
  <2>13. Ahead(n, k + 1)' BY <2>2, <2>4, <2>12 DEF Ahead
  <2>14. Ahead(batch.n, batch.done)' BY <2>5, <2>13
  <2> QED BY <2>2, <2>4, <2>13, <2>14 DEF HistoryInv, InStep
<1>12. CASE CommitAndRebuild
  <2>1. CASE Fail BY <2>1, HistoryFails
  <2>2. CASE ~Fail
    <3> DEFINE h == CommitCompaction(history, comp.cut)
    <3>1. /\ MayCommit(history, history.turn, comp.base, comp.cut) /\ phase = "summarise"
          /\ history' = h /\ msgs' = h.eff /\ start' = NewStart(start, comp.cut)
          /\ phase' = "rebuilt" /\ UNCHANGED <<stream, late>>
      BY <1>12, <2>2 DEF CommitAndRebuild
    <3>2. comp.cut \in 1 .. Len(history.eff) - 1 /\ history.ready = TRUE
      BY <1>1, <3>1 DEF MayCommit, ValidCut, HistoryType
    <3>3. Scoped(history.eff, start, stream) BY <3>1 DEF HistoryInv
    <3>4. /\ SoundHistory(h, stream) /\ h.ready = TRUE
          /\ Scoped(h.eff, NewStart(start, comp.cut), stream)
      BY <1>1, <3>2, <3>3, SoundCommits
    <3> HIDE DEF h
    <3> QED BY <1>1, <3>1, <3>4 DEF HistoryInv
  <2> QED BY <2>1, <2>2
<1> QED
  BY <1>2, <1>3, <1>4, <1>5, <1>6, <1>7, <1>8, <1>9, <1>10, <1>11, <1>12, HistoryQuietSteps
  DEF RuntimeNext, StreamNext

HistoryIInv == ProtocolInv /\ CounterInv /\ HistoryInv

LEMMA HistoryIInvHolds == RuntimeSpec => []HistoryIInv
<1>1. RuntimeInit => HistoryIInv
  BY InitProtocol, CountersInit, HistoryInit DEF HistoryIInv
<1>2. HistoryIInv /\ [RuntimeNext]_runtimeVars => HistoryIInv'
  BY StreamStep, CounterSteps, HistorySteps DEF HistoryIInv
<1> QED BY <1>1, <1>2, PTL DEF RuntimeSpec

(* The messages begin with the history, and the rest is the stream's own.  *)
LEMMA MessagesFollow ==
  ASSUME HistoryInv, phase # "idle"
  PROVE  /\ msgs \in Seq(Stored) /\ Scoped(msgs, start, stream)
         /\ Len(history.eff) <= Len(msgs)
         /\ \A i \in 1..Len(history.eff) : msgs[i] = history.eff[i]
<1> DEFINE e == history.eff
<1>1. /\ e \in Seq(Stored) /\ stream \in 0..Streams /\ stream \in Nat
      /\ Scoped(e, start, stream)
  BY LimitsAssumption DEF HistoryInv, SoundHistory, HistoryType
<1>2. CASE msgs = e
  <2>1. Len(e) \in Nat BY <1>1, LenProperties
  <2> QED BY <1>1, <1>2, <2>1
<1>3. ASSUME NEW n \in Nat, NEW k \in Nat, Ahead(n, k)
      PROVE  /\ msgs \in Seq(Stored) /\ Scoped(msgs, start, stream)
             /\ Len(e) <= Len(msgs) /\ \A i \in 1..Len(e) : msgs[i] = e[i]
  <2> DEFINE t == Begun("call", n, k, stream)
  <2>1. IsBegun(t, "call", n, k, stream) BY <1>1, BegunShape
  <2>2. msgs = e \o t BY <1>3 DEF Ahead
  <2> HIDE DEF t
  <2>3. PICK c \in Nat : c = k + 1 OBVIOUS
  <2>4. t \in Seq(Stored) /\ Len(t) = c /\ Own(t, stream)
    <3>1. /\ t \in Seq(Stored) /\ Len(t) = c /\ DOMAIN t = 1..c
          /\ t[1] = Message("call", n, stream)
          /\ \A i \in 2..c : t[i] = Message("result", 0, stream)
      BY <2>1, <2>3 DEF IsBegun
    <3>2. ASSUME NEW i \in 1..c PROVE t[i].by = stream
      <4>1. CASE i = 1 BY <3>1, <4>1 DEF Message
      <4>2. CASE i # 1
        <5>1. i \in 2..c BY <4>2
        <5> QED BY <3>1, <5>1 DEF Message
      <4> QED BY <4>1, <4>2
    <3> QED BY <3>1, <3>2 DEF Own
  <2>5. PICK a \in Nat : Len(e) = a BY <1>1, LenProperties
  <2>6. e \in Seq(Stored) /\ t \in Seq(Stored) /\ Len(e) = a /\ Len(t) = c BY <1>1, <2>4, <2>5
  <2> HIDE DEF e
  <2>7. e \o t \in Seq(Stored) /\ IsJoin(e \o t, e, t, a, c)
    BY ONLY <2>6, Joined, a \in Nat, c \in Nat
  <2>8. Scoped(e \o t, start, stream) BY <1>1, <2>4, ScopedGrows
  <2>9. /\ Len(msgs) = a + c /\ \A i \in 1..a : msgs[i] = e[i]
    BY <2>2, <2>7 DEF IsJoin
  <2>10. Len(e) <= Len(msgs) BY <2>6, <2>9
  <2> QED BY <2>2, <2>6, <2>7, <2>8, <2>9, <2>10
<1> QED BY <1>2, <1>3 DEF HistoryInv

LEMMA SoundFromInv == HistoryIInv => HistoryIsSound
<1> SUFFICES ASSUME HistoryIInv PROVE HistoryIsSound OBVIOUS
<1>1. /\ HistoryInv /\ ProtocolInv /\ CounterInv /\ history \in HistoryType
      /\ history.eff \in Seq(Stored) /\ SoundHistory(history, stream)
  BY DEF HistoryIInv, HistoryInv, SoundHistory, HistoryType
<1>2. ASSUME NEW ms \in Seq(Stored) PROVE IsMessages(ms)
  <2>1. ms \in [1..Len(ms) -> Stored] /\ DOMAIN ms = 1..Len(ms) BY LenProperties
  <2> QED BY <2>1 DEF IsMessages, Stored
<1>3. <<>> \in Seq(Stored) /\ Len(<<>>) = 0 BY EmptySeq
<1>4. msgs \in Seq(Stored) /\ start \in 0..Len(msgs)
  <2>1. CASE phase = "idle" BY <1>1, <1>3, <2>1 DEF HistoryInv
  <2>2. CASE phase # "idle" BY <1>1, <2>2, MessagesFollow DEF Scoped
  <2> QED BY <2>1, <2>2
<1>5. history.cur \in 0..Len(history.eff)
  <2>1. Len(history.eff) \in Nat BY <1>1, LenProperties
  <2>2. CASE history.ready = TRUE BY <1>1, <2>1, <2>2 DEF SoundHistory, Remembers
  <2>3. CASE history.ready = FALSE
    <3>1. history.cur = 0 BY <1>1, <2>3 DEF SoundHistory, NewHistory
    <3> QED BY <2>1, <3>1
  <2> QED BY <1>1, <2>2, <2>3 DEF HistoryType
<1>6. RuntimeTypeOK
  <2>1. phase \in Phases /\ ending \in {"none", "completed", "failed", "cancelled", "closed"}
    BY <1>1 DEF ProtocolInv
  <2>2. IsMessages(msgs) /\ IsMessages(history.eff) BY <1>1, <1>2, <1>4
  <2>3. stream \in 0..Streams /\ history.turn \in 0..Streams BY <1>1 DEF HistoryInv, HistoryType
  <2>4. /\ run.rejections \in 0..Corrections + 1 /\ run.done \in 0..run.items
        /\ comp.parts \in 0..2 /\ comp.tries \in 0..CompactionRetries
    BY <1>1 DEF CounterInv
  <2>5. batch.done \in 0..batch.n BY <1>1, LimitsAssumption DEF CounterInv
  <2> QED BY <1>4, <1>5, <2>1, <2>2, <2>3, <2>4, <2>5 DEF RuntimeTypeOK
<1>7. WritesAreAccepted
  <2> SUFFICES ASSUME phase # "idle" PROVE PreservesCurrentUser(history, msgs)
    BY DEF WritesAreAccepted, Accepts
  <2>1. Remembers(history) BY <1>1 DEF HistoryInv, SoundHistory
  <2>2. /\ Len(history.eff) <= Len(msgs)
        /\ \A i \in 1..Len(history.eff) : msgs[i] = history.eff[i]
    BY <1>1, MessagesFollow
  <2>3. PICK a \in Nat, c \in Nat : Len(history.eff) = a /\ Len(msgs) = c
    BY <1>1, <1>4, LenProperties
  <2>4. history.cur \in 1..a /\ history.cur \in 1..c /\ c >= a BY <2>1, <2>2, <2>3 DEF Remembers
  <2>5. msgs[history.cur] = history.eff[history.cur] BY <2>2, <2>3, <2>4
  <2> QED BY <2>1, <2>3, <2>4, <2>5 DEF PreservesCurrentUser, Remembers
<1>8. ScopeIsExact
  BY <1>1, MessagesFollow DEF ScopeIsExact, Scoped
<1>9. OnlyAnswersLeaveGaps
  BY <1>1 DEF OnlyAnswersLeaveGaps, SoundHistory, Gaps
<1> QED BY <1>6, <1>7, <1>8, <1>9 DEF HistoryIsSound

(* Through every tool batch, rejected batch, compaction, verification and  *)
(* delivered answer of agent/runtime.py, whatever the sizes and limits:    *)
(* what a stream holds may be written to the session's history at any      *)
(* moment, behind request_start are exactly its own messages, and a batch  *)
(* without all its results stands only in front of an answer.              *)
THEOREM HistoryHolds == RuntimeSpec => []HistoryIsSound
BY HistoryIInvHolds, SoundFromInv, PTL
-----------------------------------------------------------------------------(* The plan is a sequence of two tasks or empty, and current is inside it  *)
(* or right behind it.                                                     *)
PlanInv ==
  \/ tasks = <<>> /\ current = 0
  \/ tasks \in Plans /\ current \in 1..3

(* Who owns what: an owner is the task the call was made for, a claimed    *)
(* observation has none, and a checkpoint holds claimed ones only.         *)
OwnersInv ==
  /\ used \subseteq Calls
  /\ DOMAIN madeFor \subseteq used /\ claimed \subseteq DOMAIN madeFor /\ pending \subseteq used
  /\ DOMAIN owners \subseteq DOMAIN madeFor
  /\ \A c \in DOMAIN owners : owners[c] = madeFor[c] /\ c \notin claimed
  /\ active \subseteq DOMAIN owners
  /\ DOMAIN checkpoints \subseteq Tasks
  /\ \A k \in DOMAIN checkpoints : checkpoints[k] \subseteq claimed

(* Nothing the messages hold, or will, is without an owner unless claimed; *)
(* between two batches nothing is in flight.                               *)
NothingIsLost ==
  /\ \A c \in transcript \cup pending : c \in claimed \cup DOMAIN owners
  /\ step = "between" => pending = {}

TaskInv ==
  /\ PlanInv /\ OwnersInv /\ NothingIsLost
  /\ EvidenceServesOneTask /\ EvidenceStaysAvailable /\ CompletedTasksHaveState
-----------------------------------------------------------------------------
LEMMA EmptyPlan == Len(<<>>) = 0 /\ DOMAIN <<>> = {}
<1>1. <<>> \in Seq({}) /\ Len(<<>>) = 0 BY EmptySeq
<1>2. DOMAIN <<>> = 1..0 BY <1>1, LenProperties
<1>3. 1..0 = {} OBVIOUS
<1> QED BY <1>1, <1>2, <1>3

LEMMA PlanShape ==
  ASSUME NEW p \in Plans
  PROVE  /\ Len(p) = 2 /\ DOMAIN p = 1..2 /\ p # <<>>
         /\ p[1] \in Tasks /\ p[2] \in Tasks /\ p[1] # p[2]
<1>1. p \in [1..2 -> Tasks] /\ p[1] # p[2] BY DEF Plans
<1>2. p \in Seq(Tasks) BY <1>1, SeqDef
<1>3. Len(p) \in Nat /\ DOMAIN p = 1..Len(p) /\ DOMAIN p = 1..2 BY <1>1, <1>2, LenProperties
<1>4. PICK n \in Nat : Len(p) = n BY <1>3
<1>5. 1..n = 1..2 BY <1>3, <1>4
<1>6. n = 2
  <2>1. 2 \in 1..n /\ (n >= 1 => n \in 1..2) BY <1>5
  <2> QED BY <2>1
<1>7. p # <<>> BY <1>4, <1>6, EmptyPlan
<1> QED BY <1>1, <1>3, <1>4, <1>6, <1>7

(* Without a plan no task is in progress and none is complete; with one,   *)
(* the tasks before the current one are.                                   *)
LEMMA PlanSays ==
  ASSUME PlanInv
  PROVE  /\ ~HasPlan => Completed = {} /\ CurrentKey = NoTask
         /\ HasPlan => /\ tasks \in Plans
                       /\ current = 1 => CurrentKey = tasks[1] /\ Completed = {}
                       /\ current = 2 => CurrentKey = tasks[2] /\ Completed = {tasks[1]}
                       /\ current = 3 => CurrentKey = NoTask /\ Completed = {tasks[1], tasks[2]}
                       /\ current \in 1..3
<1>1. CASE tasks = <<>>
  BY <1>1, EmptyPlan DEF HasPlan, Completed, CurrentKey
<1>2. CASE tasks \in Plans /\ current \in 1..3
  <2>1. /\ Len(tasks) = 2 /\ DOMAIN tasks = 1..2 /\ tasks # <<>> BY <1>2, PlanShape
  <2>2. Completed = {tasks[i] : i \in {j \in 1..2 : j < current}} BY <2>1 DEF Completed
  <2>3. {j \in 1..2 : j < 1} = {} /\ {j \in 1..2 : j < 2} = {1} /\ {j \in 1..2 : j < 3} = {1, 2}
    OBVIOUS
  <2>4. CurrentKey = IF current <= 2 THEN tasks[current] ELSE NoTask BY <2>1 DEF CurrentKey, HasPlan
  <2>5. CASE current = 1 BY <1>2, <2>1, <2>2, <2>3, <2>4, <2>5 DEF HasPlan
  <2>6. CASE current = 2 BY <1>2, <2>1, <2>2, <2>3, <2>4, <2>6 DEF HasPlan
  <2>7. CASE current = 3 BY <1>2, <2>1, <2>2, <2>3, <2>4, <2>7 DEF HasPlan
  <2> QED BY <1>2, <2>5, <2>6, <2>7
<1> QED BY <1>1, <1>2 DEF PlanInv

LEMMA TaskInitInv == TaskInit => TaskInv
<1> SUFFICES ASSUME TaskInit PROVE TaskInv OBVIOUS
<1>1. PlanInv BY DEF TaskInit, PlanInv
<1>2. DOMAIN NoneYet = {} BY DEF NoneYet
<1>3. Completed = {} BY <1>1, PlanSays DEF TaskInit, HasPlan
<1>4. OwnersInv BY <1>2 DEF TaskInit, OwnersInv
<1>5. NothingIsLost /\ EvidenceStaysAvailable
  BY DEF TaskInit, NothingIsLost, EvidenceStaysAvailable
<1>6. EvidenceServesOneTask /\ CompletedTasksHaveState
  BY <1>2, <1>3 DEF TaskInit, EvidenceServesOneTask, CompletedTasksHaveState
<1> QED BY <1>1, <1>4, <1>5, <1>6 DEF TaskInv

LEMMA GroupKeeps ==
  ASSUME TaskInv, NEW g \in Groups, NEW asked \in [g -> Tasks \cup {NoTask}],
         NEW good \in SUBSET g, RunGroup(g, asked, good)
  PROVE  TaskInv'
<1> DEFINE valid == {c \in good : ~HasPlan \/ asked[c] = NoTask \/ asked[c] \in Planned}
           keys == [c \in valid |-> ResolveSourceTaskKey(asked[c])]
<1>1. /\ g \cap used = {} /\ used' = used \cup g /\ step = "batch"
      /\ owners' = [c \in DOMAIN owners \cup valid |-> IF c \in valid THEN keys[c] ELSE owners[c]]
      /\ madeFor' = [c \in DOMAIN madeFor \cup valid |-> IF c \in valid THEN keys[c] ELSE madeFor[c]]
      /\ pending' = pending \cup valid
      /\ UNCHANGED <<tasks, current, checkpoints, active, claimed, transcript, step>>
  BY DEF RunGroup
<1>2. valid \subseteq g /\ g \subseteq Calls BY DEF Groups
<1> HIDE DEF valid, keys
<1>3. PlanInv' BY <1>1 DEF TaskInv, PlanInv
<1>4. \A c \in DOMAIN madeFor : c \notin valid BY <1>1, <1>2 DEF TaskInv, OwnersInv
<1>5. OwnersInv' BY <1>1, <1>2, <1>4 DEF TaskInv, OwnersInv
<1>6. NothingIsLost' BY <1>1 DEF TaskInv, NothingIsLost
<1>7. EvidenceStaysAvailable' BY <1>1 DEF TaskInv, EvidenceStaysAvailable
<1>8. UNCHANGED Completed BY <1>1 DEF Completed
<1>9. CompletedTasksHaveState' BY <1>1, <1>8 DEF TaskInv, CompletedTasksHaveState
<1>10. \A k \in DOMAIN checkpoints : \A c \in checkpoints[k] : madeFor'[c] = madeFor[c]
  BY <1>1, <1>4 DEF TaskInv, OwnersInv
<1>11. EvidenceServesOneTask'
  <2>1. checkpoints' = checkpoints /\ Completed' = Completed BY <1>1, <1>8
  <2>2. EvidenceServesOneTask BY DEF TaskInv
  <2>3. ASSUME NEW k \in DOMAIN checkpoints', NEW c \in checkpoints'[k], k \in Completed'
        PROVE  madeFor'[c] = k
    <3>1. k \in DOMAIN checkpoints /\ c \in checkpoints[k] /\ k \in Completed BY <2>1, <2>3
    <3>2. madeFor[c] = k BY <2>2, <3>1 DEF EvidenceServesOneTask
    <3> QED BY <1>10, <3>1, <3>2
  <2> QED BY <2>1, <2>2, <2>3 DEF EvidenceServesOneTask
<1> QED BY <1>3, <1>5, <1>6, <1>7, <1>9, <1>11 DEF TaskInv

LEMMA PlanKeeps ==
  ASSUME TaskInv, NEW p \in Plans, CreatePlan(p)
  PROVE  TaskInv'
<1>1. /\ tasks' = p /\ current' = 1 /\ ~HasPlan
      /\ UNCHANGED <<checkpoints, owners, active, claimed, transcript, pending, used, step, madeFor>>
  BY DEF CreatePlan
<1>2. PlanInv' BY <1>1 DEF PlanInv
<1>3. Completed' = {}
  <2>1. DOMAIN tasks' = 1..2 BY <1>1, PlanShape
  <2>2. {j \in 1..2 : j < 1} = {} OBVIOUS
  <2> QED BY <1>1, <2>1, <2>2 DEF Completed
<1> QED BY <1>1, <1>2, <1>3
  DEF TaskInv, OwnersInv, NothingIsLost, EvidenceServesOneTask, EvidenceStaysAvailable,
      CompletedTasksHaveState

(* The checkpoint of the task in progress completes it and nothing else.   *)
LEMMA CheckpointCompletes ==
  ASSUME PlanInv, NEW key \in Tasks, CreateCheckpoint(key)
  PROVE  /\ PlanInv'
         /\ HasPlan => key \notin Completed /\ Completed' = Completed \cup {key}
         /\ ~HasPlan => Completed = {} /\ Completed' = {}
<1>1. UNCHANGED tasks BY DEF CreateCheckpoint
<1>2. CASE ~HasPlan
  <2>1. UNCHANGED current BY <1>2 DEF CreateCheckpoint
  <2>2. Completed = {} BY <1>2, PlanSays
  <2>3. UNCHANGED Completed BY <1>1, <2>1 DEF Completed
  <2> QED BY <1>1, <1>2, <2>1, <2>2, <2>3 DEF PlanInv
<1>3. CASE HasPlan
  <2>1. current' = current + 1 /\ key = CurrentKey BY <1>3 DEF CreateCheckpoint
  <2>2. /\ tasks \in Plans /\ current \in 1..3
        /\ current = 1 => CurrentKey = tasks[1] /\ Completed = {}
        /\ current = 2 => CurrentKey = tasks[2] /\ Completed = {tasks[1]}
        /\ current = 3 => CurrentKey = NoTask
    BY <1>3, PlanSays
  <2>3. current \in 1..2 BY <2>1, <2>2, TaskAssumption
  <2>4. PlanInv' BY <1>1, <2>1, <2>2, <2>3 DEF PlanInv
  <2>5. HasPlan' BY <1>1, <1>3 DEF HasPlan
  <2>6. /\ current' = 2 => Completed' = {tasks[1]}
        /\ current' = 3 => Completed' = {tasks[1], tasks[2]}
    <3>1. DOMAIN tasks = 1..2 BY <2>2, PlanShape
    <3>2. Completed' = {tasks[i] : i \in {j \in 1..2 : j < current'}} BY <1>1, <3>1 DEF Completed
    <3>3. {j \in 1..2 : j < 2} = {1} /\ {j \in 1..2 : j < 3} = {1, 2} OBVIOUS
    <3> QED BY <3>2, <3>3
  <2>7. tasks[1] # tasks[2] BY <2>2, PlanShape
  <2>8. CASE current = 1 BY <1>3, <2>1, <2>2, <2>4, <2>6, <2>8
  <2>9. CASE current = 2
    <3>1. key = tasks[2] /\ Completed = {tasks[1]} BY <2>1, <2>2, <2>9
    <3>2. Completed' = {tasks[1], tasks[2]} BY <2>1, <2>6, <2>9
    <3> QED BY <1>3, <2>4, <2>7, <3>1, <3>2
  <2> QED BY <2>3, <2>8, <2>9
<1> QED BY <1>2, <1>3

LEMMA CheckpointKeeps ==
  ASSUME TaskInv, NEW key \in Tasks, CreateCheckpoint(key)
  PROVE  TaskInv'
<1> DEFINE sources == SourcesOf(key)
<1>1. /\ step = "batch"
      /\ checkpoints' = [k \in DOMAIN checkpoints \cup {key} |->
                           IF k = key THEN sources ELSE checkpoints[k]]
      /\ claimed' = claimed \cup sources /\ active' = active \ sources
      /\ owners' = [c \in DOMAIN owners \ sources |-> owners[c]]
      /\ UNCHANGED <<tasks, transcript, pending, used, step, madeFor>>
  BY DEF CreateCheckpoint
<1>2. /\ sources \subseteq active
      /\ HasPlan => \A c \in sources : owners[c] = key
  BY DEF SourcesOf
<1> HIDE DEF sources
<1>3. /\ PlanInv'
      /\ HasPlan => key \notin Completed /\ Completed' = Completed \cup {key}
      /\ ~HasPlan => Completed = {} /\ Completed' = {}
  BY CheckpointCompletes DEF TaskInv
<1>4. OwnersInv' BY <1>1, <1>2 DEF TaskInv, OwnersInv
<1>5. NothingIsLost' BY <1>1 DEF TaskInv, NothingIsLost
<1>6. EvidenceStaysAvailable' BY <1>1 DEF TaskInv, EvidenceStaysAvailable
<1>7. CompletedTasksHaveState' BY <1>1, <1>3 DEF TaskInv, CompletedTasksHaveState
<1>8. \A k \in DOMAIN checkpoints : checkpoints[k] \cap sources = {}
  BY <1>2 DEF TaskInv, OwnersInv
<1>9. ASSUME NEW k \in DOMAIN checkpoints', NEW c \in checkpoints'[k], k \in Completed'
      PROVE  madeFor'[c] = k
  <2>1. HasPlan BY <1>3, <1>9
  <2>2. CASE k = key
    <3>1. c \in sources /\ owners[c] = key BY <1>1, <1>2, <1>9, <2>1, <2>2
    <3> QED BY <1>1, <1>2, <2>2, <3>1 DEF TaskInv, OwnersInv
  <2>3. CASE k # key
    <3>1. k \in Completed /\ k \in DOMAIN checkpoints /\ c \in checkpoints[k]
      BY <1>1, <1>3, <1>9, <2>1, <2>3
    <3> QED BY <1>1, <3>1 DEF TaskInv, EvidenceServesOneTask
  <2> QED BY <2>2, <2>3
<1>10. ASSUME NEW k \in DOMAIN checkpoints', NEW l \in DOMAIN checkpoints', k # l
       PROVE  checkpoints'[k] \cap checkpoints'[l] = {}
  <2>1. CASE k = key BY <1>1, <1>8, <1>10, <2>1
  <2>2. CASE l = key BY <1>1, <1>8, <1>10, <2>2
  <2>3. CASE k # key /\ l # key
    BY <1>1, <1>10, <2>3 DEF TaskInv, EvidenceServesOneTask
  <2> QED BY <2>1, <2>2, <2>3
<1>11. EvidenceServesOneTask' BY <1>9, <1>10 DEF EvidenceServesOneTask
<1> QED BY <1>3, <1>4, <1>5, <1>6, <1>7, <1>11 DEF TaskInv

(* A refresh between two batches, over the messages a compaction left.     *)
LEMMA RefreshKeeps ==
  ASSUME TaskInv, NEW seen \in SUBSET transcript, step = "between", step' \in {"between", "batch"},
         transcript' = seen, Refreshed(seen),
         UNCHANGED <<tasks, current, checkpoints, claimed, used, pending, madeFor>>
  PROVE  TaskInv'
<1>1. /\ active' = {c \in seen : c \in DOMAIN owners /\ c \notin claimed}
      /\ owners' = [c \in active' |-> owners[c]]
  BY DEF Refreshed
<1>2. PlanInv' BY DEF TaskInv, PlanInv
<1>3. OwnersInv' BY <1>1 DEF TaskInv, OwnersInv
<1>4. \A c \in seen : c \in claimed \cup active' BY <1>1 DEF TaskInv, NothingIsLost
<1>5. NothingIsLost' /\ EvidenceStaysAvailable'
  BY <1>1, <1>4 DEF TaskInv, NothingIsLost, EvidenceStaysAvailable
<1>6. UNCHANGED Completed BY DEF Completed
<1>7. EvidenceServesOneTask' /\ CompletedTasksHaveState'
  BY <1>6 DEF TaskInv, EvidenceServesOneTask, CompletedTasksHaveState
<1> QED BY <1>2, <1>3, <1>5, <1>7 DEF TaskInv

LEMMA TaskStep ==
  ASSUME TaskInv, [TaskNext]_taskVars
  PROVE  TaskInv'
<1>1. CASE UNCHANGED taskVars
  <2>1. UNCHANGED Completed BY <1>1 DEF taskVars, Completed
  <2> QED BY <1>1, <2>1
    DEF taskVars, TaskInv, PlanInv, OwnersInv, NothingIsLost, EvidenceServesOneTask,
        EvidenceStaysAvailable, CompletedTasksHaveState
<1>2. CASE EndBatch
  <2>1. UNCHANGED Completed BY <1>2 DEF EndBatch, Completed
  <2> QED BY <1>2, <2>1
    DEF EndBatch, TaskInv, PlanInv, OwnersInv, NothingIsLost, EvidenceServesOneTask,
        EvidenceStaysAvailable, CompletedTasksHaveState
<1>3. CASE StopExecution
  <2>1. UNCHANGED Completed BY <1>3 DEF StopExecution, Completed
  <2> QED BY <1>3, <2>1
    DEF StopExecution, TaskInv, PlanInv, OwnersInv, NothingIsLost, EvidenceServesOneTask,
        EvidenceStaysAvailable, CompletedTasksHaveState
<1>4. CASE NextBatch
  <2>1. transcript \in SUBSET transcript OBVIOUS
  <2> QED BY <1>4, <2>1, RefreshKeeps DEF NextBatch
<1>5. ASSUME NEW kept \in SUBSET transcript, Compact(kept) PROVE TaskInv'
  BY <1>5, RefreshKeeps DEF Compact
<1>6. CASE ResetTasks
  <2>1. TaskInit' BY <1>6 DEF ResetTasks, TaskInit
  <2>2. TaskInit' => TaskInv' BY TaskInitInv, PTL
  <2> QED BY <2>1, <2>2
<1> QED
  BY <1>1, <1>2, <1>3, <1>4, <1>5, <1>6, GroupKeeps, PlanKeeps, CheckpointKeeps DEF TaskNext

LEMMA TaskInvHolds == TaskSpec => []TaskInv
BY TaskInitInv, TaskStep, PTL DEF TaskSpec

LEMMA EvidenceFromInv == TaskInv => EvidenceReachesAnswer
<1> SUFFICES ASSUME TaskInv PROVE EvidenceReachesAnswer OBVIOUS
<1>1. current \in 0 .. Len(tasks) + 1
  <2>1. CASE tasks = <<>> /\ current = 0 BY <2>1, EmptyPlan
  <2>2. CASE tasks \in Plans /\ current \in 1..3
    <3>1. Len(tasks) = 2 BY <2>2, PlanShape
    <3> QED BY <2>2, <3>1
  <2> QED BY <2>1, <2>2 DEF TaskInv, PlanInv
<1>2. TaskTypeOK BY <1>1 DEF TaskInv, OwnersInv, TaskTypeOK
<1> QED BY <1>2 DEF EvidenceReachesAnswer, TaskInv

(* Whatever batches, plans, checkpoints, compactions and deadlines come in *)
(* a stream (agent/task_state.py, and runtime.py where it refreshes it):   *)
(* an observation can be checkpointed until a checkpoint of its own task   *)
(* has taken it, no observation serves two checkpoints, and every task     *)
(* reported complete has a checkpoint.                                     *)
THEOREM EvidenceHolds == TaskSpec => []EvidenceReachesAnswer
BY TaskInvHolds, EvidenceFromInv, PTL
-----------------------------------------------------------------------------
(* The stored tool results                                                 *)

(* Numbers have a least one.                                               *)
LEMMA LeastExists ==
  ASSUME NEW T \in SUBSET Nat, T # {}
  PROVE  \E m \in T : \A k \in T : m <= k
<1>1. PICK m \in T : \A k \in T : ~(<<k, m>> \in OpToRel(<, Nat))
  BY NatLessThanWellFounded, WFMin
<1>2. \A k \in T : k < m => <<k, m>> \in OpToRel(<, Nat)
  BY DEF OpToRel
<1>3. \A k \in T : ~(k < m)
  BY <1>1, <1>2
<1>4. \A k \in T : k \in Nat /\ m \in Nat
  OBVIOUS
<1>5. \A k \in T : m <= k
  BY ONLY <1>3, <1>4
<1> QED BY <1>5

(* Bounded ones have a greatest one.                                       *)
LEMMA GreatestExists ==
  ASSUME NEW n \in Nat, NEW T \in SUBSET (0..n), T # {}
  PROVE  \E m \in T : \A k \in T : k <= m
<1> DEFINE D == {n - k : k \in T}
<1>1. PICK d \in D : \A k \in D : d <= k
  <2>1. \A k \in T : k \in 0..n /\ n - k \in Nat
    OBVIOUS
  <2>2. D \in SUBSET Nat /\ D # {}
    BY <2>1
  <2> HIDE DEF D
  <2> QED BY <2>2, LeastExists
<1>2. PICK m \in T : d = n - m
  OBVIOUS
<1>3. \A k \in T : n - m <= n - k
  BY <1>1, <1>2
<1>4. \A k \in T : k <= m
  BY <1>3
<1> QED BY <1>4

(* What holds of the first value, and of a value if of the one before it,  *)
(* holds of all.                                                           *)
LEMMA Upwards ==
  ASSUME NEW V, NEW n \in Nat, NEW g, g[0] \in V,
         \A k \in 1..n : g[k - 1] \in V => g[k] \in V
  PROVE  \A k \in 0..n : g[k] \in V
<1> SUFFICES ASSUME NEW j \in 0..n, g[j] \notin V PROVE FALSE
  OBVIOUS
<1> DEFINE T == {k \in 0..n : g[k] \notin V}
<1>1. PICK m \in T : \A k \in T : m <= k
  <2>1. T \in SUBSET Nat /\ T # {}
    OBVIOUS
  <2> HIDE DEF T
  <2> QED BY <2>1, LeastExists
<1>2. m \in 1..n /\ m - 1 \in 0..n /\ ~(m <= m - 1)
  OBVIOUS
<1>3. m - 1 \notin T
  BY <1>1, <1>2
<1> QED BY <1>2, <1>3

(* The first n values of g follow, by the functions of G, from the first.  *)
Follows(g, first, G, n) == g[0] = first /\ \A k \in 1..n : g[k] = G[k][g[k - 1]]

(* Such values always exist.                                               *)
LEMMA Recursion ==
  ASSUME NEW V, NEW n \in Nat, NEW first \in V, NEW G \in [1..n -> [V -> V]]
  PROVE  \E g \in [0..n -> V] : Follows(g, first, G, n)
<1> USE DEF Follows
<1> DEFINE Is(g, m) == g[0] = first /\ \A k \in 1..m : g[k] = G[k][g[k - 1]]
           T == {m \in 0..n : ~\E g \in [0..m -> V] : Is(g, m)}
<1> SUFFICES ASSUME n \in T PROVE FALSE
  OBVIOUS
<1>1. PICK m \in T : \A k \in T : m <= k
  <2> HIDE DEF Is
  <2>1. n \in T /\ \A m \in T : m \in 0..n
    OBVIOUS
  <2> HIDE DEF T
  <2>2. T \in SUBSET Nat /\ T # {}
    BY <2>1
  <2> QED BY <2>2, LeastExists
<1>2. CASE m = 0
  <2>1. [k \in 0..0 |-> first] \in [0..0 -> V] /\ Is([k \in 0..0 |-> first], 0)
    OBVIOUS
  <2> QED BY <1>2, <2>1
<1>3. CASE m # 0
  <2>1. PICK p \in 0..n : p = m - 1 /\ m \in 1..n /\ ~(m <= p)
    BY <1>3
  <2>2. p \notin T
    BY <1>1, <2>1
  <2>3. PICK g \in [0..p -> V] : Is(g, p)
    BY <2>2
  <2> DEFINE h == [k \in 0..m |-> IF k = m THEN G[m][g[p]] ELSE g[k]]
  <2>4. h \in [0..m -> V]
    <3>1. g[p] \in V /\ m \in 1..n /\ G[m] \in [V -> V]
      BY <2>1
    <3>2. G[m][g[p]] \in V
      BY <3>1
    <3>3. \A k \in 0..m : k = m \/ k \in 0..p
      BY <2>1
    <3> QED BY <3>2, <3>3
  <2>5. h[0] = first
    BY <1>3, <2>3
  <2>6. ASSUME NEW k \in 1..m PROVE h[k] = G[k][h[k - 1]]
    <3>1. CASE k = m
      <4>1. h[p] = g[p] /\ k - 1 = p
        BY <2>1, <3>1
      <4> QED BY <3>1, <4>1
    <3>2. CASE k # m
      <4>1. k \in 1..p /\ k - 1 \in 0..m /\ k - 1 # m
        BY <2>1, <3>2
      <4>2. h[k] = g[k] /\ h[k - 1] = g[k - 1]
        BY <3>2, <4>1
      <4> QED BY <2>3, <4>1, <4>2
    <3> QED BY <3>1, <3>2
  <2> HIDE DEF h
  <2>7. Is(h, m)
    BY <2>5, <2>6
  <2>8. \E x \in [0..m -> V] : Is(x, m)
    BY <2>4, <2>7
  <2> QED BY <2>8
<1> QED BY <1>2, <1>3

(* The size of rows is a number, of none it is 0.                          *)
LEMMA SizeIsNat ==
  ASSUME NEW rows \in Seq(Nat)
  PROVE  SizeOf(rows) \in Nat /\ (rows = <<>> => SizeOf(rows) = 0)
<1>1. PICK n \in Nat : n = Len(rows)
  BY LenProperties
<1>2. \A k \in 1..n : rows[k] \in Nat
  BY <1>1, ElementOfSeq
<1> DEFINE Sums(s) == s = [k \in 0..n |-> IF k = 0 THEN 0 ELSE s[k - 1] + rows[k]]
<1>3. \E s : Sums(s)
  <2>1. PICK G \in [1..n -> [Nat -> Nat]] : \A k \in 1..n, v \in Nat : G[k][v] = v + rows[k]
    <3>1. [k \in 1..n |-> [v \in Nat |-> v + rows[k]]] \in [1..n -> [Nat -> Nat]]
      BY <1>2
    <3> QED BY <3>1
  <2>2. n \in Nat /\ 0 \in Nat
    OBVIOUS
  <2>3. PICK g \in [0..n -> Nat] : Follows(g, 0, G, n)
    BY <2>2, <2>1, Recursion
  <2>4. \A k \in 1..n : k - 1 \in 0..n
    OBVIOUS
  <2>5. \A k \in 1..n : g[k] = g[k - 1] + rows[k]
    BY <2>1, <2>3, <2>4 DEF Follows
  <2>6. \A k \in 0..n : k = 0 \/ k \in 1..n
    OBVIOUS
  <2>7. Sums(g)
    BY <2>3, <2>5, <2>6 DEF Follows
  <2> QED BY <2>7
<1> DEFINE s == CHOOSE x : Sums(x)
<1>4. Sums(s)
  BY <1>3
<1>5. SizeOf(rows) = s[n]
  BY <1>1 DEF SizeOf
<1> HIDE DEF s
<1>6. s[0] = 0
  BY <1>4
<1>7. \A k \in 1..n : s[k] = s[k - 1] + rows[k]
  BY <1>4
<1>8. \A k \in 0..n : s[k] \in Nat
  <2>1. ASSUME NEW k \in 1..n, s[k - 1] \in Nat PROVE s[k] \in Nat
    <3>1. PICK a \in Nat, b \in Nat : a = s[k - 1] /\ b = rows[k]
      BY <1>2, <2>1
    <3>2. s[k] = a + b
      BY <1>7, <3>1
    <3> QED BY <3>2
  <2>2. n \in Nat /\ s[0] \in Nat /\ \A k \in 1..n : s[k - 1] \in Nat => s[k] \in Nat
    BY <1>6, <2>1
  <2> QED BY ONLY <2>2, Upwards, Zenon
<1>9. rows = <<>> => n = 0
  BY <1>1
<1> QED BY <1>5, <1>6, <1>8, <1>9

(* What fits is a part of the rows, and fits.                              *)
LEMMA FittingFits ==
  ASSUME NEW rows \in Seq(Nat)
  PROVE  /\ Fitting(rows) \in 0..Len(rows)
         /\ SizeOf(SubSeq(rows, 1, Fitting(rows))) \in Nat
         /\ Envelope + SizeOf(SubSeq(rows, 1, Fitting(rows))) <= Budget
<1>1. PICK n \in Nat : n = Len(rows)
  BY LenProperties
<1> DEFINE Size(m) == SizeOf(SubSeq(rows, 1, m))
<1>2. \A m \in 0..n : Size(m) \in Nat
  <2> SUFFICES ASSUME NEW m \in 0..n PROVE SubSeq(rows, 1, m) \in Seq(Nat)
    BY SizeIsNat
  <2> QED BY <1>1
<1>3. Size(0) = 0
  <2>1. SubSeq(rows, 1, 0) \in Seq(Nat) /\ SubSeq(rows, 1, 0) = <<>>
    OBVIOUS
  <2> QED BY <2>1, SizeIsNat
<1> HIDE DEF Size
<1> DEFINE Is(m) == /\ Envelope + Size(m) <= Budget
                    /\ \A k \in m + 1..n : Envelope + Size(k) > Budget
           T == {m \in 0..n : \A k \in m + 1..n : Envelope + Size(k) > Budget}
<1>4. \E m \in 0..n : Is(m)
  <2>1. PICK m \in T : \A k \in T : m <= k
    <3>1. T \in SUBSET Nat /\ n \in T
      OBVIOUS
    <3> HIDE DEF T
    <3> QED BY <3>1, LeastExists
  <2>2. CASE m = 0
    BY <1>3, <2>2, ArtifactAssumption
  <2>3. CASE m # 0
    <3>1. PICK p \in 0..n : p = m - 1 /\ p + 1 = m /\ ~(m <= p)
      BY <2>3
    <3>2. p \notin T
      BY <2>1, <3>1
    <3>3. PICK k \in m..n : ~(Envelope + Size(k) > Budget)
      BY <3>1, <3>2
    <3>4. k = m
      BY <3>3
    <3>5. Envelope + Size(m) <= Budget
      BY <1>2, <3>3, <3>4, ArtifactAssumption
    <3> QED BY <3>5
  <2> QED BY <2>2, <2>3
<1>5. Fitting(rows) = CHOOSE m \in 0..n : Is(m)
  BY <1>1 DEF Fitting, Size
<1>6. Fitting(rows) \in 0..n /\ Is(Fitting(rows))
  BY <1>4, <1>5
<1>7. Envelope + Size(Fitting(rows)) <= Budget /\ Size(Fitting(rows)) \in Nat
  BY <1>2, <1>6
<1> QED BY <1>1, <1>6, <1>7 DEF Size

(* The view of a document never grows over the budget.                     *)
LEMMA ViewFits ==
  ASSUME NEW rows \in Seq(Nat)
  PROVE  View(rows) \in 0..Budget
<1>1. PICK n \in Nat : n = Len(rows)
  BY LenProperties
<1>2. \A k \in 1..n : rows[k] \in Nat
  BY <1>1, ElementOfSeq
<1> DEFINE V == [size : 0..Budget, ended : BOOLEAN]
           first == [size |-> Envelope, ended |-> FALSE]
           Grown(was, k) ==
             IF was.ended THEN was
             ELSE IF was.size + rows[k] <= Budget THEN [was EXCEPT !.size = @ + rows[k]]
             ELSE IF was.size + PointerSize <= Budget THEN [was EXCEPT !.size = @ + PointerSize]
             ELSE [was EXCEPT !.ended = TRUE]
           Views(u) == u = [k \in 0..n |-> IF k = 0 THEN first ELSE Grown(u[k - 1], k)]
<1>3. first \in V
  BY ArtifactAssumption
<1>4. \A k \in 1..n : \A was \in V : Grown(was, k) \in V
  <2> SUFFICES ASSUME NEW k \in 1..n, NEW was \in V PROVE Grown(was, k) \in V
    OBVIOUS
  <2>1. was.size \in 0..Budget /\ rows[k] \in Nat /\ PointerSize \in Nat /\ Budget \in Nat
    BY <1>2, ArtifactAssumption
  <2>2. ASSUME NEW a \in Nat, was.size + a <= Budget
        PROVE  [was EXCEPT !.size = @ + a] \in V
    <3>1. PICK z \in 0..Budget : z = was.size + a
      BY <2>1, <2>2
    <3>2. [was EXCEPT !.size = z] \in V
      OBVIOUS
    <3> QED BY <3>1, <3>2
  <2>3. [was EXCEPT !.ended = TRUE] \in V
    OBVIOUS
  <2> QED BY <2>1, <2>2, <2>3
<1>5. View(rows) = (CHOOSE u : Views(u))[n].size
  BY <1>1 DEF View
<1> HIDE DEF V, first, Grown
<1>6. \E u : Views(u)
  <2>1. PICK G \in [1..n -> [V -> V]] : \A k \in 1..n, v \in V : G[k][v] = Grown(v, k)
    <3>1. [k \in 1..n |-> [v \in V |-> Grown(v, k)]] \in [1..n -> [V -> V]]
      BY <1>4
    <3> QED BY <3>1
  <2>2. n \in Nat /\ first \in V
    BY <1>3
  <2>3. PICK g \in [0..n -> V] : Follows(g, first, G, n)
    BY <2>2, <2>1, Recursion
  <2>4. \A k \in 1..n : k - 1 \in 0..n
    OBVIOUS
  <2>5. \A k \in 1..n : g[k] = Grown(g[k - 1], k)
    BY <2>1, <2>3, <2>4 DEF Follows
  <2>6. \A k \in 0..n : k = 0 \/ k \in 1..n
    OBVIOUS
  <2>7. Views(g)
    BY <2>3, <2>5, <2>6 DEF Follows
  <2> QED BY <2>7
<1> DEFINE u == CHOOSE x : Views(x)
<1>7. Views(u)
  BY <1>6
<1> HIDE DEF u
<1>8. u[0] = first /\ \A k \in 1..n : u[k] = Grown(u[k - 1], k)
  BY <1>7
<1>9. \A k \in 0..n : u[k] \in V
  <2>1. \A k \in 1..n : u[k - 1] \in V => u[k] \in V
    BY <1>4, <1>8
  <2> QED BY <1>3, <1>8, <2>1, Upwards
<1>10. u[n] \in V
  BY <1>9
<1> QED BY <1>5, <1>10 DEF u, V
-----------------------------------------------------------------------------
(* What a tool may return; only `over_limit' would lose it.                *)
ResultKinds ==
  {"inline", "whole", "view", "rows", "row", "outline", "grep", "query", "timeout",
   "not_found", "too_large"}

ToolResults ==
  [kind : ResultKinds, ref : Nat, from : Nat, to : Nat, size : 0..Budget, raw : BOOLEAN]

(* ... before any rewriting                                                *)
Fresh == {message \in ToolResults : message.raw = TRUE}

(* The operations that page                                                *)
PageOps == {"grep", "query"}

(* What a call may ask for                                                 *)
CallType ==
  [op : {"produce", "rows", "row", "outline"} \cup PageOps, safe : BOOLEAN, ref : {0, 1, 2},
   at : Nat, limit : Nat]

(* What the variables range over                                           *)
ReadTypes ==
  /\ documents \in Seq(Seq(Nat)) /\ lost \in Nat
  /\ calling \in Seq(CallType)
  /\ results \in [DOMAIN calling -> {<<>>} \cup {<<message>> : message \in Fresh}]
  /\ toolHistory \in Seq(ToolResults)
  /\ pager.next \in Int /\ pager.seen \in Seq(Nat) /\ DOMAIN pager = {"next", "seen"}

(* One call of a turn pages, and asks for the page that is next.           *)
PageIsNext ==
  /\ \A i, j \in DOMAIN calling :
       calling[i].op \in PageOps /\ calling[j].op \in PageOps => i = j
  /\ \A i \in DOMAIN calling : calling[i].op \in PageOps =>
       calling[i].ref = 1 /\ (~Ended(i) => calling[i].at = pager.next)
  /\ \A i \in DOMAIN calling : calling[i].op = "row" => calling[i].at # 0

(* The pages of a document lie within it.                                  *)
PagesLieWithin ==
  /\ pager.next # 0 => documents # <<>>
  /\ pager.next > 0 => pager.next <= Len(documents[1])

(* The inductive invariant of the tool results                             *)
ReadsInv == ReadTypes /\ PageIsNext /\ PagesLieWithin /\ PagesAreComplete /\ ReceiptsAreCovered

(* An error is a result of no document.                                    *)
LEMMA ErrorsAreFresh ==
  \A kind \in ResultKinds : Error(kind) \in Fresh /\ Error(kind).ref = 0
BY ArtifactAssumption DEF Error, ToolResult, Fresh, ToolResults

(* A result of a kind, of a known document, that fits                      *)
LEMMA ResultsAreFresh ==
  ASSUME NEW kind \in ResultKinds, NEW ref \in Nat, NEW a \in Nat, NEW b \in Nat,
         NEW size \in Nat, size <= Budget
  PROVE  ToolResult(kind, ref, a, b, size) \in Fresh
BY ArtifactAssumption DEF ToolResult, Fresh, ToolResults

(* The last check lets every such result pass.                             *)
LEMMA BoundedKeeps ==
  ASSUME NEW message \in Fresh
  PROVE  Bounded(message) = message
BY ArtifactAssumption DEF Bounded, Fresh, ToolResults

(* Whatever a tool produces is shown within the budget.                    *)
LEMMA ProducedIsFresh ==
  ASSUME ReadTypes, NEW rows \in Documents, NEW always \in BOOLEAN
  PROVE  Produced(rows, always) \in Fresh
<1>1. rows \in Seq(Nat) /\ Budget \in Nat /\ InlineMax \in Nat /\ InlineMax <= Budget
      /\ Envelope \in Nat
  BY ArtifactAssumption
<1>2. PICK size \in Nat : size = SizeOf(rows)
  BY <1>1, SizeIsNat
<1>3. PICK ref \in Nat : ref = Len(documents) + 1
  BY DEF ReadTypes
<1>4. View(rows) \in Nat /\ View(rows) <= Budget
  BY <1>1, ViewFits
<1>5. size <= InlineMax => ToolResult("inline", 0, 0, 0, size) \in Fresh
  BY <1>1, ResultsAreFresh DEF ResultKinds
<1>6. Envelope + size <= Budget => ToolResult("whole", ref, 0, 0, Envelope + size) \in Fresh
  BY <1>1, ResultsAreFresh DEF ResultKinds
<1>7. ToolResult("view", ref, 0, 0, View(rows)) \in Fresh
  BY <1>1, <1>4, ResultsAreFresh DEF ResultKinds
<1> QED BY <1>2, <1>3, <1>5, <1>6, <1>7 DEF Produced

(* The rows a page is asked for                                            *)
EndOf(rows, offset, limit) == IF offset + limit < Len(rows) THEN offset + limit ELSE Len(rows)
Slice(rows, offset, limit) == SubSeq(rows, offset + 1, EndOf(rows, offset, limit))

(* What needs room for a page of so many rows                              *)
PageSize(rows) == Envelope + SizeOf(SubSeq(rows, 1, Fitting(rows)))

(* What a page shows of them fits.                                         *)
LEMMA SliceFits ==
  ASSUME NEW rows \in Seq(Nat), NEW offset \in Nat, NEW limit \in Nat,
         NEW end, end = EndOf(rows, offset, limit),
         NEW slice, slice = Slice(rows, offset, limit)
  PROVE  /\ slice \in Seq(Nat) /\ end \in Nat
         /\ Len(slice) = (IF offset + 1 <= end THEN end - offset ELSE 0)
         /\ Fitting(slice) \in 0..Len(slice)
         /\ PageSize(slice) \in Nat /\ PageSize(slice) <= Budget
<1> USE DEF EndOf, Slice
<1>1. PICK n \in Nat : n = Len(rows)
  BY LenProperties
<1>2. end \in Nat /\ end <= n
  BY <1>1
<1>3. slice \in Seq(Nat)
  BY <1>1, <1>2
<1>4. Len(slice) = (IF offset + 1 <= end THEN end - offset ELSE 0)
  <2>1. offset + 1 \in 1..n + 1 \/ ~(offset + 1 <= end)
    BY <1>2
  <2> QED BY <1>1, <1>2
<1>5. PICK size \in Nat : size = SizeOf(SubSeq(slice, 1, Fitting(slice)))
  BY <1>3, FittingFits
<1>6. Fitting(slice) \in 0..Len(slice) /\ Envelope + size <= Budget
  BY <1>3, <1>5, FittingFits
<1>7. Envelope + size \in Nat
  <2>1. Envelope \in Nat
    BY ArtifactAssumption
  <2> QED BY <2>1
<1> QED BY <1>2, <1>3, <1>4, <1>5, <1>6, <1>7 DEF PageSize

(* So is what a read of a list returns, ...                                *)
LEMMA ReadRowsIsFresh ==
  ASSUME ReadTypes, NEW ref \in DOMAIN documents, NEW offset \in Nat, NEW limit \in Nat
  PROVE  ReadRows(ref, offset, limit) \in Fresh
<1>1. documents[ref] \in Seq(Nat) /\ ref \in Nat
  BY DEF ReadTypes
<1>2. PICK asked : asked = Slice(documents[ref], offset, limit)
  OBVIOUS
<1>3. PICK count \in Nat, size \in Nat :
        count = Fitting(asked) /\ size = PageSize(asked) /\ size <= Budget
  <2>1. /\ Len(asked) \in Nat /\ Fitting(asked) \in 0..Len(asked)
        /\ PageSize(asked) \in Nat /\ PageSize(asked) <= Budget
    BY <1>1, <1>2, SliceFits
  <2> QED BY <2>1
<1>4. ReadRows(ref, offset, limit)
        = IF asked # <<>> /\ count = 0 THEN Error("too_large")
          ELSE ToolResult("rows", ref, offset, offset + count, size)
  BY <1>2, <1>3 DEF ReadRows, Slice, EndOf, PageSize
<1>5. ToolResult("rows", ref, offset, offset + count, size) \in Fresh
  BY <1>1, <1>3, ResultsAreFresh DEF ResultKinds
<1> QED BY <1>4, <1>5, ErrorsAreFresh DEF ResultKinds

(* ... and a read of one value.                                            *)
LEMMA ReadRowIsFresh ==
  ASSUME ReadTypes, NEW ref \in DOMAIN documents, NEW i \in Nat \ {0}
  PROVE  ReadRow(ref, i) \in Fresh
<1>1. documents[ref] \in Seq(Nat) /\ ref \in Nat
  BY DEF ReadTypes
<1>2. PICK n \in Nat : n = Len(documents[ref])
  BY <1>1, LenProperties
<1>3. CASE i > n
  BY <1>2, <1>3, ErrorsAreFresh DEF ReadRow, ResultKinds
<1>4. CASE ~(i > n)
  <2>1. PICK size \in Nat : size = documents[ref][i]
    BY <1>1, <1>2, <1>4, ElementOfSeq
  <2>2. ASSUME Envelope + size <= Budget
        PROVE  ToolResult("row", ref, i, i, Envelope + size) \in Fresh
    <3>1. Envelope \in Nat
      BY ArtifactAssumption
    <3>2. Envelope + size \in Nat
      BY <3>1
    <3> QED BY <1>1, <2>2, <3>2, ResultsAreFresh DEF ResultKinds
  <2>3. ReadRow(ref, i) = IF Envelope + size > Budget THEN Error("too_large")
                          ELSE ToolResult("row", ref, i, i, Envelope + size)
    BY <1>2, <1>4, <2>1 DEF ReadRow
  <2>4. Envelope + size > Budget \/ Envelope + size <= Budget
    BY ArtifactAssumption
  <2>5. CASE Envelope + size > Budget
    BY <2>3, <2>5, ErrorsAreFresh DEF ResultKinds
  <2>6. CASE ~(Envelope + size > Budget)
    BY <2>2, <2>3, <2>4, <2>6
  <2> QED BY <2>5, <2>6
<1> QED BY <1>3, <1>4

(* A page begins where it was asked to, stays within the document, and     *)
(* ends with it unless there is more.                                      *)
LEMMA PageIsFresh ==
  ASSUME ReadTypes, documents # <<>>, NEW op \in PageOps, NEW limit \in Nat,
         NEW n \in Nat, n = Len(documents[1]), NEW offset \in 0..n,
         NEW message, message = PageMessage(op, offset, limit)
  PROVE  /\ message \in Fresh
         /\ message.ref # 0 =>
              /\ message.from = offset /\ message.to \in offset..n
              /\ ~Page(documents[1], offset, limit).more => message.to = n
<1>1. documents[1] \in Seq(Nat)
  BY DEF ReadTypes
<1>2. PICK rows \in Seq(Nat) : rows = documents[1] /\ Len(rows) = n
  BY <1>1
<1> DEFINE page == Page(rows, offset, limit)
<1>3. PICK end : end = EndOf(rows, offset, limit)
  OBVIOUS
<1>4. PICK found : found = Slice(rows, offset, limit)
  OBVIOUS
<1>5. PICK c \in Nat, l \in Nat, size \in Nat, e \in Nat :
        /\ c = Fitting(found) /\ l = Len(found) /\ size = PageSize(found) /\ size <= Budget
        /\ c <= l /\ l = (IF offset + 1 <= e THEN e - offset ELSE 0)
        /\ e = (IF offset + limit < n THEN offset + limit ELSE n)
  <2>1. /\ found \in Seq(Nat) /\ end \in Nat
        /\ Len(found) = (IF offset + 1 <= end THEN end - offset ELSE 0)
        /\ Fitting(found) \in 0..Len(found)
        /\ PageSize(found) \in Nat /\ PageSize(found) <= Budget
    BY <1>3, <1>4, SliceFits
  <2>2. PICK l \in Nat : l = Len(found)
    BY <2>1, LenProperties
  <2>3. PICK c \in 0..l : c = Fitting(found)
    BY <2>1, <2>2
  <2>4. PICK e \in Nat : e = end
    BY <2>1
  <2>5. e = (IF offset + limit < n THEN offset + limit ELSE n)
    BY <1>2, <1>3, <2>4 DEF EndOf
  <2>6. l = (IF offset + 1 <= e THEN e - offset ELSE 0)
    BY <2>1, <2>2, <2>4
  <2>7. PICK size \in Nat : size = PageSize(found) /\ size <= Budget
    BY <2>1
  <2>8. c \in Nat /\ c <= l
    OBVIOUS
  <2> QED BY ONLY <2>2, <2>3, <2>4, <2>5, <2>6, <2>7, <2>8
<1>6. page.count = c /\ page.size = size /\ page.more = (offset + limit < n \/ c < l)
  <2>1. page = [count |-> c, fails |-> found # <<>> /\ c = 0,
                more |-> offset + limit < n \/ c < l, size |-> size]
    BY <1>2, <1>4, <1>5 DEF Page, Slice, EndOf, PageSize
  <2> QED BY <2>1
<1> HIDE DEF page
<1>7. offset + c \in offset..n
  BY <1>5
<1>8. ~(offset + limit < n \/ c < l) => offset + c = n
  <2> SUFFICES ASSUME ~(offset + limit < n), ~(c < l) PROVE offset + c = n
    OBVIOUS
  <2>1. e = n /\ c = l
    BY <1>5
  <2>2. CASE offset + 1 <= n
    BY <1>5, <2>1, <2>2
  <2>3. CASE ~(offset + 1 <= n)
    BY <1>5, <2>1, <2>3
  <2> QED BY <2>2, <2>3
<1>9. ToolResult(op, 1, offset, offset + c, size) \in Fresh
  <2>1. op \in ResultKinds /\ 1 \in Nat /\ offset + c \in Nat
    BY <1>7 DEF PageOps, ResultKinds
  <2> QED BY <1>5, <2>1, ResultsAreFresh
<1>10. \/ message = Error("too_large")
       \/ message = ToolResult(op, 1, offset, offset + c, size)
  BY <1>2, <1>6 DEF PageMessage, page
<1>11. CASE message = Error("too_large")
  BY <1>11, ErrorsAreFresh DEF ResultKinds
<1>12. CASE message = ToolResult(op, 1, offset, offset + c, size)
  <2>1. message.from = offset /\ message.to = offset + c
    BY <1>12 DEF ToolResult
  <2>2. ~Page(documents[1], offset, limit).more => offset + c = n
    BY <1>2, <1>6, <1>8 DEF page
  <2> QED BY <1>7, <1>9, <1>12, <2>1, <2>2
<1> QED BY <1>10, <1>11, <1>12

(* What was seen goes on with the page.                                    *)
LEMMA SeenGrows ==
  ASSUME NEW a \in Nat, NEW k \in Nat, NEW s \in Seq(Nat), Len(s) = a, s = [n \in 1..a |-> n],
         NEW more, more = [n \in 1..k |-> a + n], NEW t, t = s \o more
  PROVE  t \in Seq(Nat) /\ Len(t) = a + k /\ t = [n \in 1..(a + k) |-> n]
<1>1. more \in Seq(Nat) /\ Len(more) = k
  OBVIOUS
<1>2. \A n \in 1..k : more[n] = a + n
  OBVIOUS
<1>3. t \in Seq(Nat) /\ Len(t) = a + k
  BY <1>1
<1>4. \A n \in 1..(a + k) : t[n] = n
  <2> SUFFICES ASSUME NEW n \in 1..(a + k) PROVE t[n] = n
    OBVIOUS
  <2>1. t[n] = IF n <= a THEN s[n] ELSE more[n - a]
    BY <1>1
  <2>2. CASE n <= a
    BY <2>1, <2>2
  <2>3. CASE ~(n <= a)
    <3>1. PICK j \in 1..k : j = n - a /\ a + j = n
      BY <2>3
    <3> QED BY <1>2, <2>1, <2>3, <3>1
  <2> QED BY <2>2, <2>3
<1>5. DOMAIN t = 1..(a + k) /\ t = [n \in DOMAIN t |-> t[n]]
  BY <1>3, LenProperties
<1> QED BY <1>3, <1>4, <1>5
-----------------------------------------------------------------------------
(* The receipts                                                            *)

(* A later result shows all an earlier one did.                            *)
Shows(new, old) ==
  new.ref = old.ref /\ new.kind = old.kind /\ old.from..old.to \subseteq new.from..new.to

(* ReceiptsAreCovered of any messages                                      *)
Covered(messages) ==
  \A i \in DOMAIN messages : ~messages[i].raw =>
    \E j \in i + 1..Len(messages) : messages[j].raw /\ Shows(messages[j], messages[i])

(* What the rewriter compares is enough to show as much.                   *)
LEMMA CoversShows ==
  ASSUME NEW new \in ToolResults, NEW old \in ToolResults, Covers(new, old)
  PROVE  new.raw /\ Shows(new, old)
<1>1. /\ new.from \in Nat /\ new.to \in Nat /\ old.from \in Nat /\ old.to \in Nat
  BY DEF ToolResults
<1>2. \A a, b, c, d \in Nat : (a = c /\ b = d) \/ (a <= c /\ d <= b) => c..d \subseteq a..b
  OBVIOUS
<1>3. \/ new.from = old.from /\ new.to = old.to
      \/ new.from <= old.from /\ old.to <= new.to
  BY DEF Covers
<1>4. old.from..old.to \subseteq new.from..new.to
  BY ONLY <1>1, <1>2, <1>3
<1> QED BY <1>4 DEF Covers, Shows

(* Rewriting only replaces, and leaves a last one that shows as much.      *)
LEMMA RewritingCovers ==
  ASSUME NEW messages \in Seq(ToolResults), Covered(messages)
  PROVE  Rewritten(messages) \in Seq(ToolResults) /\ Covered(Rewritten(messages))
<1> DEFINE new == Rewritten(messages)
<1>1. PICK n \in Nat : n = Len(messages) /\ DOMAIN messages = 1..n
  BY LenProperties
<1>2. \A i \in 1..n : messages[i] \in ToolResults
  BY <1>1, ElementOfSeq
<1> DEFINE Replaced(i) == i > scope /\ \E j \in i + 1..n : Covers(messages[j], messages[i])
<1>3. new = [i \in 1..n |-> [messages[i] EXCEPT !.raw = @ /\ ~Replaced(i)]]
  BY <1>1 DEF Rewritten
<1> HIDE DEF new
<1>4. \A i \in 1..n : /\ new[i] \in ToolResults /\ new[i].raw = (messages[i].raw /\ ~Replaced(i))
                      /\ new[i].kind = messages[i].kind /\ new[i].ref = messages[i].ref
                      /\ new[i].from = messages[i].from /\ new[i].to = messages[i].to
  <2> SUFFICES ASSUME NEW i \in 1..n, NEW r \in BOOLEAN, r = (messages[i].raw /\ ~Replaced(i))
      PROVE  /\ new[i] \in ToolResults /\ new[i].raw = r
             /\ new[i].kind = messages[i].kind /\ new[i].ref = messages[i].ref
             /\ new[i].from = messages[i].from /\ new[i].to = messages[i].to
    <3>1. \A i \in 1..n : (messages[i].raw /\ ~Replaced(i)) \in BOOLEAN
      OBVIOUS
    <3> QED BY <3>1
  <2>1. new[i] = [messages[i] EXCEPT !.raw = r]
    BY <1>3
  <2> QED BY <1>2, <2>1 DEF ToolResults
<1>5. new \in Seq(ToolResults) /\ Len(new) = n /\ DOMAIN new = 1..n
  <2>1. \A i \in 1..n : new[i] \in ToolResults
    BY <1>4
  <2>2. new = [i \in 1..n |-> new[i]]
    BY <1>3
  <2>3. new \in [1..n -> ToolResults]
    BY <2>1, <2>2
  <2> QED BY <2>3
<1>6. ASSUME NEW i \in 1..n, ~new[i].raw
      PROVE  \E j \in i + 1..n : new[j].raw /\ Shows(new[j], new[i])
  <2> DEFINE T == {j \in i + 1..n : messages[j].raw /\ Shows(messages[j], messages[i])}
  <2>1. T # {}
    <3>1. CASE ~messages[i].raw
      BY <1>1, <3>1 DEF Covered
    <3>2. CASE messages[i].raw
      <4>1. PICK j \in i + 1..n : Covers(messages[j], messages[i])
        BY <1>4, <1>6, <3>2
      <4>2. j \in 1..n
        OBVIOUS
      <4>3. messages[j].raw /\ Shows(messages[j], messages[i])
        BY <1>2, <4>1, <4>2, CoversShows
      <4> QED BY <4>3
    <3> QED BY <3>1, <3>2
  <2>2. PICK j \in T : \A k \in T : k <= j
    <3>1. T \in SUBSET (0..n)
      OBVIOUS
    <3> HIDE DEF T
    <3> QED BY <2>1, <3>1, GreatestExists
  <2>3. j \in 1..n /\ j \in i + 1..n
    OBVIOUS
  <2>4. messages[j].raw /\ Shows(messages[j], messages[i])
    OBVIOUS
  <2>5. ~Replaced(j)
    <3> SUFFICES ASSUME NEW k \in j + 1..n, Covers(messages[k], messages[j]) PROVE FALSE
      OBVIOUS
    <3>1. k \in 1..n /\ k \in i + 1..n /\ ~(k <= j)
      BY <2>3
    <3>2. messages[k].raw /\ Shows(messages[k], messages[j])
      BY <1>2, <2>3, <3>1, CoversShows
    <3>3. Shows(messages[k], messages[i])
      BY <2>4, <3>2 DEF Shows
    <3> QED BY <2>2, <3>1, <3>2, <3>3
  <2> HIDE DEF T, Replaced
  <2>6. new[j].raw
    BY <1>4, <2>3, <2>4, <2>5
  <2>7. Shows(new[j], new[i])
    BY <1>4, <2>3, <2>4 DEF Shows
  <2> QED BY <2>3, <2>6, <2>7
<1> QED BY <1>5, <1>6 DEF Covered, new
-----------------------------------------------------------------------------
(* Nothing has been asked for yet.                                         *)
LEMMA ReadsInitially == ArtifactInit => ReadsInv
<1> SUFFICES ASSUME ArtifactInit PROVE ReadsInv
  OBVIOUS
<1> USE DEF ArtifactInit, NoPages
<1>1. ReadTypes
  BY DEF ReadTypes
<1>2. PageIsNext /\ PagesLieWithin /\ ReceiptsAreCovered
  BY DEF PageIsNext, PagesLieWithin, ReceiptsAreCovered
<1>3. PagesAreComplete
  <2>1. <<>> = [n \in 1..0 |-> n] /\ Len(<<>>) = 0
    OBVIOUS
  <2> QED BY <2>1 DEF PagesAreComplete
<1> QED BY <1>1, <1>2, <1>3 DEF ReadsInv

(* A set with no two members                                               *)
LEMMA AtMostOne ==
  ASSUME NEW S, IsFiniteSet(S), Cardinality(S) <= 1, NEW x \in S, NEW y \in S
  PROVE  x = y
<1> SUFFICES ASSUME x # y PROVE FALSE
  OBVIOUS
<1>1. IsFiniteSet({x}) /\ Cardinality({x}) = 1
  BY FS_Singleton
<1>2. y \notin {x} /\ {x} \cup {y} = {x, y}
  OBVIOUS
<1>3. Cardinality({x, y}) = 2
  BY <1>1, <1>2, FS_AddElement
<1>4. {x, y} \subseteq S
  OBVIOUS
<1>5. Cardinality({x, y}) <= Cardinality(S) /\ Cardinality(S) \in Nat
  BY <1>4, FS_Subset, FS_CardinalityType
<1> QED BY <1>3, <1>5

(* A turn asks for one page at most, of the document and from where the    *)
(* pager is.                                                               *)
LEMMA TurnKeeps ==
  ASSUME ReadsInv, Turn
  PROVE  ReadsInv'
<1> USE DEF ReadsInv
<1>1. PICK n \in 1..MaxBatch : \E calls \in [1..n -> Shapes] :
        /\ Cardinality({i \in 1..n : calls[i].op \in PageOps}) <= 1
        /\ (\E i \in 1..n : calls[i].op \in PageOps) => pager.next >= 0
        /\ calling' = [i \in 1..n |-> Continues(calls[i])]
        /\ results' = [i \in 1..n |-> <<>>]
  BY DEF Turn, PageOps
<1>2. PICK calls \in [1..n -> Shapes] :
        /\ Cardinality({i \in 1..n : calls[i].op \in PageOps}) <= 1
        /\ (\E i \in 1..n : calls[i].op \in PageOps) => pager.next >= 0
        /\ calling' = [i \in 1..n |-> Continues(calls[i])]
        /\ results' = [i \in 1..n |-> <<>>]
  BY <1>1
<1>3. UNCHANGED <<documents, lost, toolHistory, scope, pager>> /\ calling = <<>>
  BY DEF Turn
<1>4. n \in Nat
  BY ArtifactAssumption
<1>5. \A i \in 1..n : /\ calls[i] \in CallType
                      /\ calls[i].op \in PageOps => calls[i].ref = 1
                      /\ calls[i].op = "row" => calls[i].at = 1
  <2>1. \A c \in Shapes : /\ c \in CallType /\ (c.op \in PageOps => c.ref = 1)
                          /\ c.op = "row" => c.at = 1
    <3> SUFFICES ASSUME NEW c \in Shapes
        PROVE  /\ c \in CallType /\ (c.op \in PageOps => c.ref = 1)
               /\ c.op = "row" => c.at = 1
      OBVIOUS
    <3>1. Offsets \subseteq Nat /\ Limits \subseteq Nat
      BY ArtifactAssumption
    <3>2. CASE c \in [op : {"rows"}, safe : {TRUE}, ref : {1, 2}, at : Offsets, limit : Limits]
      <4>1. c \in CallType
        BY <3>1, <3>2 DEF CallType
      <4>2. c.op = "rows"
        BY <3>2
      <4> QED BY <4>1, <4>2 DEF PageOps
    <3>3. CASE c \in [op : {"row"}, safe : {TRUE}, ref : {1}, at : {1}, limit : {0}]
      <4>1. c = [op |-> "row", safe |-> TRUE, ref |-> 1, at |-> 1, limit |-> 0]
        BY <3>3
      <4>2. c \in CallType
        BY <4>1 DEF CallType
      <4> QED BY <4>1, <4>2 DEF PageOps
    <3>4. CASE c \in [op : {"outline", "grep", "query"}, safe : {TRUE}, ref : {1}, at : {0},
                      limit : {2}]
      <4>1. PICK op \in {"outline", "grep", "query"} :
              c = [op |-> op, safe |-> TRUE, ref |-> 1, at |-> 0, limit |-> 2]
        BY <3>4
      <4>2. c \in CallType
        BY <4>1 DEF CallType, PageOps
      <4> QED BY <4>1, <4>2
    <3>5. CASE \E safe \in BOOLEAN :
                 c = [op |-> "produce", safe |-> safe, ref |-> 0, at |-> 0, limit |-> 0]
      BY <3>5 DEF CallType, PageOps
    <3> QED BY <3>2, <3>3, <3>4, <3>5 DEF Shapes
  <2> QED BY <2>1
<1>6. \A i \in 1..n : /\ calling'[i] \in CallType /\ calling'[i].op = calls[i].op
                      /\ calling'[i].ref = calls[i].ref
                      /\ calls[i].op \in PageOps => calling'[i].at = pager.next
                      /\ calls[i].op \notin PageOps => calling'[i].at = calls[i].at
  <2> SUFFICES ASSUME NEW i \in 1..n
      PROVE  /\ calling'[i] \in CallType /\ calling'[i].op = calls[i].op
             /\ calling'[i].ref = calls[i].ref
             /\ calls[i].op \in PageOps => calling'[i].at = pager.next
             /\ calls[i].op \notin PageOps => calling'[i].at = calls[i].at
    OBVIOUS
  <2>1. calling'[i] = [calls[i] EXCEPT !.at = IF calls[i].op \in PageOps THEN pager.next ELSE @]
    BY <1>2 DEF Continues, PageOps
  <2>2. pager.next \in Int /\ (calls[i].op \in PageOps => pager.next >= 0)
    BY <1>2 DEF ReadTypes
  <2>3. calls[i].op \in PageOps => pager.next \in Nat
    BY <2>2
  <2> QED BY <1>5, <2>1, <2>3 DEF CallType
<1>7. DOMAIN calling' = 1..n /\ DOMAIN results' = 1..n
  BY <1>2
<1>8. ReadTypes'
  <2>1. calling' \in Seq(CallType)
    <3>1. calling' = [i \in 1..n |-> calling'[i]]
      BY <1>2
    <3>2. calling' \in [1..n -> CallType]
      BY <1>6, <3>1
    <3> QED BY <1>4, <3>2
  <2>2. results' \in [DOMAIN calling' -> {<<>>} \cup {<<message>> : message \in Fresh}]
    BY <1>2, <1>7
  <2> QED BY <1>3, <2>1, <2>2 DEF ReadTypes, Fresh, ToolResults
<1>9. PageIsNext'
  <2>1. ASSUME NEW i \in 1..n, NEW j \in 1..n, calls[i].op \in PageOps, calls[j].op \in PageOps
        PROVE  i = j
    <3> DEFINE S == {k \in 1..n : calls[k].op \in PageOps}
    <3>1. IsFiniteSet(S)
      <4>1. IsFiniteSet(1..n) /\ S \subseteq 1..n
        BY <1>4, FS_Interval
      <4> QED BY <4>1, FS_Subset
    <3>2. i \in S /\ j \in S /\ Cardinality(S) <= 1
      BY <1>2, <2>1
    <3> HIDE DEF S
    <3> QED BY <3>1, <3>2, AtMostOne
  <2>2. \A i \in DOMAIN calling' : i \in 1..n
    BY <1>7
  <2>3. \A i \in 1..n : calling'[i].op \in PageOps =>
          calling'[i].ref = 1 /\ calling'[i].at = pager.next
    BY <1>5, <1>6
  <2>4. \A i \in 1..n : calling'[i].op = "row" => calling'[i].at # 0
    <3>1. "row" \notin PageOps
      BY DEF PageOps
    <3> QED BY <1>5, <1>6, <3>1
  <2>5. \A i, j \in 1..n :
          calling'[i].op \in PageOps /\ calling'[j].op \in PageOps => i = j
    BY <1>6, <2>1
  <2> QED BY <1>3, <2>2, <2>3, <2>4, <2>5 DEF PageIsNext
<1>10. PagesLieWithin' /\ PagesAreComplete' /\ ReceiptsAreCovered'
  BY <1>3 DEF PagesLieWithin, PagesAreComplete, ReceiptsAreCovered
<1> QED BY <1>8, <1>9, <1>10

(* A later document changes none before it.                                *)
LEMMA DocumentsGrow ==
  ASSUME ReadTypes, NEW rows \in Documents
  PROVE  /\ Append(documents, rows) \in Seq(Seq(Nat)) /\ Append(documents, rows) # <<>>
         /\ documents # <<>> => Append(documents, rows)[1] = documents[1]
<1>1. documents \in Seq(Seq(Nat)) /\ rows \in Seq(Nat)
  BY ArtifactAssumption DEF ReadTypes
<1>2. PICK n \in Nat : n = Len(documents)
  BY <1>1, LenProperties
<1>3. /\ Append(documents, rows) \in Seq(Seq(Nat)) /\ Len(Append(documents, rows)) = n + 1
      /\ \A i \in 1..n : Append(documents, rows)[i] = documents[i]
  BY <1>1, <1>2, AppendProperties
<1>4. Append(documents, rows) # <<>>
  <2>1. Append(documents, rows) \in Seq(Seq(Nat)) /\ Len(Append(documents, rows)) # 0
    BY <1>3
  <2> QED BY <2>1, EmptySeq
<1>5. documents # <<>> => 1 \in 1..n
  BY <1>1, <1>2, EmptySeq
<1> QED BY <1>3, <1>4, <1>5

(* A call ends: its message, and what the step does beside.                *)
EndsWith(i, message) ==
  /\ results' = [results EXCEPT ![i] = <<Bounded(message)>>]
  /\ UNCHANGED <<calling, lost, toolHistory, scope>>

(* A call that is no page                                                  *)
LEMMA CallKeeps ==
  ASSUME ReadsInv, NEW i \in DOMAIN calling, NEW message \in Fresh, EndsWith(i, message),
         pager' = pager,
         documents' = documents \/ \E rows \in Documents : documents' = Append(documents, rows)
  PROVE  ReadsInv'
<1> USE DEF ReadsInv
<1>1. results' = [results EXCEPT ![i] = <<message>>]
  BY BoundedKeeps DEF EndsWith
<1>2. /\ documents' \in Seq(Seq(Nat)) /\ (documents # <<>> => documents' # <<>>)
      /\ documents # <<>> => documents'[1] = documents[1]
  <2>1. CASE documents' = documents
    BY <2>1 DEF ReadTypes
  <2>2. CASE \E rows \in Documents : documents' = Append(documents, rows)
    <3>1. PICK rows \in Documents : documents' = Append(documents, rows)
      BY <2>2
    <3> QED BY <3>1, DocumentsGrow
  <2> QED BY <2>1, <2>2
<1>3. UNCHANGED <<calling, lost, toolHistory, scope, pager>>
  BY DEF EndsWith
<1>4. ReadTypes'
  BY <1>1, <1>2, <1>3 DEF ReadTypes, Fresh, ToolResults
<1>5. PageIsNext'
  BY <1>1, <1>3 DEF PageIsNext, Ended, ReadTypes
<1>6. PagesLieWithin'
  BY <1>2, <1>3 DEF PagesLieWithin
<1>7. PagesAreComplete'
  <2>1. pager.next < 0 => Len(documents'[1]) = Len(documents[1])
    <3>1. pager.next < 0 => pager.next # 0
      BY DEF ReadTypes
    <3> QED BY <1>2, <3>1 DEF PagesLieWithin
  <2> QED BY <1>3, <2>1 DEF PagesAreComplete
<1>8. ReceiptsAreCovered'
  BY <1>3 DEF ReceiptsAreCovered
<1> QED BY <1>4, <1>5, <1>6, <1>7, <1>8

(* A page                                                                  *)
LEMMA PageKeeps ==
  ASSUME ReadsInv, NEW i \in DOMAIN calling, ~Ended(i), calling[i].op \in PageOps,
         documents # <<>>, documents' = documents,
         NEW message, message = PageMessage(calling[i].op, calling[i].at, calling[i].limit),
         EndsWith(i, message),
         pager' = IF message.ref = 0 THEN pager
                  ELSE [next |-> IF Page(documents[1], calling[i].at, calling[i].limit).more
                                 THEN message.to ELSE -1,
                        seen |-> pager.seen \o [n \in 1..message.to - message.from |->
                                                  message.from + n]]
  PROVE  ReadsInv'
<1> USE DEF ReadsInv
<1>1. calling[i] \in CallType
  BY ElementOfSeq DEF ReadTypes
<1>2. PICK a \in Nat, limit \in Nat :
        a = calling[i].at /\ limit = calling[i].limit /\ a = pager.next
  BY <1>1 DEF CallType, PageIsNext
<1>3. PICK d \in Nat : d = Len(documents[1])
  <2>1. documents \in Seq(Seq(Nat)) /\ 1 \in DOMAIN documents
    BY EmptySeq DEF ReadTypes
  <2>2. documents[1] \in Seq(Nat)
    BY <2>1
  <2> QED BY <2>2, LenProperties
<1>4. a \in 0..d
  <2>1. a = 0 \/ a > 0
    OBVIOUS
  <2> QED BY <1>2, <1>3, <2>1 DEF PagesLieWithin
<1>5. /\ message \in Fresh
      /\ message.ref # 0 =>
           /\ message.from = a /\ message.to \in a..d
           /\ ~Page(documents[1], a, limit).more => message.to = d
  BY <1>2, <1>3, <1>4, PageIsFresh
<1>6. CASE message.ref = 0
  BY <1>5, <1>6, CallKeeps
<1>7. CASE message.ref # 0
  <2>1. PICK b \in a..d : b = message.to
    BY <1>5, <1>7
  <2>2. PICK k \in Nat : k = b - a /\ a + k = b
    BY <2>1
  <2>3. PICK more \in BOOLEAN :
          more = Page(documents[1], a, limit).more /\ (~more => b = d)
    <3>1. Page(documents[1], a, limit).more \in BOOLEAN
      BY DEF Page
    <3> QED BY <1>5, <1>7, <2>1, <3>1
  <2>4. pager' = [next |-> IF more THEN b ELSE -1,
                  seen |-> pager.seen \o [n \in 1..k |-> a + n]]
    BY <1>2, <1>5, <1>7, <2>1, <2>2, <2>3
  <2>5. Len(pager.seen) = a /\ pager.seen = [n \in 1..a |-> n] /\ pager.seen \in Seq(Nat)
    <3>1. pager.next >= 0 /\ a = pager.next
      BY <1>2
    <3>2. Len(pager.seen) = a
      BY <3>1 DEF PagesAreComplete
    <3>3. pager.seen = [n \in 1..Len(pager.seen) |-> n]
      BY DEF PagesAreComplete
    <3>4. pager.seen = [n \in 1..a |-> n]
      BY ONLY <3>2, <3>3
    <3> QED BY <3>2, <3>4 DEF ReadTypes
  <2>6. PICK t : t = pager.seen \o [n \in 1..k |-> a + n]
    OBVIOUS
  <2>7. t \in Seq(Nat) /\ Len(t) = b /\ t = [n \in 1..b |-> n]
    <3>1. a \in Nat /\ k \in Nat
      OBVIOUS
    <3>2. PICK added : added = [n \in 1..k |-> a + n]
      OBVIOUS
    <3>3. PICK s \in Seq(Nat) : s = pager.seen /\ Len(s) = a /\ s = [n \in 1..a |-> n] /\ t = s \o added
      BY ONLY <2>5, <2>6, <3>2
    <3>4. t \in Seq(Nat) /\ Len(t) = a + k /\ t = [n \in 1..(a + k) |-> n]
      BY ONLY <3>1, <3>2, <3>3, SeenGrows
    <3> QED BY ONLY <2>2, <3>4
  <2>8. PICK next \in Int : next = (IF more THEN b ELSE -1) /\ (next < 0 <=> ~more)
    BY <2>1
  <2>9. pager' = [next |-> next, seen |-> t]
    BY ONLY <2>4, <2>6, <2>8, Zenon
  <2>10. pager'.next = next /\ pager'.seen = t /\ DOMAIN pager' = {"next", "seen"}
    BY ONLY <2>9
  <2>11. results' = [results EXCEPT ![i] = <<message>>]
    BY <1>5, BoundedKeeps DEF EndsWith
  <2>12. UNCHANGED <<calling, lost, toolHistory, scope, documents>>
    BY DEF EndsWith
  <2>13. ReadTypes'
    <3>1. results \in [DOMAIN calling -> {<<>>} \cup {<<m>> : m \in Fresh}]
      BY DEF ReadTypes
    <3>2. results' \in [DOMAIN calling -> {<<>>} \cup {<<m>> : m \in Fresh}]
      BY <1>5, <2>11, <3>1
    <3>3. Fresh' = Fresh /\ ToolResults' = ToolResults
      BY DEF Fresh, ToolResults
    <3> QED BY <2>7, <2>12, <2>8, <2>10, <3>2, <3>3 DEF ReadTypes
  <2>14. PageIsNext'
    <3>1. Ended(i)'
      BY <2>11, <2>12 DEF Ended, ReadTypes
    <3>2. \A j \in DOMAIN calling : calling[j].op \in PageOps => j = i
      BY DEF PageIsNext
    <3> QED BY <2>12, <3>1, <3>2 DEF PageIsNext
  <2>15. PagesLieWithin'
    <3>1. next > 0 => next <= d
      BY <2>1, <2>8
    <3> QED BY <1>3, <2>12, <2>10, <3>1 DEF PagesLieWithin
  <2>16. PagesAreComplete'
    <3>1. /\ t = [n \in 1..Len(t) |-> n] /\ (next >= 0 => Len(t) = next)
          /\ next < 0 => Len(t) = Len(documents[1])
      BY <1>3, <2>3, <2>7, <2>8
    <3> QED BY <2>12, <2>10, <3>1 DEF PagesAreComplete
  <2>17. ReceiptsAreCovered'
    BY <2>12 DEF ReceiptsAreCovered
  <2> QED BY <2>13, <2>14, <2>15, <2>16, <2>17
<1> QED BY <1>6, <1>7

(* Whatever a call asks for, its result leaves all as it should be.        *)
LEMMA EndCallKeeps ==
  ASSUME ReadsInv, NEW i \in 1..MaxBatch, EndCall(i)
  PROVE  ReadsInv'
<1> USE DEF ReadsInv
<1>1. i \in DOMAIN calling /\ ~Ended(i) /\ UNCHANGED <<calling, lost, toolHistory, scope>>
  BY DEF EndCall
<1> DEFINE call == calling[i]
           known == call.ref \in lost + 1..Len(documents)
<1>2. call \in CallType /\ (call.op = "row" => call.at # 0)
  BY <1>1, ElementOfSeq DEF ReadTypes, PageIsNext
<1>3. known => call.ref \in DOMAIN documents
  <2>1. lost \in Nat /\ Len(documents) \in Nat /\ DOMAIN documents = 1..Len(documents)
    BY LenProperties DEF ReadTypes
  <2> QED BY <2>1
<1>4. \A message : results' = [results EXCEPT ![i] = <<Bounded(message)>>] =>
                     EndsWith(i, message)
  BY <1>1 DEF EndsWith
<1>5. CASE \E rows \in Documents, always \in BOOLEAN :
             /\ results' = [results EXCEPT ![i] = <<Bounded(Produced(rows, always))>>]
             /\ documents' = (IF Produced(rows, always).ref = 0 THEN documents
                              ELSE Append(documents, rows))
             /\ pager' = pager
  <2>1. PICK rows \in Documents, always \in BOOLEAN :
             /\ results' = [results EXCEPT ![i] = <<Bounded(Produced(rows, always))>>]
             /\ documents' = (IF Produced(rows, always).ref = 0 THEN documents
                              ELSE Append(documents, rows))
             /\ pager' = pager
    BY <1>5
  <2>2. Produced(rows, always) \in Fresh /\ EndsWith(i, Produced(rows, always))
    BY <1>4, <2>1, ProducedIsFresh
  <2>3. documents' = documents \/ documents' = Append(documents, rows)
    BY <2>1
  <2> QED BY <1>1, <2>1, <2>2, <2>3, CallKeeps
<1>6. CASE /\ UNCHANGED <<documents, pager>>
           /\ \E message \in Fresh :
                results' = [results EXCEPT ![i] = <<Bounded(message)>>]
  BY <1>1, <1>4, <1>6, CallKeeps
<1> DEFINE read ==
             IF ~known THEN Error("not_found")
             ELSE CASE call.op = "rows" -> ReadRows(call.ref, call.at, call.limit)
                    [] call.op = "row" -> ReadRow(call.ref, call.at)
                    [] OTHER -> ToolResult("outline", call.ref, 0, 0, Envelope)
           shown == IF ~known THEN Error("not_found")
                    ELSE PageMessage(call.op, call.at, call.limit)
<1>7. CASE /\ call.op \in {"rows", "row", "outline"} /\ UNCHANGED <<documents, pager>>
           /\ results' = [results EXCEPT ![i] = <<Bounded(read)>>]
  <2>1. call.ref \in Nat /\ call.at \in Nat /\ call.limit \in Nat
    BY <1>2 DEF CallType
  <2>2. Error("not_found") \in Fresh
    BY ErrorsAreFresh DEF ResultKinds
  <2>3. ToolResult("outline", call.ref, 0, 0, Envelope) \in Fresh
    BY <2>1, ResultsAreFresh, ArtifactAssumption DEF ResultKinds
  <2>4. known => ReadRows(call.ref, call.at, call.limit) \in Fresh
    BY <1>3, <2>1, ReadRowsIsFresh
  <2>5. known /\ call.op = "row" => ReadRow(call.ref, call.at) \in Fresh
    BY <1>2, <1>3, <2>1, ReadRowIsFresh
  <2>6. read \in Fresh
    <3> HIDE DEF call, known
    <3> QED BY <1>7, <2>2, <2>3, <2>4, <2>5
  <2> HIDE DEF read
  <2> QED BY <1>6, <1>7, <2>6
<1>8. CASE /\ call.op \in PageOps /\ documents' = documents
           /\ results' = [results EXCEPT ![i] = <<Bounded(shown)>>]
           /\ pager' = IF shown.ref = 0 THEN pager
                ELSE [next |-> IF Page(documents[1], call.at, call.limit).more
                               THEN shown.to ELSE -1,
                      seen |-> pager.seen \o [n \in 1..shown.to - shown.from |-> shown.from + n]]
  <2>1. CASE known
    <3>1. documents # <<>>
      BY <1>3, <2>1
    <3>2. shown = PageMessage(call.op, call.at, call.limit) /\ EndsWith(i, shown)
      BY <1>4, <1>8, <2>1
    <3> HIDE DEF shown
    <3> QED BY <1>1, <1>8, <3>1, <3>2, PageKeeps
  <2>2. CASE ~known
    <3>1. shown \in Fresh /\ shown.ref = 0
      BY <2>2, ErrorsAreFresh DEF ResultKinds
    <3> HIDE DEF shown
    <3> QED BY <1>6, <1>8, <3>1
  <2> QED BY <2>1, <2>2
<1>9. Error("timeout") \in Fresh
  BY ErrorsAreFresh DEF ResultKinds
<1> QED BY <1>5, <1>6, <1>7, <1>8, <1>9 DEF EndCall, PageOps

(* The results join the history, and what is rewritten stays covered.      *)
LEMMA EndTurnKeeps ==
  ASSUME ReadsInv, EndTurn
  PROVE  ReadsInv'
<1> USE DEF ReadsInv
<1>1. PICK ends : ends = [i \in DOMAIN results |-> results[i][1]]
  OBVIOUS
<1>2. PICK n \in Nat : DOMAIN results = 1..n
  <2>1. DOMAIN results = DOMAIN calling /\ DOMAIN calling = 1..Len(calling)
        /\ Len(calling) \in Nat
    BY LenProperties DEF ReadTypes
  <2> QED BY <2>1
<1>3. \A i \in 1..n : ends[i] \in Fresh
  <2> SUFFICES ASSUME NEW i \in 1..n PROVE results[i][1] \in Fresh
    BY <1>1, <1>2
  <2>1. results[i] # <<>> /\ results[i] \in {<<>>} \cup {<<message>> : message \in Fresh}
    BY <1>2 DEF EndTurn, Ended, ReadTypes
  <2>2. PICK message \in Fresh : results[i] = <<message>>
    BY <2>1
  <2> QED BY <2>2
<1>4. ends \in Seq(ToolResults) /\ Len(ends) = n /\ \A i \in 1..n : ends[i].raw = TRUE
  <2>1. ends \in [1..n -> ToolResults]
    BY <1>1, <1>2, <1>3 DEF Fresh
  <2> QED BY <1>3, <2>1 DEF Fresh
<1>5. PICK m \in Nat : m = Len(toolHistory) /\ DOMAIN toolHistory = 1..m
  BY LenProperties DEF ReadTypes
<1>6. PICK messages : messages = toolHistory \o ends
  OBVIOUS
<1>7. /\ messages \in Seq(ToolResults) /\ Len(messages) = m + n /\ DOMAIN messages = 1..(m + n)
      /\ \A i \in 1..m : messages[i] = toolHistory[i]
      /\ \A i \in 1..(m + n) : i > m => messages[i].raw = TRUE
  <2>1. messages \in Seq(ToolResults) /\ Len(messages) = m + n
    BY <1>4, <1>5, <1>6, ConcatProperties DEF ReadTypes
  <2>2. \A i \in 1..(m + n) :
          messages[i] = IF i <= m THEN toolHistory[i] ELSE ends[i - m]
    BY <1>4, <1>5, <1>6, ConcatProperties DEF ReadTypes
  <2>3. \A i \in 1..m : i \in 1..(m + n) /\ i <= m
    OBVIOUS
  <2>4. ASSUME NEW i \in 1..(m + n), i > m PROVE messages[i].raw = TRUE
    <3>1. PICK j \in 1..n : j = i - m /\ ~(i <= m)
      BY <2>4
    <3> QED BY <1>4, <2>2, <3>1
  <2>5. DOMAIN messages = 1..(m + n)
    BY <2>1, LenProperties
  <2> QED BY <2>1, <2>2, <2>3, <2>4, <2>5
<1>8. Covered(messages)
  <2> SUFFICES ASSUME NEW i \in 1..(m + n), ~messages[i].raw
      PROVE  \E j \in i + 1..(m + n) : messages[j].raw /\ Shows(messages[j], messages[i])
    BY <1>7 DEF Covered
  <2>1. i \in 1..m
    BY <1>7
  <2>2. PICK j \in i + 1..m : toolHistory[j].raw /\ Shows(toolHistory[j], toolHistory[i])
    BY <1>5, <1>7, <2>1 DEF ReceiptsAreCovered, Shows
  <2>3. j \in 1..m /\ j \in i + 1..(m + n)
    BY <2>1, <2>2
  <2> QED BY <1>7, <2>1, <2>2, <2>3
<1>9. /\ toolHistory' = Rewritten(messages) /\ calling' = <<>> /\ results' = <<>>
      /\ UNCHANGED <<documents, lost, scope, pager>>
  BY <1>1, <1>6 DEF EndTurn
<1>10. toolHistory' \in Seq(ToolResults) /\ Covered(toolHistory')
  BY <1>7, <1>8, <1>9, RewritingCovers
<1>11. ReadTypes'
  <2>1. <<>> \in Seq(CallType) /\ DOMAIN <<>> = {}
        /\ <<>> \in [DOMAIN <<>> -> {<<>>} \cup {<<message>> : message \in Fresh}]
    OBVIOUS
  <2> QED BY <1>9, <1>10, <2>1 DEF ReadTypes, Fresh, ToolResults
<1>12. PageIsNext' /\ PagesLieWithin' /\ PagesAreComplete'
  BY <1>9 DEF PageIsNext, PagesLieWithin, PagesAreComplete
<1>13. ReceiptsAreCovered'
  BY <1>10 DEF ReceiptsAreCovered, Covered, Shows
<1> QED BY <1>11, <1>12, <1>13

(* Every step keeps it.                                                    *)
LEMMA ReadsStep ==
  ASSUME ReadsInv, ArtifactNext \/ UNCHANGED artifactVars
  PROVE  ReadsInv'
<1> USE DEF ReadsInv
<1>1. CASE Turn
  BY <1>1, TurnKeeps
<1>2. CASE EndTurn
  BY <1>2, EndTurnKeeps
<1>3. CASE NextRequest
  BY <1>3 DEF NextRequest, ReadTypes, Fresh, ToolResults, PageIsNext, Ended, PagesLieWithin,
              PagesAreComplete, ReceiptsAreCovered
<1>4. CASE LosesStore
  <2>1. /\ calling = <<>> /\ lost' = Len(documents) /\ pager' = [next |-> 0, seen |-> <<>>]
        /\ UNCHANGED <<documents, calling, results, toolHistory>>
    BY <1>4 DEF LosesStore, NoPages
  <2>2. Len(documents) \in Nat
    BY LenProperties DEF ReadTypes
  <2>3. ReadTypes'
    BY <2>1, <2>2 DEF ReadTypes, Fresh, ToolResults
  <2>4. PagesAreComplete'
    <3>1. <<>> = [n \in 1..0 |-> n] /\ Len(<<>>) = 0
      OBVIOUS
    <3> QED BY <2>1, <3>1 DEF PagesAreComplete
  <2>5. PageIsNext' /\ PagesLieWithin' /\ ReceiptsAreCovered'
    BY <2>1 DEF PageIsNext, PagesLieWithin, ReceiptsAreCovered
  <2> QED BY <2>3, <2>4, <2>5
<1>5. ASSUME NEW i \in 1..MaxBatch, EndCall(i) PROVE ReadsInv'
  BY <1>5, EndCallKeeps
<1>6. CASE UNCHANGED artifactVars
  BY <1>6 DEF artifactVars, ReadTypes, Fresh, ToolResults, PageIsNext, Ended, PagesLieWithin,
              PagesAreComplete, ReceiptsAreCovered
<1> QED BY <1>1, <1>2, <1>3, <1>4, <1>5, <1>6 DEF ArtifactNext

(* It says what the tools promise.                                         *)
LEMMA ReadsSound == ReadsInv => ReadsAreSound
<1> SUFFICES ASSUME ReadsInv PROVE ResultsFit
  BY DEF ReadsInv, ReadsAreSound
<1>1. ASSUME NEW i \in DOMAIN results, Ended(i)
      PROVE  results[i][1].size <= Budget /\ results[i][1].kind # "over_limit"
  <2>1. PICK message \in Fresh : results[i] = <<message>>
    BY <1>1 DEF ReadsInv, ReadTypes, Ended
  <2> QED BY <2>1, ArtifactAssumption DEF Fresh, ToolResults, ResultKinds
<1> QED BY <1>1 DEF ResultsFit

(* ReadsAreSound: a read that became a receipt has a later one in full     *)
(* that shows as much, pages miss and repeat no match, and no result is    *)
(* lost for its size (artifacts/lifecycle.py, grep.py, query.py).          *)
THEOREM ReadsHold == ArtifactSpec => []ReadsAreSound
<1>1. ReadsInv /\ [ArtifactNext]_artifactVars => ReadsInv'
  BY ReadsStep
<1> QED BY <1>1, ReadsInitially, ReadsSound, PTL DEF ArtifactSpec
-----------------------------------------------------------------------------
(* The recent dialogue                                                     *)

(* An execution that has read the session remembers an index no later than  *)
(* the next one; one that has its window has turns at least up to that     *)
(* index and none that is not stored.                                      *)
RememberedOf(row) ==
  /\ row.pc \in {"scanning", "storing", "answering"} =>
       row.next \in Nat /\ row.next <= Len(dialogue) + 1
  /\ row.pc \in {"storing", "answering"} =>
       /\ row.window.through \in Nat
       /\ row.next <= row.window.through + 1
       /\ row.window.through <= Len(dialogue)

Row(row) == row = [pc |-> row.pc, window |-> row.window, next |-> row.next]

Shape ==
  /\ dialogue \in Seq(Sizes)
  /\ DOMAIN exec = Executions
  /\ exec = [x \in Executions |-> exec[x]]
  /\ \A x \in Executions : Row(exec[x])

RememberedInv == Shape /\ \A x \in Executions : RememberedOf(exec[x])

(* A rebuilt window ends with the newest turn.                             *)
LEMMA RebuiltThrough ==
  ASSUME NEW n \in Nat
  PROVE  BuildWindow(TurnsUpTo(n)).through = n
<1>1. Len(TurnsUpTo(n)) = n
  BY DEF TurnsUpTo
<1>2. CASE n = 0
  <2>1. TurnsUpTo(n) = <<>>
    BY <1>2 DEF TurnsUpTo
  <2> QED BY <1>2, <2>1 DEF BuildWindow
<1>3. CASE n # 0
  <2>1. TurnsUpTo(n) # <<>>
    BY <1>1, <1>3
  <2>2. TurnsUpTo(n)[n].index = n
    BY <1>3 DEF TurnsUpTo, TurnAt
  <2> QED BY <1>1, <2>1, <2>2 DEF BuildWindow
<1> QED BY <1>2, <1>3

(* A step that appends at most one turn and replaces the row of one         *)
(* execution keeps the invariant if it holds of the new row.               *)
LEMMA RememberedKept ==
  ASSUME RememberedInv, dialogue' \in Seq(Sizes), Len(dialogue') >= Len(dialogue),
         NEW x \in Executions, exec' = [exec EXCEPT ![x] = exec'[x]],
         Row(exec[x])', RememberedOf(exec[x])'
  PROVE  RememberedInv'
<1>1. DOMAIN exec' = Executions /\ \A y \in Executions : y # x => exec'[y] = exec[y]
  BY DEF RememberedInv, Shape
<1>2. exec' = [y \in Executions |-> exec'[y]]
  BY <1>1 DEF RememberedInv, Shape
<1>3. Shape'
  BY <1>1, <1>2 DEF RememberedInv, Shape, Row
<1>4. ASSUME NEW y \in Executions, y # x PROVE RememberedOf(exec[y])'
  BY <1>1, <1>4, LenProperties DEF RememberedInv, Shape, RememberedOf
<1> QED BY <1>3, <1>4 DEF RememberedInv

LEMMA RememberedInit == WindowInit => RememberedInv
BY EmptySeq DEF WindowInit, RememberedInv, Shape, RememberedOf, Row, Idle

(* The rows the actions write                                              *)
LEMMA Rows ==
  ASSUME NEW row, row = [pc |-> row.pc, window |-> row.window, next |-> row.next],
         NEW u, NEW v
  PROVE  /\ [row EXCEPT !.pc = u, !.window = v] = [pc |-> u, window |-> v, next |-> row.next]
         /\ [row EXCEPT !.window = v, !.pc = u] = [pc |-> u, window |-> v, next |-> row.next]
         /\ [row EXCEPT !.next = v, !.pc = u] = [pc |-> u, window |-> row.window, next |-> v]
<1>1. PICK a, b, c : /\ a = [row EXCEPT !.pc = u, !.window = v]
                     /\ b = [row EXCEPT !.window = v, !.pc = u]
                     /\ c = [row EXCEPT !.next = v, !.pc = u]
  OBVIOUS
<1>2. a = [pc |-> u, window |-> v, next |-> row.next]
  BY <1>1
<1>3. b = [pc |-> u, window |-> v, next |-> row.next]
  BY <1>1
<1>4. c = [pc |-> u, window |-> row.window, next |-> v]
  BY <1>1
<1> QED BY <1>1, <1>2, <1>3, <1>4

(* Every step keeps the invariant, one execution at a time.                *)
LEMMA RememberedStep == RememberedInv /\ [WindowNext]_vars => RememberedInv'
<1> SUFFICES ASSUME RememberedInv, [WindowNext]_vars PROVE RememberedInv'
  OBVIOUS
<1>L. dialogue \in Seq(Sizes) /\ Len(dialogue) \in Nat
  BY LenProperties DEF RememberedInv, Shape
<1>A. ASSUME NEW size \in Sizes, dialogue' = Append(dialogue, size)
      PROVE  dialogue' \in Seq(Sizes) /\ Len(dialogue') = Len(dialogue) + 1
  BY <1>A, <1>L
<1>1. CASE AppendTurn
  <2>1. dialogue' \in Seq(Sizes) /\ Len(dialogue') = Len(dialogue) + 1 /\ exec' = exec
    BY <1>1, <1>A DEF AppendTurn
  <2> QED BY <2>1, <1>L DEF RememberedInv, Shape, RememberedOf, Row
<1>2. CASE ExpireCache
  BY <1>2 DEF ExpireCache, RememberedInv, Shape, RememberedOf, Row
<1>3. CASE UNCHANGED vars
  BY <1>3 DEF vars, RememberedInv, Shape, RememberedOf, Row
<1>4. ASSUME NEW x \in Executions,
             \/ Begin(x) \/ ReadCache(x) \/ CheckCache(x) \/ ReadSession(x) \/ ReadTurns(x)
             \/ StoreWindow(x) \/ CommitTurn(x) \/ GiveUp(x) \/ ReadAgain(x)
             \/ WriteBack(x) \/ Abandon(x)
      PROVE  RememberedInv'
  <2>0. Row(exec[x]) /\ RememberedOf(exec[x])
    BY DEF RememberedInv, Shape
  <2>D. ASSUME NEW row, exec' = [exec EXCEPT ![x] = row] PROVE exec'[x] = row
    BY <2>D DEF RememberedInv, Shape
  <2>K. ASSUME dialogue' = dialogue, exec' = [exec EXCEPT ![x] = exec'[x]],
               Row(exec[x])', RememberedOf(exec[x])'
        PROVE  RememberedInv'
    BY <2>K, <1>L, RememberedKept
  <2>1. CASE Begin(x) \/ ReadCache(x) \/ GiveUp(x) \/ ReadAgain(x) \/ WriteBack(x) \/ Abandon(x)
    <3>1. dialogue' = dialogue
          /\ \/ exec' = [exec EXCEPT ![x] = Idle]
             \/ exec' = [exec EXCEPT ![x] = [Idle EXCEPT !.pc = "loading"]]
             \/ exec' = [exec EXCEPT ![x] = [exec[x] EXCEPT !.pc = "counting", !.window = cache]]
             \/ exec' = [exec EXCEPT ![x] = [exec[x] EXCEPT !.pc = "counting"]]
             \/ exec' = [exec EXCEPT ![x] = [exec[x] EXCEPT !.window = cache, !.pc = "writing"]]
      BY <2>1 DEF Begin, ReadCache, GiveUp, ReadAgain, WriteBack, Abandon, Set
    <3>2. exec' = [exec EXCEPT ![x] = exec'[x]]
      BY <3>1, <2>D
    <3>3. \/ exec'[x] = [pc |-> "idle", window |-> None, next |-> 0]
          \/ exec'[x] = [pc |-> "loading", window |-> None, next |-> 0]
          \/ exec'[x] = [pc |-> "counting", window |-> cache, next |-> exec[x].next]
          \/ exec'[x] = [pc |-> "counting", window |-> exec[x].window, next |-> exec[x].next]
          \/ exec'[x] = [pc |-> "writing", window |-> cache, next |-> exec[x].next]
      <4>1. ASSUME exec' = [exec EXCEPT ![x] = Idle]
            PROVE  exec'[x] = [pc |-> "idle", window |-> None, next |-> 0]
        BY <2>D, <4>1 DEF Idle
      <4>2. ASSUME exec' = [exec EXCEPT ![x] = [Idle EXCEPT !.pc = "loading"]]
            PROVE  exec'[x] = [pc |-> "loading", window |-> None, next |-> 0]
        BY <2>D, <4>2 DEF Idle
      <4>3. ASSUME exec' = [exec EXCEPT ![x] =
                              [exec[x] EXCEPT !.pc = "counting", !.window = cache]]
            PROVE  exec'[x] = [pc |-> "counting", window |-> cache, next |-> exec[x].next]
        <5>1. exec'[x] = [exec[x] EXCEPT !.pc = "counting", !.window = cache] BY <2>D, <4>3
        <5> QED BY ONLY <2>0, <5>1, Rows DEF Row
      <4>4. ASSUME exec' = [exec EXCEPT ![x] = [exec[x] EXCEPT !.pc = "counting"]]
            PROVE  exec'[x] = [pc |-> "counting", window |-> exec[x].window, next |-> exec[x].next]
        <5>1. exec'[x] = [exec[x] EXCEPT !.pc = "counting"] BY <2>D, <4>4
        <5> QED BY ONLY <2>0, <5>1 DEF Row
      <4>5. ASSUME exec' = [exec EXCEPT ![x] =
                              [exec[x] EXCEPT !.window = cache, !.pc = "writing"]]
            PROVE  exec'[x] = [pc |-> "writing", window |-> cache, next |-> exec[x].next]
        <5>1. exec'[x] = [exec[x] EXCEPT !.window = cache, !.pc = "writing"] BY <2>D, <4>5
        <5> QED BY ONLY <2>0, <5>1, Rows DEF Row
      <4> QED BY <3>1, <4>1, <4>2, <4>3, <4>4, <4>5
    <3>4. Row(exec[x])'
      BY <3>3 DEF Row
    <3>5. RememberedOf(exec[x])'
      BY <3>3 DEF RememberedOf
    <3> QED BY <2>K, <3>1, <3>2, <3>4, <3>5
  <2>2. CASE CheckCache(x)
    <3> DEFINE fits == exec[x].window # None /\ exec[x].window.through = Len(dialogue)
    <3>1. dialogue' = dialogue
          /\ exec' = [exec EXCEPT ![x] = [exec[x] EXCEPT
                        !.next = Len(dialogue) + 1,
                        !.pc = IF fits THEN "answering" ELSE "reading"]]
      BY <2>2 DEF CheckCache, Set
    <3>2. exec'[x] = [pc |-> IF fits THEN "answering" ELSE "reading",
                      window |-> exec[x].window, next |-> Len(dialogue) + 1]
      <4>1. PICK pc, n : pc = (IF fits THEN "answering" ELSE "reading") /\ n = Len(dialogue) + 1
        OBVIOUS
      <4>2. exec'[x] = [exec[x] EXCEPT !.next = n, !.pc = pc]
        BY <2>D, <3>1, <4>1
      <4>3. exec'[x] = [pc |-> pc, window |-> exec[x].window, next |-> n]
        BY <2>0, <4>2 DEF Row
      <4> QED BY <4>1, <4>3
    <3>3. Row(exec[x])' /\ exec' = [exec EXCEPT ![x] = exec'[x]]
      BY <3>1, <3>2 DEF Row
    <3>4. RememberedOf(exec[x])'
      BY <3>1, <3>2, <1>L DEF RememberedOf
    <3> QED BY <2>K, <3>1, <3>3, <3>4
  <2>3. CASE ReadSession(x)
    <3>1. dialogue' = dialogue
          /\ exec' = [exec EXCEPT ![x] = [exec[x] EXCEPT !.next = Len(dialogue) + 1,
                                                         !.pc = "scanning"]]
      BY <2>3 DEF ReadSession, Set
    <3>2. exec'[x] = [pc |-> "scanning", window |-> exec[x].window,
                      next |-> Len(dialogue) + 1]
      BY <2>0, <2>D, <3>1 DEF Row
    <3>3. Row(exec[x])' /\ exec' = [exec EXCEPT ![x] = exec'[x]]
      BY <3>1, <3>2 DEF Row
    <3>4. RememberedOf(exec[x])'
      BY <3>1, <3>2, <1>L DEF RememberedOf
    <3> QED BY <2>K, <3>1, <3>3, <3>4
  <2>4. CASE ReadTurns(x)
    <3> DEFINE window == BuildWindow(TurnsUpTo(Len(dialogue)))
    <3>1. exec[x].pc = "scanning" /\ dialogue' = dialogue
          /\ exec' = [exec EXCEPT ![x] = [exec[x] EXCEPT !.window = window,
                                                         !.pc = "storing"]]
      BY <2>4 DEF ReadTurns, Set, At
    <3>2. window.through = Len(dialogue)
      BY <1>L, RebuiltThrough
    <3> HIDE DEF window
    <3>3. exec'[x] = [pc |-> "storing", window |-> window, next |-> exec[x].next]
      <4>1. exec'[x] = [exec[x] EXCEPT !.window = window, !.pc = "storing"]
        BY <2>D, <3>1
      <4> QED BY <2>0, <4>1 DEF Row
    <3>4. Row(exec[x])' /\ exec' = [exec EXCEPT ![x] = exec'[x]]
      BY <3>1, <3>3 DEF Row
    <3>5. RememberedOf(exec[x])'
      BY <2>0, <3>1, <3>2, <3>3, <1>L DEF RememberedOf
    <3> QED BY <2>K, <3>1, <3>4, <3>5
  <2>5. CASE StoreWindow(x)
    <3>1. exec[x].pc = "storing" /\ dialogue' = dialogue
          /\ exec' = [exec EXCEPT ![x] = [exec[x] EXCEPT !.pc = "answering"]]
      BY <2>5 DEF StoreWindow, Set, At
    <3>2. exec'[x] = [pc |-> "answering", window |-> exec[x].window, next |-> exec[x].next]
      <4>1. exec'[x] = [exec[x] EXCEPT !.pc = "answering"] BY <2>D, <3>1
      <4> QED BY ONLY <2>0, <4>1 DEF Row
    <3>3. Row(exec[x])' /\ exec' = [exec EXCEPT ![x] = exec'[x]]
      BY <3>1, <3>2 DEF Row
    <3>4. RememberedOf(exec[x])'
      BY <2>0, <3>1, <3>2, <1>L DEF RememberedOf
    <3> QED BY <2>K, <3>1, <3>3, <3>4
  <2>6. CASE CommitTurn(x)
    <3>1. exec' = [exec EXCEPT ![x] = [exec[x] EXCEPT !.pc = "recording"]]
      BY <2>6 DEF CommitTurn, Set
    <3>2. dialogue' \in Seq(Sizes) /\ Len(dialogue') = Len(dialogue) + 1
      BY <2>6, <1>A DEF CommitTurn
    <3>3. exec'[x] = [pc |-> "recording", window |-> exec[x].window, next |-> exec[x].next]
      <4>1. exec'[x] = [exec[x] EXCEPT !.pc = "recording"] BY <2>D, <3>1
      <4> QED BY ONLY <2>0, <4>1 DEF Row
    <3>4. Row(exec[x])' /\ exec' = [exec EXCEPT ![x] = exec'[x]]
      BY <3>1, <3>3 DEF Row
    <3>5. RememberedOf(exec[x])'
      BY <3>3 DEF RememberedOf
    <3>6. Len(dialogue') >= Len(dialogue)
      BY <3>2, <1>L
    <3> QED BY <3>2, <3>4, <3>5, <3>6, RememberedKept
  <2> QED BY <1>4, <2>1, <2>2, <2>3, <2>4, <2>5, <2>6
<1> QED BY <1>1, <1>2, <1>3, <1>4 DEF WindowNext

(* The inductive invariant holds in every reachable state of the window    *)
(* cache (conversation_memory.py, chat_run_executor.py).                   *)
THEOREM RememberedHolds == WindowSpec => []RememberedInv
BY RememberedInit, RememberedStep, PTL DEF WindowSpec

(* Only a commit moves an execution on from its answer to the recording.   *)
LEMMA OnlyCommitRecords ==
  ASSUME RememberedInv, [WindowNext]_vars, NEW x \in Executions,
         At(x, "answering"), exec'[x].pc = "recording"
  PROVE  CommitTurn(x)
<1>1. exec[x].pc = "answering" /\ exec'[x] # exec[x]
  BY DEF At
<1>2. DOMAIN exec = Executions /\ Row(exec[x])
  BY DEF RememberedInv, Shape
<1>3. PICK y \in Executions :
        \/ Begin(y) \/ ReadCache(y) \/ CheckCache(y) \/ ReadSession(y) \/ ReadTurns(y)
        \/ StoreWindow(y) \/ CommitTurn(y) \/ GiveUp(y) \/ ReadAgain(y)
        \/ WriteBack(y) \/ Abandon(y)
  BY <1>1 DEF WindowNext, AppendTurn, ExpireCache, vars
<1>4. \E row : exec' = [exec EXCEPT ![y] = row]
  BY <1>3 DEF Begin, ReadCache, CheckCache, ReadSession, ReadTurns, StoreWindow, CommitTurn,
              GiveUp, ReadAgain, WriteBack, Abandon, Set
<1>5. y = x
  BY <1>1, <1>2, <1>4
<1>6. ~(Begin(x) \/ ReadCache(x) \/ CheckCache(x) \/ ReadSession(x) \/ ReadTurns(x)
        \/ StoreWindow(x) \/ ReadAgain(x) \/ WriteBack(x))
  BY <1>1 DEF Begin, ReadCache, CheckCache, ReadSession, ReadTurns, StoreWindow, ReadAgain,
              WriteBack, At
<1>7. ~(GiveUp(x) \/ Abandon(x))
  BY <1>2 DEF GiveUp, Abandon, Set, Idle
<1> QED BY <1>3, <1>5, <1>6, <1>7

(* AnswersSeeTheLastTurn: complete_with_turn stores a turn only for an      *)
(* answer whose history, from the cache or rebuilt, ends with the turn     *)
(* just before it.                                                         *)
THEOREM AnswersSeeTheLastTurnHolds == WindowSpec => AnswersSeeTheLastTurn
<1>1. ASSUME RememberedInv, [WindowNext]_vars, NEW x \in Executions,
             At(x, "answering"), exec'[x].pc = "recording"
      PROVE  exec[x].window.through = Len(dialogue)
  <2>1. CommitTurn(x)
    BY <1>1, OnlyCommitRecords
  <2>2. Len(dialogue) \in Nat
    BY <1>1, LenProperties DEF RememberedInv, Shape
  <2> QED BY <1>1, <2>1, <2>2 DEF CommitTurn, NextIndex, RememberedInv, RememberedOf, At
<1>2. RememberedInv /\ [WindowNext]_vars =>
        [\A x \in Executions :
           At(x, "answering") /\ exec'[x].pc = "recording" =>
             exec[x].window.through = Len(dialogue)]_vars
  BY <1>1
<1> QED BY <1>2, RememberedHolds, PTL DEF WindowSpec, AnswersSeeTheLastTurn

---------------------------------------------------------------------------
(* Induction, and the recursive sums                                       *)

(* A set of numbers with 0 and every successor has them all.               *)
LEMMA Inductive ==
  ASSUME NEW T \in SUBSET Nat, 0 \in T, \A n \in Nat : n \in T => n + 1 \in T
  PROVE  T = Nat
<1> SUFFICES ASSUME Nat \ T # {} PROVE FALSE
  OBVIOUS
<1>1. PICK m \in Nat \ T : \A k \in Nat \ T : m <= k
  BY LeastExists
<1>2. m # 0 /\ m - 1 \in Nat /\ (m - 1) + 1 = m /\ ~(m <= m - 1)
  BY <1>1
<1>3. m - 1 \in T
  BY <1>1, <1>2
<1> QED BY <1>1, <1>2, <1>3

(* The body of used in Used                                               *)
Step(turns, g, k) == IF k = 0 THEN 0 ELSE g[k - 1] + Cost(turns[Len(turns) - k + 1])

(* The sums of any turns exist: Used is the function it describes.         *)
LEMMA UsedIs ==
  ASSUME NEW S, NEW turns \in Seq(S)
  PROVE  Used(turns) = [k \in 0..Len(turns) |-> Step(turns, Used(turns), k)]
<1>1. PICK n \in Nat : n = Len(turns)
  BY LenProperties
<1> DEFINE T == {m \in Nat : \E g : g = [k \in 0..m |-> Step(turns, g, k)]}
<1>2. 0 \in T
  <2>1. [k \in 0..0 |-> 0] = [k \in 0..0 |-> Step(turns, [j \in 0..0 |-> 0], k)]
    BY DEF Step
  <2> QED BY <2>1
<1>3. ASSUME NEW m \in Nat, m \in T PROVE m + 1 \in T
  <2>1. PICK g : g = [k \in 0..m |-> Step(turns, g, k)]
    BY <1>3
  <2> DEFINE h == [k \in 0..(m + 1) |-> Step(turns, g, k)]
  <2>2. \A k \in 0..m : h[k] = g[k]
    BY <2>1
  <2>3. \A k \in 0..(m + 1) : Step(turns, h, k) = Step(turns, g, k)
    <3>1. \A k \in 0..(m + 1) : k # 0 => k - 1 \in 0..m
      OBVIOUS
    <3>2. \A k \in 0..(m + 1) : k # 0 => h[k - 1] = g[k - 1]
      BY <2>2, <3>1
    <3> HIDE DEF h
    <3> QED BY <3>2 DEF Step
  <2>4. h = [k \in 0..(m + 1) |-> Step(turns, h, k)]
    BY <2>3
  <2> HIDE DEF h
  <2>5. \E x : x = [k \in 0..(m + 1) |-> Step(turns, x, k)]
    BY <2>4
  <2> QED BY <2>5
<1>4. n \in T
  BY <1>1, <1>2, <1>3, Inductive
<1>5. \E g : g = [k \in 0..Len(turns) |-> Step(turns, g, k)]
  BY <1>1, <1>4
<1>6. Used(turns) = CHOOSE g : g = [k \in 0..Len(turns) |-> Step(turns, g, k)]
  BY DEF Used, Step
<1> QED BY <1>5, <1>6

(* Any turns                                                               *)
Turns == Seq(DialogueTurn)

(* No turn has a negative length.                                          *)
LEMMA CostIsNat == \A t \in DialogueTurn : Cost(t) \in Nat
BY DEF DialogueTurn, Cost

(* The sums of the newest turns, one by one                                *)
LEMMA UsedSteps ==
  ASSUME NEW turns \in Turns, NEW n \in Nat, Len(turns) = n
  PROVE  /\ Used(turns)[0] = 0
         /\ \A k \in 1..n : Used(turns)[k] = Used(turns)[k - 1] + Cost(turns[n - k + 1])
         /\ \A k \in 0..n : Used(turns)[k] \in Nat
<1> DEFINE U == Used(turns)
<1>1. U = [k \in 0..n |-> Step(turns, U, k)]
  BY UsedIs DEF Turns
<1> HIDE DEF U
<1>2. U[0] = 0
  BY <1>1 DEF Step
<1>3. \A k \in 1..n : U[k] = U[k - 1] + Cost(turns[n - k + 1])
  BY <1>1 DEF Step
<1>4. \A k \in 1..n : Cost(turns[n - k + 1]) \in Nat
  <2> SUFFICES ASSUME NEW k \in 1..n PROVE Cost(turns[n - k + 1]) \in Nat
    OBVIOUS
  <2>1. PICK i \in 1..n : i = n - k + 1
    OBVIOUS
  <2>2. turns[i] \in DialogueTurn
    BY ElementOfSeq DEF Turns
  <2> QED BY <2>1, <2>2, CostIsNat
<1> DEFINE T == {k \in Nat : k <= n => U[k] \in Nat}
<1>5. 0 \in T
  BY <1>2
<1>6. ASSUME NEW k \in Nat, k \in T PROVE k + 1 \in T
  <2> SUFFICES ASSUME k + 1 <= n PROVE U[k + 1] \in Nat
    OBVIOUS
  <2>1. PICK j \in 1..n : j = k + 1 /\ j - 1 = k
    OBVIOUS
  <2>2. U[k] \in Nat
    BY <1>6
  <2>3. U[j] = U[j - 1] + Cost(turns[n - j + 1]) /\ Cost(turns[n - j + 1]) \in Nat
    BY <1>3, <1>4
  <2> QED BY <2>1, <2>2, <2>3
<1>7. T = Nat
  <2> HIDE DEF T
  <2>1. T \in SUBSET Nat
    BY DEF T
  <2> QED BY <1>5, <1>6, <2>1, Inductive
<1>8. \A k \in 0..n : U[k] \in Nat
  BY <1>7
<1> QED BY <1>2, <1>3, <1>8 DEF U

(* More turns never take less.                                             *)
LEMMA UsedMonotone ==
  ASSUME NEW turns \in Turns, NEW n \in Nat, Len(turns) = n,
         NEW j \in 0..n, NEW k \in 0..n, j <= k
  PROVE  Used(turns)[j] <= Used(turns)[k]
<1> DEFINE U == Used(turns)
<1>1. /\ \A i \in 1..n : U[i] = U[i - 1] + Cost(turns[n - i + 1])
      /\ \A i \in 0..n : U[i] \in Nat
  BY UsedSteps
<1> HIDE DEF U
<1>2. \A i \in 1..n : U[i - 1] <= U[i]
  <2> SUFFICES ASSUME NEW i \in 1..n PROVE U[i - 1] <= U[i]
    OBVIOUS
  <2>1. PICK a \in 1..n : a = n - i + 1
    OBVIOUS
  <2>2. Cost(turns[a]) \in Nat
    BY CostIsNat, ElementOfSeq DEF Turns
  <2>3. i \in 0..n /\ i - 1 \in 0..n
    OBVIOUS
  <2> QED BY <1>1, <2>1, <2>2, <2>3
<1> DEFINE T == {d \in Nat : j + d <= n => U[j] <= U[j + d]}
<1>3. 0 \in T
  BY <1>1
<1>4. ASSUME NEW d \in Nat, d \in T PROVE d + 1 \in T
  <2> SUFFICES ASSUME j + (d + 1) <= n PROVE U[j] <= U[j + (d + 1)]
    OBVIOUS
  <2>1. PICK i \in 1..n : i = j + (d + 1) /\ i - 1 = j + d /\ i - 1 \in 0..n
    OBVIOUS
  <2>2. U[j] <= U[i - 1] /\ U[i - 1] <= U[i]
    BY <1>2, <1>4, <2>1
  <2>3. U[j] \in Nat /\ U[i - 1] \in Nat /\ U[i] \in Nat
    BY <1>1, <2>1
  <2> QED BY <2>1, <2>2, <2>3
<1>5. T = Nat
  <2> HIDE DEF T
  <2>1. T \in SUBSET Nat
    BY DEF T
  <2> QED BY <1>3, <1>4, <2>1, Inductive
<1>6. PICK d \in Nat : j + d = k
  <2>1. k - j \in Nat /\ j + (k - j) = k
    OBVIOUS
  <2> QED BY <2>1
<1>7. j + d <= n /\ d \in T
  <2> HIDE DEF T
  <2> QED BY <1>5, <1>6
<1>8. U[j] <= U[j + d]
  BY <1>7
<1> QED BY <1>6, <1>8 DEF U

(* s and t end alike, in c turns: their sums are the same that far.        *)
SameTail(s, t, m, n, c) ==
  /\ s \in Turns /\ t \in Turns /\ m \in Nat /\ n \in Nat /\ c \in Nat
  /\ Len(s) = m /\ Len(t) = n /\ c <= m /\ c <= n
  /\ \A k \in 1..c : s[m - k + 1] = t[n - k + 1]

LEMMA UsedOfTail ==
  ASSUME NEW s, NEW t, NEW m, NEW n, NEW c, SameTail(s, t, m, n, c)
  PROVE  \A k \in 0..c : Used(s)[k] = Used(t)[k]
<1> USE DEF SameTail
<1> DEFINE U == Used(s)
           V == Used(t)
<1>1. /\ U[0] = 0 /\ \A k \in 1..m : U[k] = U[k - 1] + Cost(s[m - k + 1])
      /\ V[0] = 0 /\ \A k \in 1..n : V[k] = V[k - 1] + Cost(t[n - k + 1])
  BY UsedSteps
<1> HIDE DEF U, V
<1> DEFINE T == {k \in Nat : k <= c => U[k] = V[k]}
<1>2. 0 \in T
  BY <1>1
<1>3. ASSUME NEW k \in Nat, k \in T PROVE k + 1 \in T
  <2> SUFFICES ASSUME k + 1 <= c PROVE U[k + 1] = V[k + 1]
    OBVIOUS
  <2>1. PICK j \in 1..c : j = k + 1 /\ j - 1 = k /\ j \in 1..m /\ j \in 1..n
    OBVIOUS
  <2>2. U[j - 1] = V[j - 1]
    BY <1>3, <2>1
  <2>3. U[j] = V[j]
    <3>1. s[m - j + 1] = t[n - j + 1]
      OBVIOUS
    <3>2. U[j] = U[j - 1] + Cost(s[m - j + 1]) /\ V[j] = V[j - 1] + Cost(t[n - j + 1])
      BY <1>1, <2>1
    <3> QED BY ONLY <2>2, <3>1, <3>2
  <2> QED BY <2>1, <2>3
<1>4. T = Nat
  <2> HIDE DEF T
  <2>1. T \in SUBSET Nat
    BY DEF T
  <2> QED BY <1>2, <1>3, <2>1, Inductive
<1> QED BY <1>4 DEF U, V

(* A turn more adds its own length to every sum.                           *)
LEMMA UsedOfAppend ==
  ASSUME NEW s \in Turns, NEW t \in DialogueTurn, NEW n \in Nat, Len(s) = n
  PROVE  \A k \in 0..n : Used(Append(s, t))[k + 1] = Used(s)[k] + Cost(t)
<1> DEFINE a == Append(s, t)
           U == Used(a)
           V == Used(s)
<1>1. a \in Turns /\ Len(a) = n + 1 /\ a[n + 1] = t /\ \A i \in 1..n : a[i] = s[i]
  BY AppendProperties DEF Turns
<1> HIDE DEF a
<1>2. /\ U[0] = 0 /\ \A k \in 1..(n + 1) : U[k] = U[k - 1] + Cost(a[(n + 1) - k + 1])
      /\ V[0] = 0 /\ \A k \in 1..n : V[k] = V[k - 1] + Cost(s[n - k + 1])
      /\ \A k \in 0..n : V[k] \in Nat
  <2>1. n + 1 \in Nat /\ a \in Turns /\ Len(a) = n + 1
    BY <1>1
  <2>2. U[0] = 0 /\ \A k \in 1..(n + 1) : U[k] = U[k - 1] + Cost(a[(n + 1) - k + 1])
    BY ONLY <2>1, UsedSteps DEF U
  <2>3. /\ V[0] = 0 /\ \A k \in 1..n : V[k] = V[k - 1] + Cost(s[n - k + 1])
        /\ \A k \in 0..n : V[k] \in Nat
    BY UsedSteps
  <2> QED BY <2>2, <2>3
<1> HIDE DEF U, V
<1> DEFINE T == {k \in Nat : k <= n => U[k + 1] = V[k] + Cost(t)}
<1>3. Cost(t) \in Nat
  BY CostIsNat
<1>4. 0 \in T
  <2>1. 1 \in 1..(n + 1) /\ 1 - 1 = 0 /\ (n + 1) - 1 + 1 = n + 1
    OBVIOUS
  <2>2. U[1] = U[0] + Cost(a[n + 1])
    BY <1>2, <2>1
  <2>3. U[0 + 1] = V[0] + Cost(t)
    BY <1>1, <1>2, <1>3, <2>2
  <2> QED BY <2>3
<1>5. ASSUME NEW k \in Nat, k \in T PROVE k + 1 \in T
  <2> SUFFICES ASSUME k + 1 <= n PROVE U[(k + 1) + 1] = V[k + 1] + Cost(t)
    OBVIOUS
  <2>1. PICK j \in 1..n : j = k + 1 /\ j - 1 = k
    OBVIOUS
  <2>2. PICK i \in 1..n : i = n - j + 1 /\ (n + 1) - (j + 1) + 1 = i
    OBVIOUS
  <2>3. j + 1 \in 1..(n + 1) /\ (j + 1) - 1 = j
    OBVIOUS
  <2>4. U[j + 1] = U[j] + Cost(a[i]) /\ a[i] = s[i]
    BY <1>1, <1>2, <2>2, <2>3
  <2>5. V[j] = V[j - 1] + Cost(s[i])
    BY <1>2, <2>2
  <2>6. U[j] = V[j - 1] + Cost(t)
    BY <1>5, <2>1
  <2>7. V[j - 1] \in Nat /\ Cost(s[i]) \in Nat
    BY <1>2, <2>1, CostIsNat, ElementOfSeq DEF Turns
  <2>8. U[j + 1] = V[j] + Cost(t)
    BY <1>3, <2>4, <2>5, <2>6, <2>7
  <2> QED BY <2>1, <2>8
<1>6. T = Nat
  <2> HIDE DEF T
  <2>1. T \in SUBSET Nat
    BY DEF T
  <2> QED BY <1>4, <1>5, <2>1, Inductive
<1>7. \A k \in 0..n : U[k + 1] = V[k] + Cost(t)
  BY <1>6
<1> QED BY <1>7 DEF U, V, a

(* k of the newest turns fit, and one more would not.                      *)
TurnsFit(turns, k) ==
  /\ k \in 0..Len(turns) /\ Used(turns)[k] <= MaxChars
  /\ k = Len(turns) \/ Used(turns)[k + 1] > MaxChars

(* The CHOOSE of KeptCount has something to choose.                        *)
LEMMA KeptCountIs ==
  ASSUME NEW turns \in Turns
  PROVE  TurnsFit(turns, KeptCount(turns))
<1>1. PICK n \in Nat : Len(turns) = n
  BY LenProperties DEF Turns
<1> DEFINE U == Used(turns)
           T == {j \in 1..n : U[j] > MaxChars}
<1>2. U[0] = 0 /\ \A k \in 0..n : U[k] \in Nat
  BY <1>1, UsedSteps
<1> HIDE DEF U
<1>3. \E k \in 0..n : U[k] <= MaxChars /\ (k = n \/ U[k + 1] > MaxChars)
  <2>1. CASE T = {}
    <3>1. n = 0 => U[n] <= MaxChars
      BY <1>2, MaxCharsAssumption
    <3>2. n # 0 => U[n] <= MaxChars
      BY <1>2, <2>1, MaxCharsAssumption
    <3> QED BY <3>1, <3>2
  <2>2. CASE T # {}
    <3>1. PICK j \in T : \A i \in T : j <= i
      <4>1. T \in SUBSET Nat
        OBVIOUS
      <4> HIDE DEF T
      <4> QED BY <2>2, <4>1, LeastExists
    <3>2. PICK k \in 0..n : k + 1 = j /\ k < n
      <4>1. j - 1 \in 0..n /\ (j - 1) + 1 = j /\ j - 1 < n
        OBVIOUS
      <4> QED BY <4>1
    <3>3. k \notin T
      BY <3>1, <3>2
    <3>4. U[k] <= MaxChars
      BY <1>2, <3>2, <3>3, MaxCharsAssumption
    <3> QED BY <3>1, <3>2, <3>4
  <2> QED BY <2>1, <2>2
<1> DEFINE Q(k) == /\ Used(turns)[k] <= MaxChars
                   /\ k = Len(turns) \/ Used(turns)[k + 1] > MaxChars
<1>4. \E k \in 0..Len(turns) : Q(k)
  BY <1>1, <1>3 DEF U
<1>5. KeptCount(turns) = CHOOSE k \in 0..Len(turns) : Q(k)
  BY DEF KeptCount
<1> HIDE DEF Q
<1>6. KeptCount(turns) \in 0..Len(turns) /\ Q(KeptCount(turns))
  BY <1>4, <1>5
<1> QED BY <1>6 DEF TurnsFit, Q

(* And only one.                                                           *)
LEMMA FitsOnce ==
  ASSUME NEW turns \in Turns, NEW j, NEW k, TurnsFit(turns, j), TurnsFit(turns, k)
  PROVE  j = k
<1>1. PICK n \in Nat : Len(turns) = n
  BY LenProperties DEF Turns
<1>2. \A i \in 0..n : Used(turns)[i] \in Nat
  BY <1>1, UsedSteps
<1>3. ASSUME NEW a \in 0..n, NEW b \in 0..n, TurnsFit(turns, a), TurnsFit(turns, b) PROVE ~(a < b)
  <2> SUFFICES ASSUME a < b PROVE FALSE
    OBVIOUS
  <2>1. a + 1 \in 0..n /\ a + 1 <= b /\ a # n
    OBVIOUS
  <2>2. Used(turns)[a + 1] <= Used(turns)[b]
    BY <1>1, <2>1, UsedMonotone
  <2>3. Used(turns)[a + 1] > MaxChars /\ Used(turns)[b] <= MaxChars
    BY <1>1, <1>3, <2>1 DEF TurnsFit
  <2>4. Used(turns)[a + 1] \in Nat /\ Used(turns)[b] \in Nat
    BY <1>2, <2>1
  <2> QED BY <2>2, <2>3, <2>4, MaxCharsAssumption
<1>4. j \in 0..n /\ k \in 0..n
  BY <1>1 DEF TurnsFit
<1>5. ~(j < k) /\ ~(k < j)
  BY <1>3, <1>4
<1> QED BY <1>4, <1>5

---------------------------------------------------------------------------
(* CachedIsARun and CacheMatchesRebuild, of any window                     *)
RunOf(w) ==
  LET n == Len(w.turns) IN
  /\ w.through <= Len(dialogue) /\ n <= w.through
  /\ n = 0 <=> w.through = 0
  /\ \A i \in 1..n : w.turns[i].index = w.through - n + i
  /\ \A i \in 1..n : w.turns[i] \in {TurnAt(w.turns[i].index), Cut(TurnAt(w.turns[i].index))}
  /\ Used(w.turns)[n] <= Greatest(2, MaxChars)

MatchesOf(w) ==
  (\A i \in 1..w.through : Cost(TurnAt(i)) <= MaxChars) =>
    w.turns = Kept(TurnsUpTo(w.through))

GoodWindow(w) == w # None => w \in Window /\ RunOf(w) /\ MatchesOf(w)

(* A cut turn fits, and keeps its index.                                   *)
LEMMA CutFits ==
  ASSUME NEW t \in DialogueTurn
  PROVE  Cut(t) \in DialogueTurn /\ Cut(t).index = t.index /\ Cost(Cut(t)) <= Greatest(2, MaxChars)
<1>1. PICK q \in Nat : q = MaxChars \div 3 /\ 3 * q <= MaxChars /\ MaxChars < 3 * q + 3
  BY MaxCharsAssumption
<1>2. PICK u \in Nat : u = Least(t.user, Greatest(1, q)) /\ (u <= 1 \/ u <= q)
  <2>1. PICK x \in Nat : t.user = x
    BY DEF DialogueTurn
  <2>2. Least(x, Greatest(1, q)) \in Nat
        /\ (Least(x, Greatest(1, q)) <= 1 \/ Least(x, Greatest(1, q)) <= q)
    BY <1>1 DEF Least, Greatest
  <2> QED BY <2>1, <2>2
<1>3. PICK a \in Nat : a = Least(t.assistant, Greatest(1, MaxChars - u)) /\ (a <= 1 \/ a <= MaxChars - u)
  BY <1>1, <1>2, MaxCharsAssumption DEF Least, Greatest, DialogueTurn
<1>4. Cut(t) = [t EXCEPT !.user = u, !.assistant = a]
  BY <1>1, <1>2, <1>3 DEF Cut
<1>5. Cut(t) = [index |-> t.index, user |-> u, assistant |-> a]
  BY <1>4 DEF DialogueTurn
<1>6. u + a <= Greatest(2, MaxChars)
  BY <1>1, <1>2, <1>3, MaxCharsAssumption DEF Greatest
<1> QED BY <1>5, <1>6 DEF DialogueTurn, Cost

(* The stored turns are turns.                                             *)
LEMMA TurnsTyped ==
  ASSUME dialogue \in Seq(Sizes), NEW n \in Nat, n <= Len(dialogue)
  PROVE  /\ TurnsUpTo(n) \in Turns /\ Len(TurnsUpTo(n)) = n
         /\ \A i \in 1..n : /\ TurnAt(i) \in DialogueTurn /\ TurnAt(i).index = i
                            /\ TurnsUpTo(n)[i] = TurnAt(i)
<1>1. \A i \in 1..n : TurnAt(i) \in DialogueTurn /\ TurnAt(i).index = i
  <2> SUFFICES ASSUME NEW i \in 1..n PROVE TurnAt(i) \in DialogueTurn /\ TurnAt(i).index = i
    OBVIOUS
  <2>1. dialogue[i] \in Sizes
    BY LenProperties
  <2>2. dialogue[i].user \in Nat /\ dialogue[i].assistant \in Nat
    BY <2>1, SizesAssumption
  <2> QED BY <2>2 DEF TurnAt, DialogueTurn
<1>2. TurnsUpTo(n) \in [1..n -> DialogueTurn]
  BY <1>1 DEF TurnsUpTo
<1>3. TurnsUpTo(n) \in Turns /\ Len(TurnsUpTo(n)) = n
  BY <1>2 DEF Turns
<1> QED BY <1>1, <1>3 DEF TurnsUpTo

(* The newest k turns                                                      *)
LEMMA TailOf ==
  ASSUME NEW s \in Turns, NEW n \in Nat, Len(s) = n, NEW k \in 0..n
  PROVE  \E l \in Turns : /\ l = SubSeq(s, n - k + 1, n) /\ Len(l) = k
                          /\ \A i \in 1..k : l[i] = s[n - k + i]
<1> DEFINE l == SubSeq(s, n - k + 1, n)
<1>1. n - k + 1 \in Int /\ n \in Int /\ \A i \in (n - k + 1)..n : s[i] \in DialogueTurn
  BY LenProperties DEF Turns
<1>2. l \in Turns /\ Len(l) = IF n - k + 1 <= n THEN n - (n - k + 1) + 1 ELSE 0
  BY <1>1, SubSeqProperties DEF Turns
<1>3. \A i \in 1..(n - (n - k + 1) + 1) : l[i] = s[n - k + 1 + i - 1]
  BY <1>1, SubSeqProperties
<1> HIDE DEF l
<1>4. Len(l) = k
  BY <1>2
<1>5. \A i \in 1..k : l[i] = s[n - k + i]
  <2>1. n - (n - k + 1) + 1 = k /\ \A i \in 1..k : n - k + 1 + i - 1 = n - k + i
    OBVIOUS
  <2> QED BY <1>3, <2>1
<1> QED BY <1>2, <1>4, <1>5 DEF l

(* What is kept of a run of turns is a run, within the budget.             *)
LEMMA KeptRun ==
  ASSUME dialogue \in Seq(Sizes), NEW s \in Turns, NEW n \in Nat \ {0}, Len(s) = n,
         NEW m \in Nat, n <= m, m <= Len(dialogue), s[n] = TurnAt(m),
         \A i \in 1..n : /\ s[i].index = m - n + i
                         /\ s[i] \in {TurnAt(s[i].index), Cut(TurnAt(s[i].index))}
  PROVE  /\ BuildWindow(s) \in Window /\ BuildWindow(s).through = m /\ RunOf(BuildWindow(s))
         /\ BuildWindow(s).turns = Kept(s)
<1> DEFINE w == BuildWindow(s)
           k == KeptCount(s)
<1>1. s # <<>> /\ TurnAt(m) \in DialogueTurn /\ TurnAt(m).index = m
  BY TurnsTyped
<1>2. w = [through |-> m, truncated |-> Len(Kept(s)) < n, turns |-> Kept(s)]
  BY <1>1 DEF BuildWindow
<1> HIDE DEF w
<1>3. \E l \in Turns : /\ l = Kept(s) /\ Len(l) \in 1..n
                       /\ \A i \in 1..Len(l) : /\ l[i].index = m - Len(l) + i
                                               /\ l[i] \in {TurnAt(l[i].index), Cut(TurnAt(l[i].index))}
                       /\ Used(l)[Len(l)] <= Greatest(2, MaxChars)
  <2>1. CASE Cost(s[n]) > MaxChars
    <3>1. Kept(s) = <<Cut(TurnAt(m))>>
      BY <2>1 DEF Kept
    <3> DEFINE l == <<Cut(TurnAt(m))>>
    <3>2. Cut(TurnAt(m)) \in DialogueTurn /\ Cut(TurnAt(m)).index = m
          /\ Cost(Cut(TurnAt(m))) <= Greatest(2, MaxChars)
      BY <1>1, CutFits
    <3>3. l \in Turns /\ Len(l) = 1 /\ l[1] = Cut(TurnAt(m))
      BY <3>2 DEF Turns
    <3> HIDE DEF l
    <3>4. Used(l)[0] = 0 /\ \A j \in 1..1 : Used(l)[j] = Used(l)[j - 1] + Cost(l[1 - j + 1])
      <4>1. l \in Turns /\ 1 \in Nat /\ Len(l) = 1
        BY <3>3
      <4> QED BY ONLY <4>1, UsedSteps
    <3>5. Cost(l[1]) \in Nat
      BY <3>2, <3>3, CostIsNat
    <3>6. Used(l)[1] = Cost(l[1])
      BY <3>4, <3>5
    <3>7. ASSUME NEW i \in 1..1
          PROVE  l[i].index = m - 1 + i /\ l[i] \in {TurnAt(l[i].index), Cut(TurnAt(l[i].index))}
      <4>1. i = 1 /\ m - 1 + 1 = m
        OBVIOUS
      <4> QED BY <3>2, <3>3, <4>1
    <3>8. 1 \in 1..n /\ Used(l)[1] <= Greatest(2, MaxChars) /\ l = Kept(s)
      BY <3>1, <3>2, <3>3, <3>6 DEF l
    <3> QED BY <3>3, <3>7, <3>8
  <2>2. CASE ~(Cost(s[n]) > MaxChars)
    <3>1. Kept(s) = SubSeq(s, n - k + 1, n)
      BY <2>2 DEF Kept
    <3>2. k \in 0..n /\ Used(s)[k] <= MaxChars /\ (k = n \/ Used(s)[k + 1] > MaxChars)
      BY KeptCountIs DEF TurnsFit
    <3> HIDE DEF k
    <3>3. k # 0
      <4>1. Used(s)[0] = 0 /\ Used(s)[1] = Used(s)[1 - 1] + Cost(s[n - 1 + 1])
        <5>1. s \in Turns /\ n \in Nat /\ Len(s) = n /\ 1 \in 1..n
          OBVIOUS
        <5> QED BY ONLY <5>1, UsedSteps
      <4>2. Cost(s[n]) \in Nat
        BY <1>1, CostIsNat
      <4>3. ~(Used(s)[0 + 1] > MaxChars)
        BY <2>2, <4>1, <4>2
      <4> QED BY <3>2, <4>3
    <3>4. PICK l \in Turns : /\ l = SubSeq(s, n - k + 1, n) /\ Len(l) = k
                            /\ \A i \in 1..k : l[i] = s[n - k + i]
      BY <3>2, TailOf
    <3>5. ASSUME NEW i \in 1..k
          PROVE  l[i].index = m - k + i /\ l[i] \in {TurnAt(l[i].index), Cut(TurnAt(l[i].index))}
      <4>1. n - k + i \in 1..n /\ m - n + (n - k + i) = m - k + i
        BY <3>2
      <4> QED BY <3>4, <4>1
    <3>6. Used(l)[k] = Used(s)[k]
      <4>1. \A j \in 1..k : l[k - j + 1] = s[n - j + 1]
        <5> SUFFICES ASSUME NEW j \in 1..k PROVE l[k - j + 1] = s[n - j + 1]
          OBVIOUS
        <5>1. k - j + 1 \in 1..k /\ n - k + (k - j + 1) = n - j + 1
          <6>1. k \in 0..n /\ n \in Nat /\ j \in 1..k
            BY <3>2
          <6> QED BY ONLY <6>1
        <5> QED BY <3>4, <5>1
      <4>2. k \in Nat /\ k <= k /\ k <= n
        BY <3>2
      <4>3. \A j \in 0..k : Used(l)[j] = Used(s)[j]
        <5>1. SameTail(l, s, k, n, k)
          BY <3>4, <4>1, <4>2 DEF SameTail
        <5> QED BY ONLY <5>1, UsedOfTail
      <4> QED BY <4>2, <4>3
    <3>7. Used(l)[k] <= Greatest(2, MaxChars)
      <4>1. Used(s)[k] \in Nat
        BY <3>2, UsedSteps
      <4> QED BY <3>2, <3>6, <4>1, MaxCharsAssumption DEF Greatest
    <3>8. k \in 1..n /\ l = Kept(s)
      BY <3>1, <3>2, <3>3, <3>4
    <3> QED BY <3>4, <3>5, <3>7, <3>8
  <2> QED BY <2>1, <2>2
<1>4. PICK l \in Turns : /\ l = Kept(s) /\ Len(l) \in 1..n
                         /\ \A i \in 1..Len(l) : /\ l[i].index = m - Len(l) + i
                                                 /\ l[i] \in {TurnAt(l[i].index), Cut(TurnAt(l[i].index))}
                         /\ Used(l)[Len(l)] <= Greatest(2, MaxChars)
  BY <1>3
<1>5. w = [through |-> m, truncated |-> Len(l) < n, turns |-> l]
  BY <1>2, <1>4
<1>6. w \in Window /\ w.through = m /\ w.turns = l
  BY <1>4, <1>5 DEF Window, Turns
<1>7. RunOf(w)
  <2>1. PICK c \in 1..n : c = Len(l)
    BY <1>4
  <2>2. m # 0 /\ c # 0 /\ c <= m
    BY <2>1
  <2> QED BY <1>4, <1>6, <2>1, <2>2 DEF RunOf
<1> QED BY <1>4, <1>6, <1>7 DEF w

(* A run that a rebuild would give too                                     *)
IsGood(w) == w \in Window /\ RunOf(w) /\ MatchesOf(w)

(* A rebuilt window is good.                                               *)
LEMMA RebuiltGood ==
  ASSUME dialogue \in Seq(Sizes), NEW n \in Nat, n <= Len(dialogue)
  PROVE  /\ IsGood(BuildWindow(TurnsUpTo(n))) /\ BuildWindow(TurnsUpTo(n)).through = n
         /\ n = 0 => BuildWindow(TurnsUpTo(n)).turns = <<>>
<1> DEFINE s == TurnsUpTo(n)
           w == BuildWindow(s)
<1>1. s \in Turns /\ Len(s) = n
      /\ \A i \in 1..n : TurnAt(i) \in DialogueTurn /\ TurnAt(i).index = i /\ s[i] = TurnAt(i)
  BY TurnsTyped
<1>2. w.through = n /\ w.turns = Kept(s)
  BY RebuiltThrough DEF BuildWindow
<1>3. MatchesOf(w)
  BY <1>2 DEF MatchesOf
<1>4. CASE n # 0
  <2>1. /\ s \in Turns /\ n \in Nat \ {0} /\ Len(s) = n /\ n \in Nat /\ n <= n /\ n <= Len(dialogue)
        /\ s[n] = TurnAt(n) /\ dialogue \in Seq(Sizes)
        /\ \A i \in 1..n : /\ s[i].index = n - n + i
                           /\ s[i] \in {TurnAt(s[i].index), Cut(TurnAt(s[i].index))}
    BY <1>1, <1>4
  <2>2. w \in Window /\ RunOf(w)
    BY ONLY <2>1, KeptRun DEF w
  <2> QED BY <1>2, <1>3, <1>4, <2>2 DEF IsGood
<1>5. CASE n = 0
  <2>1. s = <<>>
    BY <1>1, <1>5 DEF Turns
  <2>2. KeptCount(s) = 0
    BY <1>1, <1>5, KeptCountIs DEF TurnsFit
  <2>3. Kept(s) = SubSeq(s, 0 - 0 + 1, 0)
    BY <1>1, <1>5, <2>2 DEF Kept
  <2>4. Kept(s) = <<>>
    BY <2>3, SubSeqEmpty
  <2>5. w = [through |-> 0, truncated |-> FALSE, turns |-> <<>>]
    <3>1. Len(Kept(s)) = 0 /\ Len(s) = 0 /\ ~(0 < 0)
      BY <1>1, <1>5, <2>4
    <3>2. (Len(Kept(s)) < Len(s)) = FALSE
      BY <3>1
    <3>3. w.truncated = FALSE
      BY <3>2 DEF BuildWindow
    <3>4. w = [through |-> w.through, truncated |-> w.truncated, turns |-> w.turns]
      BY DEF BuildWindow
    <3> QED BY <1>2, <1>5, <2>4, <3>3, <3>4
  <2>6. <<>> \in Turns /\ Used(<<>>)[0] = 0
    <3>1. <<>> \in Turns /\ 0 \in Nat /\ Len(<<>>) = 0
      BY DEF Turns
    <3> QED BY ONLY <3>1, UsedSteps
  <2>7. w \in Window
    BY <2>5, <2>6 DEF Window, Turns
  <2>8. RunOf(w)
    <3>1. 0 <= Greatest(2, MaxChars) /\ 1..0 = {} /\ 0 <= Len(dialogue)
      BY <1>5, MaxCharsAssumption DEF Greatest
    <3> HIDE DEF w, s
    <3> QED BY <2>5, <2>6, <3>1 DEF RunOf
  <2> QED BY <1>2, <1>3, <1>5, <2>4, <2>7, <2>8 DEF IsGood
<1> QED BY <1>4, <1>5

(* Behind a window that a rebuild would give, the next turn gives the      *)
(* window of the next rebuild.                                             *)
LEMMA GrownMatches ==
  ASSUME dialogue \in Seq(Sizes), NEW m \in Nat, m + 1 <= Len(dialogue),
         \A i \in 1..(m + 1) : Cost(TurnAt(i)) <= MaxChars
  PROVE  Kept(Append(Kept(TurnsUpTo(m)), TurnAt(m + 1))) = Kept(TurnsUpTo(m + 1))
<1> DEFINE P == TurnsUpTo(m)
           T == TurnsUpTo(m + 1)
           t == TurnAt(m + 1)
           c == KeptCount(P)
<1>1. /\ P \in Turns /\ Len(P) = m /\ \A i \in 1..m : P[i] = TurnAt(i)
      /\ T \in Turns /\ Len(T) = m + 1 /\ \A i \in 1..(m + 1) : T[i] = TurnAt(i)
      /\ t \in DialogueTurn
  <2>1. m + 1 \in Nat /\ m <= Len(dialogue) /\ Len(dialogue) \in Nat
    BY LenProperties
  <2> QED BY <2>1, TurnsTyped
<1>2. T = Append(P, t)
  <2>1. /\ Append(P, t) \in Turns /\ Len(Append(P, t)) = m + 1 /\ Append(P, t)[m + 1] = t
        /\ \A i \in 1..m : Append(P, t)[i] = P[i]
    BY <1>1, AppendProperties DEF Turns
  <2>2. ASSUME NEW i \in 1..(m + 1) PROVE Append(P, t)[i] = T[i]
    <3>1. i \in 1..m \/ i = m + 1
      OBVIOUS
    <3> HIDE DEF P, T
    <3> QED BY <1>1, <2>1, <3>1
  <2> HIDE DEF P, T, t
  <2>3. Append(P, t) \in Seq(DialogueTurn) /\ T \in Seq(DialogueTurn) /\ Len(Append(P, t)) = Len(T)
        /\ \A i \in 1..Len(T) : Append(P, t)[i] = T[i]
    BY <1>1, <2>1, <2>2 DEF Turns
  <2> QED BY ONLY <2>3, SeqEqual
<1>3. TurnsFit(P, c) /\ c \in 0..m
  BY <1>1, KeptCountIs DEF TurnsFit
<1>4. Cost(t) \in Nat /\ Cost(t) <= MaxChars /\ (m > 0 => Cost(P[m]) <= MaxChars)
  <2>1. m + 1 \in 1..(m + 1) /\ (m > 0 => m \in 1..m /\ m \in 1..(m + 1))
    OBVIOUS
  <2> QED BY <1>1, <2>1, CostIsNat
<1>5. Kept(P) = SubSeq(P, m - c + 1, m)
  <2>1. ~(m > 0 /\ Cost(P[m]) > MaxChars)
    <3>1. m > 0 => Cost(P[m]) \in Nat
      BY <1>1, CostIsNat, ElementOfSeq DEF Turns
    <3> QED BY <1>4, <3>1, MaxCharsAssumption
  <2> HIDE DEF P
  <2> QED BY <1>1, <2>1 DEF Kept
<1> HIDE DEF P, T, t, c
<1>6. PICK l \in Turns : l = Kept(P) /\ Len(l) = c /\ \A i \in 1..c : l[i] = P[m - c + i]
  <2>1. P \in Turns /\ m \in Nat /\ Len(P) = m /\ c \in 0..m
    BY <1>1, <1>3
  <2>2. \E l \in Turns : /\ l = SubSeq(P, m - c + 1, m) /\ Len(l) = c
                         /\ \A i \in 1..c : l[i] = P[m - c + i]
    BY ONLY <2>1, TailOf
  <2> QED BY <1>5, <2>2
<1> DEFINE s == Append(l, t)
<1>7. s \in Turns /\ Len(s) = c + 1 /\ s[c + 1] = t /\ \A i \in 1..c : s[i] = l[i]
  BY <1>1, <1>6, AppendProperties DEF Turns
<1> HIDE DEF s
<1>8. \A i \in 1..(c + 1) : s[i] = T[m - c + i]
  <2> SUFFICES ASSUME NEW i \in 1..(c + 1) PROVE s[i] = T[m - c + i]
    OBVIOUS
  <2>1. CASE i \in 1..c
    <3>1. m - c + i \in 1..m /\ m - c + i \in 1..(m + 1)
      BY <1>3, <2>1
    <3> QED BY <1>1, <1>6, <1>7, <2>1, <3>1
  <2>2. CASE i = c + 1
    <3>1. m - c + i = m + 1 /\ m + 1 \in 1..(m + 1)
      BY <1>3, <2>2
    <3> QED BY <1>1, <1>7, <2>2, <3>1 DEF t
  <2>3. i \in 1..c \/ i = c + 1
    BY <1>3
  <2> QED BY <2>1, <2>2, <2>3
<1>9. SameTail(s, T, c + 1, m + 1, c + 1)
  <2>1. ASSUME NEW k \in 1..(c + 1) PROVE s[(c + 1) - k + 1] = T[(m + 1) - k + 1]
    <3>1. (c + 1) - k + 1 \in 1..(c + 1) /\ m - c + ((c + 1) - k + 1) = (m + 1) - k + 1
      BY <1>3
    <3> QED BY <1>8, <3>1
  <2>2. c + 1 \in Nat /\ m + 1 \in Nat /\ c + 1 <= c + 1 /\ c + 1 <= m + 1
    BY <1>3
  <2> QED BY <1>1, <1>7, <2>1, <2>2 DEF SameTail
<1>10. \A k \in 0..(c + 1) : Used(s)[k] = Used(T)[k]
  BY ONLY <1>9, UsedOfTail
<1> DEFINE k == KeptCount(s)
<1>11. k \in 0..(c + 1) /\ Used(s)[k] <= MaxChars /\ (k = c + 1 \/ Used(s)[k + 1] > MaxChars)
  BY <1>7, KeptCountIs DEF TurnsFit
<1>12. c # m => Used(T)[(c + 1) + 1] > MaxChars
  <2> SUFFICES ASSUME c # m PROVE Used(T)[(c + 1) + 1] > MaxChars
    OBVIOUS
  <2>1. Used(P)[c + 1] > MaxChars /\ c + 1 \in 0..m
    BY <1>1, <1>3 DEF TurnsFit
  <2>2. Used(T)[(c + 1) + 1] = Used(P)[c + 1] + Cost(t)
    BY <1>1, <1>2, <2>1, UsedOfAppend
  <2>3. Used(P)[c + 1] \in Nat
    BY <1>1, <2>1, UsedSteps
  <2> QED BY <1>4, <2>1, <2>2, <2>3, MaxCharsAssumption
<1> HIDE DEF k
<1>13. TurnsFit(T, k)
  <2>1. k \in 0..(m + 1) /\ Used(T)[k] <= MaxChars
    BY <1>3, <1>10, <1>11
  <2>2. CASE k = c + 1
    <3>1. k = m + 1 \/ Used(T)[k + 1] > MaxChars
      BY <1>3, <1>12, <2>2
    <3> QED BY <1>1, <2>1, <3>1 DEF TurnsFit
  <2>3. CASE k # c + 1
    <3>1. k + 1 \in 0..(c + 1)
      BY <1>3, <1>11, <2>3
    <3>2. Used(T)[k + 1] > MaxChars
      BY <1>10, <1>11, <2>3, <3>1
    <3> QED BY <1>1, <2>1, <3>2 DEF TurnsFit
  <2> QED BY <2>2, <2>3
<1>14. KeptCount(T) = k
  BY <1>1, <1>13, KeptCountIs, FitsOnce
<1>15. Kept(s) = SubSeq(s, (c + 1) - k + 1, c + 1) /\ Kept(T) = SubSeq(T, (m + 1) - k + 1, m + 1)
  <2>1. s[c + 1] = t /\ T[m + 1] = t /\ ~(Cost(t) > MaxChars)
    <3>1. m + 1 \in 1..(m + 1)
      OBVIOUS
    <3> QED BY <1>1, <1>4, <1>7, <3>1, MaxCharsAssumption DEF t
  <2>2. KeptCount(s) = k
    BY DEF k
  <2> QED BY <1>1, <1>7, <1>14, <2>1, <2>2 DEF Kept
<1>16. PICK a \in Turns : a = Kept(s) /\ Len(a) = k /\ \A i \in 1..k : a[i] = s[(c + 1) - k + i]
  <2>1. c + 1 \in Nat /\ s \in Turns /\ Len(s) = c + 1 /\ k \in 0..(c + 1)
    BY <1>3, <1>7, <1>11
  <2>2. \E a \in Turns : /\ a = SubSeq(s, (c + 1) - k + 1, c + 1) /\ Len(a) = k
                         /\ \A i \in 1..k : a[i] = s[(c + 1) - k + i]
    BY ONLY <2>1, TailOf
  <2> QED BY <1>15, <2>2
<1>17. PICK b \in Turns : b = Kept(T) /\ Len(b) = k /\ \A i \in 1..k : b[i] = T[(m + 1) - k + i]
  <2>1. m + 1 \in Nat /\ T \in Turns /\ Len(T) = m + 1 /\ k \in 0..(m + 1)
    BY <1>1, <1>3, <1>11
  <2>2. \E b \in Turns : /\ b = SubSeq(T, (m + 1) - k + 1, m + 1) /\ Len(b) = k
                         /\ \A i \in 1..k : b[i] = T[(m + 1) - k + i]
    BY ONLY <2>1, TailOf
  <2> QED BY <1>15, <2>2
<1>18. ASSUME NEW i \in 1..k PROVE a[i] = b[i]
  <2>1. (c + 1) - k + i \in 1..(c + 1) /\ m - c + ((c + 1) - k + i) = (m + 1) - k + i
    BY <1>3, <1>11
  <2> QED BY <1>8, <1>16, <1>17, <2>1
<1>19. a = b
  <2>1. a \in Seq(DialogueTurn) /\ b \in Seq(DialogueTurn) /\ Len(a) = Len(b)
        /\ \A i \in 1..Len(a) : a[i] = b[i]
    BY <1>16, <1>17, <1>18 DEF Turns
  <2> QED BY ONLY <2>1, SeqEqual
<1> QED BY <1>6, <1>16, <1>17, <1>19 DEF s, P, T, t

(* A good window and its next turn make a good window.                     *)
LEMMA GrownGood ==
  ASSUME dialogue \in Seq(Sizes), NEW w, IsGood(w), w.through + 1 <= Len(dialogue)
  PROVE  IsGood(BuildWindow(Append(w.turns, TurnAt(w.through + 1))))
<1>1. PICK m \in Nat, c \in Nat, l \in Turns : w.through = m /\ w.turns = l /\ Len(l) = c
  BY LenProperties DEF IsGood, Window, Turns
<1>2. /\ c <= m /\ m + 1 <= Len(dialogue)
      /\ \A i \in 1..c : l[i].index = m - c + i /\ l[i] \in {TurnAt(l[i].index), Cut(TurnAt(l[i].index))}
  BY <1>1 DEF IsGood, RunOf
<1> DEFINE t == TurnAt(m + 1)
           s == Append(l, t)
           b == BuildWindow(s)
<1>3. t \in DialogueTurn /\ t.index = m + 1
  BY <1>2, TurnsTyped
<1>4. s \in Turns /\ Len(s) = c + 1 /\ s[c + 1] = t /\ \A i \in 1..c : s[i] = l[i]
  BY <1>1, <1>3, AppendProperties DEF Turns
<1> HIDE DEF s
<1>5. ASSUME NEW i \in 1..(c + 1)
      PROVE  /\ s[i].index = (m + 1) - (c + 1) + i
             /\ s[i] \in {TurnAt(s[i].index), Cut(TurnAt(s[i].index))}
  <2>1. CASE i \in 1..c
    <3>1. (m + 1) - (c + 1) + i = m - c + i
      OBVIOUS
    <3> QED BY <1>2, <1>4, <2>1, <3>1
  <2>2. CASE i = c + 1
    <3>1. (m + 1) - (c + 1) + i = m + 1
      BY <2>2
    <3> QED BY <1>3, <1>4, <2>2, <3>1
  <2>3. i \in 1..c \/ i = c + 1
    OBVIOUS
  <2> QED BY <2>1, <2>2, <2>3
<1>6. b \in Window /\ b.through = m + 1 /\ RunOf(b) /\ b.turns = Kept(s)
  <2>1. /\ dialogue \in Seq(Sizes) /\ s \in Turns /\ c + 1 \in Nat \ {0} /\ Len(s) = c + 1
        /\ m + 1 \in Nat /\ c + 1 <= m + 1 /\ m + 1 <= Len(dialogue) /\ s[c + 1] = TurnAt(m + 1)
    BY <1>2, <1>4
  <2> QED BY ONLY <2>1, <1>5, KeptRun DEF b
<1>7. MatchesOf(b)
  <2> SUFFICES ASSUME \A i \in 1..(m + 1) : Cost(TurnAt(i)) <= MaxChars
               PROVE  Kept(s) = Kept(TurnsUpTo(m + 1))
    BY <1>6 DEF MatchesOf
  <2>1. \A i \in 1..m : Cost(TurnAt(i)) <= MaxChars
    OBVIOUS
  <2>2. l = Kept(TurnsUpTo(m))
    BY <1>1, <2>1 DEF IsGood, MatchesOf
  <2> QED BY <1>2, <2>2, GrownMatches DEF s
<1> QED BY <1>1, <1>6, <1>7 DEF IsGood, s

---------------------------------------------------------------------------
(* What is kept of the same turns is the same.                             *)
LEMMA KeptPrime == ASSUME NEW n, TurnsUpTo(n)' = TurnsUpTo(n)
  PROVE Kept(TurnsUpTo(n))' = Kept(TurnsUpTo(n))
OBVIOUS

(* A stored turn never changes, so a good window stays one.                *)
LEMMA GoodStays ==
  ASSUME dialogue \in Seq(Sizes), NEW size \in Sizes, dialogue' = Append(dialogue, size),
         NEW CONSTANT w, GoodWindow(w)
  PROVE  GoodWindow(w)'
<1> SUFFICES ASSUME w # None PROVE w \in Window /\ RunOf(w)' /\ MatchesOf(w)'
  BY DEF GoodWindow
<1>0. w \in Window /\ RunOf(w) /\ MatchesOf(w)
  BY DEF GoodWindow
<1>1. PICK d \in Nat : d = Len(dialogue) /\ Len(dialogue') = d + 1
                       /\ \A i \in 1..d : dialogue'[i] = dialogue[i]
  BY AppendProperties, LenProperties
<1>2. PICK m \in Nat, c \in Nat, l \in Turns : w.through = m /\ w.turns = l /\ Len(l) = c
  BY <1>0, LenProperties DEF Window, Turns
<1>3. c <= m /\ m <= d /\ (c = 0 <=> m = 0)
  BY <1>0, <1>1, <1>2 DEF RunOf
<1>4. \A i \in 1..d : TurnAt(i)' = TurnAt(i)
  BY <1>1 DEF TurnAt
<1>5. TurnsUpTo(m)' = TurnsUpTo(m)
  BY <1>3, <1>4 DEF TurnsUpTo
<1>6. RunOf(w)'
  <2>1. \A i \in 1..c : l[i].index = m - c + i
                        /\ l[i] \in {TurnAt(l[i].index), Cut(TurnAt(l[i].index))}
    BY <1>0, <1>2 DEF RunOf
  <2>2. ASSUME NEW i \in 1..c
        PROVE  l[i] \in {TurnAt(l[i].index)', Cut(TurnAt(l[i].index))'}
    <3>1. PICK j \in 1..d : j = l[i].index
      BY <1>3, <2>1
    <3>2. TurnAt(j)' = TurnAt(j) /\ Cut(TurnAt(j))' = Cut(TurnAt(j))
      BY <1>4 DEF Cut
    <3> QED BY <2>1, <3>1, <3>2
  <2>3. Used(l)[c] <= Greatest(2, MaxChars)
    BY <1>0, <1>2 DEF RunOf
  <2>4. m <= Len(dialogue)'
    BY <1>1, <1>3
  <2> QED BY <1>2, <1>3, <2>1, <2>2, <2>3, <2>4 DEF RunOf
<1>7. MatchesOf(w)'
  <2>1. Kept(TurnsUpTo(m))' = Kept(TurnsUpTo(m))
    BY <1>5, KeptPrime
  <2>2. (\A i \in 1..m : Cost(TurnAt(i)')  <= MaxChars) => \A i \in 1..m : Cost(TurnAt(i)) <= MaxChars
    BY <1>3, <1>4
  <2> QED BY <1>0, <1>2, <2>1, <2>2 DEF MatchesOf
<1> QED BY <1>0, <1>6, <1>7

(* What is true of the window of one execution, and of the index it will   *)
(* write the window for: a stored turn.                                    *)
RowOf(row) ==
  /\ row \in Exec /\ GoodWindow(row.window)
  /\ row.pc \in {"recording", "writing"} => row.next \in 1..Len(dialogue)

SoundInv ==
  /\ dialogue \in Seq(Sizes) /\ faults \in Nat
  /\ cache \in Window \union {None} /\ GoodWindow(cache)
  /\ exec = [x \in Executions |-> exec[x]]
  /\ \A x \in Executions : RowOf(exec[x])

(* There is no window at first.                                            *)
LEMMA SoundInit == WindowInit => SoundInv
<1> SUFFICES ASSUME WindowInit PROVE SoundInv
  OBVIOUS
<1>1. dialogue \in Seq(Sizes) /\ faults \in Nat /\ cache = None
  BY EmptySeq DEF WindowInit
<1>2. Idle \in Exec /\ Idle.window = None /\ Idle.pc = "idle"
  BY DEF Idle, Exec
<1>3. RowOf(Idle) /\ GoodWindow(cache)
  BY <1>1, <1>2 DEF RowOf, GoodWindow
<1> QED BY <1>1, <1>3 DEF WindowInit, SoundInv

(* The dialogue stays as it is or grows by one turn                        *)
Grows == dialogue' = dialogue \/ \E size \in Sizes : dialogue' = Append(dialogue, size)

(* A good window and a good row stay good.                                 *)
LEMMA GoodKept ==
  ASSUME dialogue \in Seq(Sizes), Grows, NEW CONSTANT w, GoodWindow(w)
  PROVE  GoodWindow(w)'
<1>1. CASE dialogue' = dialogue
  <2>1. RunOf(w)' <=> RunOf(w)
    BY <1>1 DEF RunOf, TurnAt
  <2>2. \A n : TurnsUpTo(n)' = TurnsUpTo(n)
    BY <1>1 DEF TurnsUpTo, TurnAt
  <2>3. MatchesOf(w)' <=> MatchesOf(w)
    <3>1. \A i : TurnAt(i)' = TurnAt(i)
      BY <1>1 DEF TurnAt
    <3>2. Kept(TurnsUpTo(w.through))' = Kept(TurnsUpTo(w.through))
      BY <2>2, KeptPrime
    <3> QED BY <3>1, <3>2 DEF MatchesOf
  <2> QED BY <2>1, <2>3 DEF GoodWindow
<1>2. CASE \E size \in Sizes : dialogue' = Append(dialogue, size)
  BY <1>2, GoodStays
<1> QED BY <1>1, <1>2 DEF Grows

(* The dialogue keeps its type.                                            *)
LEMMA DialogueKept ==
  ASSUME dialogue \in Seq(Sizes), Grows
  PROVE  dialogue' \in Seq(Sizes) /\ Len(dialogue) \in Nat /\ Len(dialogue') \in Nat
         /\ Len(dialogue') >= Len(dialogue)
<1>1. CASE dialogue' = dialogue
  BY <1>1, LenProperties
<1>2. CASE \E size \in Sizes : dialogue' = Append(dialogue, size)
  <2>1. PICK size \in Sizes : dialogue' = Append(dialogue, size)
    BY <1>2
  <2>2. dialogue' \in Seq(Sizes) /\ Len(dialogue') = Len(dialogue) + 1 /\ Len(dialogue) \in Nat
    BY <2>1, AppendProperties, LenProperties
  <2> QED BY <2>2
<1> QED BY <1>1, <1>2 DEF Grows

(* An index that is stored stays stored.                                   *)
LEMMA RowKept ==
  ASSUME dialogue \in Seq(Sizes), Grows, NEW CONSTANT row, RowOf(row)
  PROVE  RowOf(row)'
<1>1. PICK d \in Nat, e \in Nat : d = Len(dialogue) /\ e = Len(dialogue') /\ d <= e
  BY DialogueKept
<1>2. PICK w : w = row.window
  OBVIOUS
<1>3. GoodWindow(w)'
  BY <1>2, GoodKept DEF RowOf
<1>4. row.next \in 1..d => row.next \in 1..e
  BY <1>1
<1> QED BY <1>1, <1>2, <1>3, <1>4 DEF RowOf

(* A step that lets the dialogue grow at most, writes nothing but a good    *)
(* window and changes no row but to a good one keeps the invariant.        *)
LEMMA SoundKept ==
  ASSUME SoundInv, Grows, faults' \in Nat, exec' = [x \in Executions |-> exec'[x]],
         NEW CONSTANT k, cache' = k, k \in Window \union {None}, GoodWindow(k),
         \A x \in Executions : exec'[x] = exec[x] \/ RowOf(exec[x])'
  PROVE  SoundInv'
<1>1. dialogue \in Seq(Sizes) /\ \A x \in Executions : RowOf(exec[x])
  BY DEF SoundInv
<1>2. ASSUME NEW x \in Executions PROVE RowOf(exec[x])'
  <2>1. PICK r : r = exec[x]
    OBVIOUS
  <2>2. RowOf(r)'
    BY <1>1, <2>1, RowKept
  <2> QED BY <2>1, <2>2
<1>3. dialogue' \in Seq(Sizes)
  BY <1>1, DialogueKept
<1>4. GoodWindow(cache)'
  <2>1. GoodWindow(k)'
    BY <1>1, GoodKept
  <2> QED BY <2>1
<1> QED BY <1>2, <1>3, <1>4 DEF SoundInv

(* What WriteBack writes is the window of a rebuild up to its turn.        *)
LEMMA RecordedGood ==
  ASSUME SoundInv, NEW x \in Executions, At(x, "writing")
  PROVE  Recorded(x) \in Window \union {None} /\ GoodWindow(Recorded(x))
<1>1. dialogue \in Seq(Sizes) /\ RowOf(exec[x])
  BY DEF SoundInv
<1>2. PICK d \in Nat, n \in Nat : d = Len(dialogue) /\ n = NextIndex(x) /\ 1 <= n /\ n <= d
  <2>1. Len(dialogue) \in Nat /\ NextIndex(x) \in 1..Len(dialogue)
    BY <1>1, LenProperties DEF RowOf, At, NextIndex
  <2> QED BY <2>1
<1>3. CASE exec[x].window = None /\ NextIndex(x) = 1
  <2>1. Recorded(x) = BuildWindow(<<TurnAt(1)>>)
    BY <1>3 DEF Recorded
  <2> DEFINE w == BuildWindow(TurnsUpTo(0))
  <2>2. IsGood(w) /\ w.through = 0 /\ w.turns = <<>>
    BY <1>1, <1>2, RebuiltGood
  <2> HIDE DEF w
  <2>3. w.through + 1 = 1 /\ w.through + 1 <= Len(dialogue)
    BY <1>2, <2>2
  <2>4. IsGood(BuildWindow(Append(w.turns, TurnAt(w.through + 1))))
    BY <1>1, <2>2, <2>3, GrownGood
  <2>5. Append(w.turns, TurnAt(w.through + 1)) = <<TurnAt(1)>>
    BY <2>2, <2>3
  <2> QED BY <2>1, <2>4, <2>5 DEF IsGood, GoodWindow
<1>4. CASE exec[x].window # None /\ exec[x].window.through = NextIndex(x) - 1
  <2>1. IsGood(exec[x].window)
    BY <1>1, <1>4 DEF RowOf, GoodWindow, IsGood, Exec
  <2>2. exec[x].window.through + 1 = n
    BY <1>2, <1>4
  <2>3. IsGood(BuildWindow(Append(exec[x].window.turns, TurnAt(NextIndex(x)))))
    BY <1>1, <1>2, <2>1, <2>2, GrownGood
  <2>4. Recorded(x) = BuildWindow(Append(exec[x].window.turns, TurnAt(NextIndex(x))))
    BY <1>4 DEF Recorded
  <2> QED BY <2>3, <2>4 DEF IsGood, GoodWindow
<1>5. CASE ~(exec[x].window = None /\ NextIndex(x) = 1)
           /\ ~(exec[x].window # None /\ exec[x].window.through = NextIndex(x) - 1)
  BY <1>5 DEF Recorded, GoodWindow
<1> QED BY <1>3, <1>4, <1>5

(* Every step keeps the invariant, one action at a time.                   *)
LEMMA SoundStep == SoundInv /\ [WindowNext]_vars => SoundInv'
<1> SUFFICES ASSUME SoundInv, [WindowNext]_vars PROVE SoundInv'
  OBVIOUS
<1>1. /\ dialogue \in Seq(Sizes) /\ Len(dialogue) \in Nat /\ faults \in Nat
      /\ cache \in Window \union {None} /\ GoodWindow(cache) /\ GoodWindow(None)
      /\ exec = [x \in Executions |-> exec[x]] /\ \A x \in Executions : RowOf(exec[x])
  BY LenProperties DEF SoundInv, GoodWindow
<1>F. Fault => faults' \in Nat
  BY <1>1 DEF Fault
<1>2. CASE AppendTurn
  <2>1. Grows /\ cache' = cache /\ exec' = exec /\ faults' = faults
    BY <1>2 DEF AppendTurn, Grows
  <2>2. PICK k : k = cache
    OBVIOUS
  <2> QED BY <1>1, <2>1, <2>2, SoundKept
<1>3. CASE ExpireCache
  <2>1. Grows /\ cache' = None /\ exec' = exec /\ faults' \in Nat
    BY <1>3, <1>F DEF ExpireCache, Grows
  <2> QED BY <1>1, <2>1, SoundKept
<1>4. CASE UNCHANGED vars
  <2>1. Grows /\ cache' = cache /\ exec' = exec /\ faults' = faults
    BY <1>4 DEF vars, Grows
  <2>2. PICK k : k = cache
    OBVIOUS
  <2> QED BY <1>1, <2>1, <2>2, SoundKept
<1>5. ASSUME NEW x \in Executions,
             \/ Begin(x) \/ ReadCache(x) \/ CheckCache(x) \/ ReadSession(x) \/ ReadTurns(x)
             \/ StoreWindow(x) \/ CommitTurn(x) \/ GiveUp(x) \/ ReadAgain(x)
             \/ WriteBack(x) \/ Abandon(x)
      PROVE  SoundInv'
  <2> DEFINE old == exec[x]
  <2>0. RowOf(old) /\ old \in Exec /\ old = [pc |-> old.pc, window |-> old.window, next |-> old.next]
    BY <1>1 DEF RowOf, Exec
  <2>K. ASSUME dialogue' = dialogue, faults' \in Nat,
               NEW CONSTANT k, cache' = k, k \in Window \union {None}, GoodWindow(k),
               NEW CONSTANT row, exec' = [exec EXCEPT ![x] = row], RowOf(row)
        PROVE  SoundInv'
    <3>1. Grows /\ RowOf(row)'
      BY <1>1, <2>K, RowKept DEF Grows
    <3>2. exec' = [y \in Executions |-> exec'[y]]
          /\ exec'[x] = row /\ \A y \in Executions : y # x => exec'[y] = exec[y]
      BY <1>1, <2>K
    <3>3. RowOf(exec[x])'
      BY <3>1, <3>2
    <3> QED BY <2>K, <3>1, <3>2, <3>3, SoundKept
  <2>R. ASSUME dialogue' = dialogue, faults' \in Nat, cache' = cache,
               NEW CONSTANT row, exec' = [exec EXCEPT ![x] = row], RowOf(row)
        PROVE  SoundInv'
    <3>1. PICK k : k = cache
      OBVIOUS
    <3> QED BY <1>1, <2>K, <2>R, <3>1
  <2>I. RowOf(Idle)
    BY <1>1 DEF RowOf, Idle, Exec
  <2>1. CASE Begin(x)
    <3>1. PICK row : row = [Idle EXCEPT !.pc = "loading"]
      OBVIOUS
    <3>2. row = [pc |-> "loading", window |-> None, next |-> 0]
      BY <3>1 DEF Idle
    <3>3. RowOf(row)
      BY <1>1, <3>2 DEF RowOf, Exec
    <3> QED BY <1>1, <1>F, <2>1, <2>R, <3>1, <3>3 DEF Begin, Set
  <2>2. CASE ReadCache(x)
    <3>1. CASE exec' = [exec EXCEPT ![x] = [old EXCEPT !.pc = "counting", !.window = cache]]
      <4>1. PICK row : row = [pc |-> "counting", window |-> cache, next |-> old.next]
        OBVIOUS
      <4>2. RowOf(row)
        BY <1>1, <2>0, <4>1 DEF RowOf, Exec
      <4>3. [old EXCEPT !.pc = "counting", !.window = cache] = row
        BY ONLY <2>0, <4>1, Rows
      <4> QED BY <1>1, <1>F, <2>2, <2>R, <3>1, <4>2, <4>3 DEF ReadCache, Set
    <3>2. CASE exec' = [exec EXCEPT ![x] = [old EXCEPT !.pc = "counting"]]
      <4>1. PICK row : row = [pc |-> "counting", window |-> old.window, next |-> old.next]
        OBVIOUS
      <4>2. RowOf(row)
        BY <1>1, <2>0, <4>1 DEF RowOf, Exec
      <4>3. [old EXCEPT !.pc = "counting"] = row
        BY ONLY <2>0, <4>1
      <4> QED BY <1>1, <1>F, <2>2, <2>R, <3>2, <4>2, <4>3 DEF ReadCache, Set
    <3> QED BY <2>2, <3>1, <3>2 DEF ReadCache, Set
  <2>N. PICK n \in Nat : n = Len(dialogue) + 1
    BY <1>1
  <2>3. CASE CheckCache(x)
    <3>1. PICK pc \in {"answering", "reading"} :
            exec' = [exec EXCEPT ![x] = [old EXCEPT !.next = n, !.pc = pc]]
      BY <2>3, <2>N DEF CheckCache, Set
    <3>2. PICK row : row = [pc |-> pc, window |-> old.window, next |-> n]
      OBVIOUS
    <3>3. RowOf(row)
      BY <2>0, <3>2 DEF RowOf, Exec
    <3>4. [old EXCEPT !.next = n, !.pc = pc] = row
      <4>1. PICK e : e = [old EXCEPT !.next = n, !.pc = pc]
        OBVIOUS
      <4>2. e = [pc |-> pc, window |-> old.window, next |-> n]
        BY <2>0, <4>1
      <4> QED BY <3>2, <4>1, <4>2
    <3> QED BY <1>1, <2>3, <2>R, <3>1, <3>3, <3>4 DEF CheckCache
  <2>4. CASE ReadSession(x)
    <3>1. exec' = [exec EXCEPT ![x] = [old EXCEPT !.next = n, !.pc = "scanning"]]
      BY <2>4, <2>N DEF ReadSession, Set
    <3>2. PICK row : row = [pc |-> "scanning", window |-> old.window, next |-> n]
      OBVIOUS
    <3>3. RowOf(row)
      BY <2>0, <3>2 DEF RowOf, Exec
    <3>4. [old EXCEPT !.next = n, !.pc = "scanning"] = row
      <4>1. PICK e : e = [old EXCEPT !.next = n, !.pc = "scanning"]
        OBVIOUS
      <4>2. e = [pc |-> "scanning", window |-> old.window, next |-> n]
        BY <2>0, <4>1
      <4> QED BY <3>2, <4>1, <4>2
    <3> QED BY <1>1, <2>4, <2>R, <3>1, <3>3, <3>4 DEF ReadSession
  <2>5. CASE ReadTurns(x)
    <3>1. PICK w : w = BuildWindow(TurnsUpTo(Len(dialogue)))
      OBVIOUS
    <3>2. w \in Window /\ GoodWindow(w)
      BY <1>1, <3>1, RebuiltGood DEF IsGood, GoodWindow
    <3>3. exec' = [exec EXCEPT ![x] = [old EXCEPT !.window = w, !.pc = "storing"]]
      BY <2>5, <3>1 DEF ReadTurns, Set
    <3>4. PICK row : row = [pc |-> "storing", window |-> w, next |-> old.next]
      OBVIOUS
    <3>5. RowOf(row)
      BY <2>0, <3>2, <3>4 DEF RowOf, Exec
    <3>6. [old EXCEPT !.window = w, !.pc = "storing"] = row
      BY ONLY <2>0, <3>4, Rows
    <3> QED BY <1>1, <2>5, <2>R, <3>3, <3>5, <3>6 DEF ReadTurns
  <2>6. CASE StoreWindow(x)
    <3>1. exec' = [exec EXCEPT ![x] = [old EXCEPT !.pc = "answering"]]
      BY <2>6 DEF StoreWindow, Set
    <3>2. PICK row : row = [pc |-> "answering", window |-> old.window, next |-> old.next]
      OBVIOUS
    <3>3. RowOf(row)
      BY <2>0, <3>2 DEF RowOf, Exec
    <3>4. [old EXCEPT !.pc = "answering"] = row
      BY ONLY <2>0, <3>2
    <3>5. PICK k : k = old.window
      OBVIOUS
    <3>6. k \in Window \union {None} /\ GoodWindow(k)
      BY <2>0, <3>5 DEF RowOf, Exec
    <3>7. CASE cache' = k /\ UNCHANGED faults
      BY <1>1, <2>6, <2>K, <3>1, <3>3, <3>4, <3>6, <3>7 DEF StoreWindow
    <3>8. CASE Fault /\ UNCHANGED cache
      BY <1>1, <1>F, <2>6, <2>R, <3>1, <3>3, <3>4, <3>8 DEF StoreWindow
    <3> QED BY <2>6, <3>5, <3>7, <3>8 DEF StoreWindow
  <2>7. CASE CommitTurn(x)
    <3>1. /\ Grows /\ faults' = faults /\ cache' = cache /\ Len(dialogue') = Len(dialogue) + 1
          /\ old.next = Len(dialogue) + 1
          /\ exec' = [exec EXCEPT ![x] = [old EXCEPT !.pc = "recording"]]
      BY <1>1, <2>7, AppendProperties DEF CommitTurn, Grows, Set, NextIndex
    <3>2. PICK row : row = [pc |-> "recording", window |-> old.window, next |-> old.next]
      OBVIOUS
    <3>3. [old EXCEPT !.pc = "recording"] = row
      BY ONLY <2>0, <3>2
    <3>4. row \in Exec /\ GoodWindow(row.window)
      BY <2>0, <3>2 DEF RowOf, Exec
    <3>5. PICK w : w = row.window
      OBVIOUS
    <3>6. GoodWindow(w)'
      BY <1>1, <3>1, <3>4, <3>5, GoodKept
    <3>7. RowOf(row)'
      <4>1. row.next \in 1..Len(dialogue')
        BY <1>1, <3>1, <3>2
      <4> QED BY <3>4, <3>5, <3>6, <4>1 DEF RowOf
    <3>8. /\ exec' = [y \in Executions |-> exec'[y]] /\ exec'[x] = row
          /\ \A y \in Executions : y # x => exec'[y] = exec[y]
      BY <1>1, <3>1, <3>3
    <3>9. RowOf(exec[x])'
      BY <3>7, <3>8
    <3>10. PICK k : k = cache
      OBVIOUS
    <3> QED BY <1>1, <3>1, <3>8, <3>9, <3>10, SoundKept
  <2>8. CASE GiveUp(x) \/ Abandon(x)
    <3>1. PICK row : row = Idle
      OBVIOUS
    <3> QED BY <1>1, <1>F, <2>8, <2>I, <2>R, <3>1 DEF GiveUp, Abandon, Set
  <2>9. CASE ReadAgain(x)
    <3>1. CASE exec' = [exec EXCEPT ![x] = [old EXCEPT !.window = cache, !.pc = "writing"]]
      <4>1. PICK row : row = [pc |-> "writing", window |-> cache, next |-> old.next]
        OBVIOUS
      <4>2. RowOf(row)
        BY <1>1, <2>0, <2>9, <4>1 DEF RowOf, Exec, ReadAgain, At
      <4>3. [old EXCEPT !.window = cache, !.pc = "writing"] = row
        BY ONLY <2>0, <4>1, Rows
      <4> QED BY <1>1, <1>F, <2>9, <2>R, <3>1, <4>2, <4>3 DEF ReadAgain, Set
    <3>2. CASE exec' = [exec EXCEPT ![x] = Idle]
      <4>1. PICK row : row = Idle
        OBVIOUS
      <4> QED BY <1>1, <1>F, <2>9, <2>I, <2>R, <3>2, <4>1 DEF ReadAgain
    <3> QED BY <2>9, <3>1, <3>2 DEF ReadAgain, Set
  <2>10. CASE WriteBack(x)
    <3>1. PICK row : row = Idle
      OBVIOUS
    <3>2. PICK k : k = Recorded(x)
      OBVIOUS
    <3>3. k \in Window \union {None} /\ GoodWindow(k)
      BY <2>10, <3>2, RecordedGood DEF WriteBack
    <3>4. CASE cache' = k /\ UNCHANGED faults
      BY <1>1, <2>10, <2>I, <2>K, <3>1, <3>3, <3>4 DEF WriteBack, Set
    <3>5. CASE Fault /\ UNCHANGED cache
      BY <1>1, <1>F, <2>10, <2>I, <2>R, <3>1, <3>5 DEF WriteBack, Set
    <3> QED BY <2>10, <3>2, <3>4, <3>5 DEF WriteBack
  <2> QED BY <1>5, <2>1, <2>2, <2>3, <2>4, <2>5, <2>6, <2>7, <2>8, <2>9, <2>10
<1> QED BY <1>2, <1>3, <1>4, <1>5 DEF WindowNext

(* WindowIsSound: whoever wrote it last and however late, the recent        *)
(* dialogue in Redis is an unbroken run of stored turns within the budget,  *)
(* and the one a rebuild would give unless a turn exceeds the budget       *)
(* (build_recent_dialogue_window and record_committed_turn in              *)
(* conversation_memory.py, whose callers await between reads and writes).  *)
THEOREM WindowHolds == WindowSpec => []WindowIsSound
<1>1. SoundInv => WindowIsSound
  <2> SUFFICES ASSUME SoundInv PROVE WindowIsSound
    OBVIOUS
  <2>1. WindowTypeOK
    BY DEF SoundInv, RowOf, WindowTypeOK
  <2>2. cache # None => RunOf(cache) /\ MatchesOf(cache)
    BY DEF SoundInv, GoodWindow
  <2>3. CachedIsARun
    BY <2>2 DEF RunOf, CachedIsARun
  <2>4. CacheMatchesRebuild
    BY <2>2 DEF MatchesOf, CacheMatchesRebuild
  <2> QED BY <2>1, <2>3, <2>4 DEF WindowIsSound
<1> QED BY <1>1, SoundInit, SoundStep, PTL DEF WindowSpec
===============================================================================
