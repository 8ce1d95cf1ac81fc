---------------------------- MODULE ServedProofs ----------------------------
(***************************************************************************)
(* What serves a chat run, for any registry, plans and budgets, any match  *)
(* and records of games, any settings of the process.                      *)
(*                                                                         *)
(* The inductive invariant of the agent graph has five parts: the types,   *)
(* of which the length of `executed' and the head of each fingerprint      *)
(* matter most; calls (every handler entered has left a result, but the    *)
(* one under way); budgets (lookups are paid for when their plan starts);  *)
(* the path (what a node may rely on, from the plan to a Whole answer);    *)
(* and attempts (what the last one came to, and that settling an outcome   *)
(* does not change it).                                                    *)
(*                                                                         *)
(* That of the process says at which steps each connection is open, and    *)
(* between which the work that needs it may be under way.                  *)
(*                                                                         *)
(* That of the match resolution says that the one answer which follows     *)
(* from the cache is the answer of every call that got one, that what an   *)
(* answer rests on is kept, and that the identities of a phase are cached, *)
(* being read by one worker, or left for the next.                         *)
(***************************************************************************)
EXTENDS MCServed, SequenceTheorems, FiniteSetTheorems, WellFoundedInduction, TLAPS

-----------------------------------------------------------------------------
(* The agent graph                                                          *)

(* A fingerprint; a recorded result; what the variables range over.        *)
Prints  == Seq(Toolbox \cup Literals)
Results ==
  [id : CallIds, tool : Toolbox, ok : BOOLEAN, yield : SUBSET (EvidenceKinds \cup {Unreadable}),
   stage : {"reference_resolution", "cache_reuse", "pre_dispatch", "handler"}, print : Prints]

GraphTypes ==
  /\ DOMAIN work = DOMAIN Fresh /\ work.results \in Seq(Results)
  /\ executed \in Seq(Results) /\ entered \in Seq(Prints)
  /\ \A i \in 1..Len(executed) : executed[i].print # <<>> /\ executed[i].print[1] = executed[i].tool
  /\ spent \in [DOMAIN Limit -> Nat] /\ lookedUp \in Nat
  /\ overdue \in BOOLEAN /\ attempts \in Seq({attempts[i] : i \in 1..Len(attempts)})

(* A call whose handler was entered is remembered, or under way.           *)
CallsInv ==
  /\ \A i, j \in 1..Len(entered) : entered[i] = entered[j] => i = j
  /\ spent.tools = Len(entered)
  /\ \A i \in 1..Len(entered) :
       \/ \E j \in 1..Len(executed) : executed[j].print = entered[i]
       \/ node \in {"handler", "interrupted"} /\ i = Len(entered)
  /\ node = "handler" => entered # <<>> /\ entered[Len(entered)] = Fingerprint

(* The lookups of a plan that has started fit the limit.                   *)
BudgetInv ==
  /\ BudgetsHold
  /\ node \in {"calling", "handler"} /\ IsLookupPlan(work.plan.calls) =>
       lookedUp + Len(work.plan.calls) <= LookupsPerRun
  /\ node = "controller_context" => lookedUp + Len(work.plan.calls) <= LookupsPerRun

(* The nodes, by how far their attempt has come.                           *)
Early    == {"run_init", "controller", "asking"}
Planning == {"decision_validate", "conversation_answer", "validate", "tools"}
Running  == {"calling", "handler"}
Ran      == {"controller_context", "evidence", "answer", "answering", "critic"}
Ending   == {"attempt_finalize", "recovery", "attempt_reset", "run_finalize"}
Ended    == {"response", "answered"}

(* Each result is of the call at its place in the plan.                    *)
Aligned ==
  /\ Len(work.results) <= Len(work.plan.calls)
  /\ \A i \in 1..Len(work.results) :
       /\ work.results[i].id = work.plan.calls[i].id
       /\ work.results[i].tool = work.plan.calls[i].tool

(* Every required kind of evidence was yielded.                            *)
Supplied == work.plan.required \subseteq UNION {r.yield : r \in ResultSet}

(* An attempt that may answer from its tools; one that may not be called ok.*)
Whole ==
  /\ work.answer = "ok" /\ work.review = "passed"
  /\ Len(work.results) = Len(work.plan.calls) /\ Aligned /\ ~AnyFailed
  /\ ToolsOf(work.plan.calls) \cap Mocked = {}
  /\ Supplied /\ replan.plan.required \subseteq work.plan.required

Unfit ==
  \/ work.controller \notin {"none", "decided"} \/ AnyFailed \/ work.answer = "error"
  \/ work.failure # "none" \/ work.missing # {} \/ work.review = "failed"
  \/ work.status = "error" /\ work.answer # "direct"

(* What a node finds.                                                      *)
PathInv ==
  /\ node \in Early \cup Planning \cup Running \cup Ran \cup Ending \cup Ended \cup {"interrupted"}
  /\ node \in Early \cup Planning => work.results = <<>>
  /\ node \in Early \cup Planning \cup Running \cup Ran =>
       /\ work.missing = {} /\ work.review = "none" /\ work.failure = "none"
       /\ work.answer = IF node = "critic" THEN "ok" ELSE "none"
       /\ work.controller = IF node \in Early THEN "none" ELSE "decided"
  /\ node \in Planning \cup Running \cup Ran /\ work.kind = "tool_plan" =>
       work.plan \in PlanSpace /\ replan.plan.required \subseteq work.plan.required
  /\ node \in {"validate", "tools"} \cup Running \cup Ran => work.kind = "tool_plan"
  /\ node = "conversation_answer" => work.kind # "tool_plan"
  /\ node \in Running \cup Ran => Aligned
  /\ node = "handler" => Len(work.results) < Len(work.plan.calls)
  /\ node \in Ran => Len(work.results) = Len(work.plan.calls) /\ ~AnyFailed
  /\ node \in {"answer", "answering", "critic"} => Supplied
  /\ node \in Ending /\ work.missing # {} =>
       /\ work.controller = "decided" /\ ~AnyFailed /\ work.answer = "none"
       /\ node # "run_finalize" => work.failure = "none"
  /\ node \in Ending /\ work.kind = "tool_plan" => Unfit \/ Whole
  /\ node \in Ended /\ work.kind = "tool_plan" /\ work.status = "ok" => Whole

Latest == attempts[Len(attempts)]

(* How many attempts were finalized, and what the last one came to.        *)
AttemptInv ==
  /\ work.index \in {0, 1}
  /\ node \in Early \cup Planning \cup Running \cup Ran \cup {"attempt_finalize"} =>
       Len(attempts) = work.index
  /\ node \in {"recovery", "attempt_reset", "run_finalize"} \cup Ended =>
       Len(attempts) = work.index + 1
  /\ Len(attempts) <= 2
  /\ node = "attempt_reset" => work.index = 0 /\ work.missing # {}
  /\ Len(attempts) = 2 \/ work.index = 1 => attempts[1].status = "insufficient_evidence"
  /\ node \in {"recovery", "attempt_reset"} /\ work.missing # {} => Latest.status = "insufficient_evidence"
  /\ node = "recovery" => TerminalOutcome.status = Latest.status
  /\ node = "run_finalize" =>
       \/ TerminalOutcome.status = Latest.status
       \/ overdue /\ TerminalOutcome = Outcome("error", "execution_timeout")
  /\ node \in Ended =>
       \/ work.status = Latest.status
       \/ overdue /\ work.status = "error" /\ work.type = "execution_timeout"

(* The inductive invariant.                                                *)
GraphInv == GraphTypes /\ CallsInv /\ BudgetInv /\ PathInv /\ AttemptInv

Call == [id : CallIds, tool : Toolbox, arg : Literals \cup CallIds]

(* A call of the plan is next or under way.                                *)
InCall == node \in Running /\ Len(work.results) < Len(work.plan.calls)
-----------------------------------------------------------------------------
(* A plan is a sequence of calls that fits.                                *)
LEMMA PlanFacts ==
  ASSUME NEW p \in PlanSpace
  PROVE  /\ p.calls \in Seq(Call) /\ PlanFits(p) /\ p.required \in SUBSET EvidenceKinds
<1>1. PICK n \in 1..PlanCapacity :
        p \in [calls : CallsOf(n), required : SUBSET EvidenceKinds] /\ PlanFits(p)
  BY DEF PlanSpace
<1>2. n \in Nat /\ p.calls \in [1..n -> Call] BY <1>1 DEF CallsOf, Call
<1>3. p.calls \in Seq(Call) BY <1>2, SeqDef
<1> QED BY <1>1, <1>3

(* The result a call refers to is there, and the call's fingerprint is one. *)
LEMMA SourceFacts ==
  ASSUME GraphTypes, PathInv, InCall, PlannedCall.arg \in CallIds
  PROVE  Source \in 1..Len(work.results) /\ work.results[Source].id = PlannedCall.arg
<1>1. node \in Running BY DEF InCall
<1>2. work.plan \in PlanSpace /\ Aligned BY <1>1 DEF PathInv
<1>3. PlanFits(work.plan) /\ work.plan.calls \in Seq(Call) BY <1>2, PlanFacts
<1>4. PICK n \in Nat : n = Len(work.results) BY LenProperties DEF GraphTypes
<1>5. PICK m \in Nat : m = Len(work.plan.calls) BY <1>3, LenProperties
<1>6. n < m BY <1>4, <1>5 DEF InCall
<1>7. n + 1 \in 1..m BY <1>6
<1>8. ReferenceFits(work.plan.calls, n + 1) BY <1>3, <1>5, <1>7 DEF PlanFits
<1>9. PICK j \in 1..(n + 1) - 1 : work.plan.calls[j].id = PlannedCall.arg
  BY <1>4, <1>8 DEF ReferenceFits, PlannedCall
<1>10. j \in 1..n BY <1>9
<1>11. work.results[j].id = PlannedCall.arg BY <1>2, <1>4, <1>9, <1>10 DEF Aligned
<1>12. \E i \in 1..Len(work.results) : work.results[i].id = PlannedCall.arg
  BY <1>4, <1>10, <1>11
<1> QED BY <1>12 DEF Source

(* The call at hand is one, and its source has a result.                   *)
LEMMA CallFacts ==
  ASSUME GraphTypes, PathInv, InCall
  PROVE  /\ PlannedCall \in Call
         /\ PlannedCall.arg \notin CallIds \/ work.results[Source] \in Results
<1>1. node \in Running BY DEF InCall
<1>2. work.plan \in PlanSpace BY <1>1 DEF PathInv
<1>3. work.plan.calls \in Seq(Call) BY <1>2, PlanFacts
<1>4. PICK n \in Nat : n = Len(work.results) BY LenProperties DEF GraphTypes
<1>5. PICK m \in Nat : m = Len(work.plan.calls) BY <1>3, LenProperties
<1>6. n + 1 \in 1..m BY <1>4, <1>5 DEF InCall
<1>7. PlannedCall \in Call BY <1>3, <1>4, <1>5, <1>6, ElementOfSeq DEF PlannedCall
<1>8. ASSUME PlannedCall.arg \in CallIds PROVE work.results[Source] \in Results
  BY <1>8, SourceFacts, ElementOfSeq DEF GraphTypes
<1> QED BY <1>7, <1>8

(* A call's fingerprint starts with its tool.                              *)
LEMMA PrintFacts ==
  ASSUME GraphTypes, PathInv, InCall
  PROVE  Fingerprint \in Prints /\ Fingerprint # <<>> /\ Fingerprint[1] = PlannedCall.tool
<1> DEFINE rest == IF PlannedCall.arg \in CallIds THEN work.results[Source].print
                   ELSE <<PlannedCall.arg>>
<1>1. PlannedCall.tool \in Toolbox /\ PlannedCall.arg \in Literals \cup CallIds
  BY CallFacts DEF Call
<1>2. rest \in Prints
  <2>1. CASE PlannedCall.arg \in CallIds BY <2>1, CallFacts DEF Results
  <2>2. CASE PlannedCall.arg \notin CallIds BY <1>1, <2>2 DEF Prints
  <2> QED BY <2>1, <2>2
<1>3. <<PlannedCall.tool>> \in Prints /\ Len(<<PlannedCall.tool>>) = 1
      /\ <<PlannedCall.tool>>[1] = PlannedCall.tool
  BY <1>1 DEF Prints
<1>4. Fingerprint = <<PlannedCall.tool>> \o rest BY DEF Fingerprint
<1> HIDE DEF rest
<1>5. PICK a : a = <<PlannedCall.tool>> OBVIOUS
<1>6. Fingerprint = a \o rest /\ a \in Prints /\ Len(a) = 1 /\ a[1] = PlannedCall.tool
  BY <1>3, <1>4, <1>5
<1>7. Fingerprint \in Prints /\ Len(Fingerprint) = 1 + Len(rest) /\ Fingerprint[1] = a[1]
  <2>1. PICK n \in Nat : n = Len(rest) BY <1>2, LenProperties DEF Prints
  <2>0. a \o rest \in Prints /\ Len(a \o rest) = Len(a) + Len(rest)
    BY <1>2, <1>6, ConcatProperties DEF Prints
  <2>2. Fingerprint \in Prints /\ Len(Fingerprint) = 1 + n BY <1>6, <2>0, <2>1
  <2>3. (a \o rest)[1] = a[1]
    <3>1. 1 \in 1..(1 + n) BY <2>1
    <3> QED BY <1>2, <1>6, <2>1, <3>1, ConcatProperties DEF Prints
  <2> QED BY <1>6, <2>1, <2>2, <2>3
<1>8. Fingerprint # <<>> BY <1>2, <1>7, LenProperties, EmptySeq DEF Prints
<1> QED BY <1>6, <1>7, <1>8

(* The tool actions run only while a call is next or under way.            *)
LEMMA CallsCall ==
  ASSUME PathInv, Calling \/ node = "handler"
  PROVE  InCall
BY DEF PathInv, InCall, Calling, Running

(* What a recorded result leaves alone.                                    *)
LEMMA Recorded ==
  ASSUME GraphTypes, NEW r, Record(r)
  PROVE  /\ DOMAIN work' = DOMAIN Fresh /\ work'.results = Append(work.results, r)
         /\ work'.plan = work.plan /\ work'.kind = work.kind /\ work'.index = work.index
         /\ work'.missing = work.missing /\ work'.review = work.review
         /\ work'.failure = work.failure /\ work'.answer = work.answer
         /\ work'.controller = work.controller
BY DEF GraphTypes, Record, Fresh

(* The recorded result is the last one.                                    *)
LEMMA RecordedTypes ==
  ASSUME GraphTypes, NEW r \in Results, Record(r)
  PROVE  /\ work'.results \in Seq(Results) /\ Len(work'.results) = Len(work.results) + 1
         /\ \A i \in 1..Len(work.results) : work'.results[i] = work.results[i]
         /\ work'.results[Len(work.results) + 1] = r
<1>1. PICK old \in Seq(Results) : old = work.results BY DEF GraphTypes
<1>2. work'.results = Append(old, r) BY <1>1, Recorded
<1>3. /\ Append(old, r) \in Seq(Results) /\ Len(Append(old, r)) = Len(old) + 1
      /\ \A i \in 1..Len(old) : Append(old, r)[i] = old[i]
      /\ Append(old, r)[Len(old) + 1] = r
  BY <1>1, AppendProperties
<1> QED BY <1>1, <1>2, <1>3

(* A result made for the call at hand carries its name and fingerprint.    *)
LEMMA NewResult ==
  ASSUME GraphTypes, PathInv, InCall, NEW ok \in BOOLEAN,
         NEW yield \in SUBSET (EvidenceKinds \cup {Unreadable}),
         NEW from \in {"pre_dispatch", "handler"}
  PROVE  /\ Result(ok, yield, from) \in Results
         /\ Result(ok, yield, from).print = Fingerprint
         /\ Result(ok, yield, from).id = PlannedCall.id
         /\ Result(ok, yield, from).tool = PlannedCall.tool
BY CallFacts, PrintFacts DEF Result, Results, Call

(* What is known was executed.                                             *)
LEMMA CachedResult ==
  ASSUME GraphTypes, Known
  PROVE  \E i \in 1..Len(executed) : Cached = executed[i] /\ Cached.print = Fingerprint
                                      /\ Cached \in Results
<1>1. PICK i \in 1..Len(executed) : executed[i].print = Fingerprint BY DEF Known
<1> DEFINE S == {executed[k] : k \in 1..Len(executed)}
<1>2. \E r \in S : r.print = Fingerprint BY <1>1
<1>3. Cached \in S /\ Cached.print = Fingerprint BY <1>2 DEF Cached
<1>4. PICK k \in 1..Len(executed) : Cached = executed[k] BY <1>3
<1>5. Cached \in Results BY <1>4, ElementOfSeq DEF GraphTypes
<1> QED BY <1>3, <1>4, <1>5

(* A remembered result is added to those executed.                         *)
LEMMA Remembered ==
  ASSUME GraphTypes, NEW r \in Results, executed' = Append(executed, r),
         r.print # <<>>, r.print[1] = r.tool
  PROVE  /\ executed' \in Seq(Results)
         /\ \A i \in 1..Len(executed)' :
              executed'[i].print # <<>> /\ executed'[i].print[1] = executed'[i].tool
         /\ \A i \in 1..Len(executed) :
              i \in 1..Len(executed)' /\ executed'[i] = executed[i]
         /\ \E i \in 1..Len(executed)' : executed'[i] = r
<1>1. PICK n \in Nat : n = Len(executed) BY LenProperties DEF GraphTypes
<1>2. /\ executed' \in Seq(Results) /\ Len(executed)' = n + 1
      /\ \A i \in 1..n : executed'[i] = executed[i]
      /\ executed'[n + 1] = r
  BY <1>1, AppendProperties DEF GraphTypes
<1>3. \A i \in 1..(n + 1) : i \in 1..n \/ i = n + 1 BY <1>1
<1>4. n + 1 \in 1..(n + 1) /\ \A i \in 1..n : i \in 1..(n + 1) BY <1>1
<1> QED BY <1>1, <1>2, <1>3, <1>4 DEF GraphTypes

(* Steps that leave results, memory and budgets alone.                     *)
LEMMA QuietTypes ==
  ASSUME GraphTypes, DOMAIN work' = DOMAIN Fresh,
         work'.results \in {work.results, <<>>},
         UNCHANGED <<executed, entered, spent, lookedUp, attempts>>, overdue' \in BOOLEAN
  PROVE  GraphTypes'
<1>1. <<>> \in Seq(Results) BY EmptySeq
<1>2. work'.results \in Seq(Results) BY <1>1 DEF GraphTypes
<1> QED BY <1>2 DEF GraphTypes, Limit

QuietStep ==
  \/ RunInit \/ GateStops \/ ControllerRefuses \/ ControllerBreaks \/ DecideReply \/ DecidePlan
  \/ DecisionValidate \/ ConversationAnswer \/ Validate \/ StartTools \/ Duplicate
  \/ HandlerStopped \/ EndTools \/ ContextUnreadable \/ Evidence \/ SynthesisReturns \/ Critic
  \/ NothingToRecover \/ RecoveryTooLate \/ ReplanExhausted \/ NotRecoverable \/ AttemptReset
  \/ RunFinalize \/ Response \/ Passes \/ Interrupted

Silenced ==
  /\ UNCHANGED <<executed, entered, spent, lookedUp, attempts>>
  /\ DOMAIN work' = DOMAIN Fresh /\ work'.results \in {work.results, <<>>}
  /\ overdue' \in BOOLEAN
  /\ node' = "handler" => node = "handler" /\ work' = work
  /\ node = "handler" => node' \in {"handler", "interrupted"}

(* They do what a quiet step does.                                         *)
LEMMA QuietSteps == ASSUME GraphTypes, QuietStep PROVE Silenced
<1>0. overdue \in BOOLEAN /\ DOMAIN work = DOMAIN Fresh BY DEF GraphTypes
<1>1. CASE GateStops BY <1>0, <1>1 DEF GateStops, GateFailed, Silent, Silenced, Fresh, Needs
<1>2. CASE RunInit BY <1>0, <1>2 DEF RunInit, Silent, Silenced, Fresh
<1>3. CASE ControllerRefuses BY <1>0, <1>3 DEF ControllerRefuses, NoDecision, Silenced, Fresh
<1>4. CASE ControllerBreaks BY <1>0, <1>4 DEF ControllerBreaks, NoDecision, Silent, Silenced, Fresh
<1>5. CASE DecideReply BY <1>0, <1>5 DEF DecideReply, Decide, Silent, Silenced, Fresh
<1>6. CASE DecidePlan BY <1>0, <1>6 DEF DecidePlan, Decide, Silent, Silenced, Fresh
<1>7. CASE DecisionValidate BY <1>0, <1>7 DEF DecisionValidate, Silent, Enters, Silenced, Fresh
<1>8. CASE ConversationAnswer BY <1>0, <1>8 DEF ConversationAnswer, Silent, Enters, Silenced, Fresh
<1>9. CASE Validate BY <1>0, <1>9 DEF Validate, Silent, Enters, Silenced, Fresh
<1>10. CASE StartTools BY <1>0, <1>10 DEF StartTools, Silent, Enters, Silenced, Fresh
<1>11. CASE Duplicate BY <1>0, <1>11 DEF Duplicate, Calling, GateFailed, Silent, Silenced, Fresh
<1>12. CASE HandlerStopped BY <1>0, <1>12 DEF HandlerStopped, Calling, GateFailed, Silent, Silenced, Fresh
<1>13. CASE EndTools BY <1>0, <1>13 DEF EndTools, Silent, Silenced, Fresh
<1>14. CASE ContextUnreadable BY <1>0, <1>14 DEF ContextUnreadable, Silent, Enters, Silenced, Fresh
<1>15. CASE Evidence BY <1>0, <1>15 DEF Evidence, Silent, Enters, Silenced, Fresh
<1>16. CASE SynthesisReturns BY <1>0, <1>16 DEF SynthesisReturns, Silent, Silenced, Fresh
<1>17. CASE Critic BY <1>0, <1>17 DEF Critic, Silent, Enters, Silenced, Fresh
<1>18. CASE NothingToRecover BY <1>0, <1>18 DEF NothingToRecover, StopRecovery, Silenced, Fresh
<1>19. CASE RecoveryTooLate BY <1>0, <1>19 DEF RecoveryTooLate, StopRecovery, GateFailed, Silenced, Fresh
<1>20. CASE ReplanExhausted BY <1>0, <1>20 DEF ReplanExhausted, StopRecovery, Silenced, Fresh
<1>21. CASE NotRecoverable BY <1>0, <1>21 DEF NotRecoverable, StopRecovery, Silenced, Fresh
<1>22. CASE AttemptReset BY <1>0, <1>22 DEF AttemptReset, GateFailed, Fresh, Silenced
<1>23. CASE RunFinalize BY <1>0, <1>23 DEF RunFinalize, Settle, Silent, Silenced, Fresh
<1>24. CASE Response BY <1>0, <1>24 DEF Response, Silenced, Fresh
<1>25. CASE Passes BY <1>0, <1>25 DEF Passes, Silenced, Fresh
<1>26. CASE Interrupted BY <1>0, <1>26 DEF Interrupted, Silenced, Fresh
<1> QED BY <1>1, <1>2, <1>3, <1>4, <1>5, <1>6, <1>7, <1>8, <1>9, <1>10, <1>11, <1>12, <1>13,
        <1>14, <1>15, <1>16, <1>17, <1>18, <1>19, <1>20, <1>21, <1>22, <1>23, <1>24, <1>25, <1>26
        DEF QuietStep

(* Every step is a quiet one, or one of these.                             *)
LEMMA StepKinds ==
  ASSUME GraphNext
  PROVE  \/ QuietStep \/ AskController \/ ReferenceFails \/ Reuse \/ InvalidArgs \/ EnterHandler
         \/ HandlerReturns \/ ControllerContext \/ Synthesize \/ AttemptFinalize \/ Replan
BY DEF GraphNext, GraphStep, QuietStep

(* What the budget counts.                                                 *)
Resources == {"controller", "tools", "answer", "replans"}

(* Each resource has a limit.                                              *)
LEMMA Limits ==
  /\ DOMAIN Limit = Resources /\ \A resource \in Resources : Limit[resource] \in Nat
  /\ Limit.controller = ControllerLimit /\ Limit.tools = ToolLimit
  /\ Limit.answer = AnswerLimit /\ Limit.replans = 1
BY GraphAssumption DEF Limit, Resources

(* What is not exhausted has room for one more.                            *)
LEMMA RoomLeft ==
  ASSUME GraphTypes, NEW resource \in Resources, ~Exhausted(resource)
  PROVE  spent[resource] \in Nat /\ spent[resource] + 1 <= Limit[resource]
<1>1. PICK n \in Nat, m \in Nat : n = spent[resource] /\ m = Limit[resource]
  BY Limits DEF GraphTypes
<1>2. (IF n < m THEN m - n ELSE 0) # 0 BY <1>1 DEF Exhausted, Remaining
<1>3. n < m BY <1>1, <1>2
<1> QED BY <1>1, <1>3

(* One unit of a resource is spent.                                        *)
LEMMA Spending ==
  ASSUME GraphTypes, BudgetsHold, NEW resource \in Resources, ~Exhausted(resource),
         spent' = [spent EXCEPT ![resource] = @ + 1]
  PROVE  /\ spent' \in [DOMAIN Limit -> Nat]
         /\ \A other \in DOMAIN Limit : spent'[other] <= Limit[other]
         /\ resource # "tools" => spent'.tools = spent.tools
<1>1. spent[resource] \in Nat /\ spent[resource] + 1 <= Limit[resource] BY RoomLeft
<1>2. PICK n \in Nat : n = spent[resource] + 1 BY <1>1
<1>3. spent' = [spent EXCEPT ![resource] = n] BY <1>2
<1>4. spent \in [Resources -> Nat] BY Limits DEF GraphTypes
<1>5. spent' \in [Resources -> Nat] BY <1>3, <1>4
<1>6. \A other \in Resources : spent'[other] = IF other = resource THEN n ELSE spent[other]
  BY <1>3, <1>4
<1>7. \A other \in Resources : spent[other] <= Limit[other] BY Limits DEF BudgetsHold
<1> QED BY <1>1, <1>2, <1>5, <1>6, <1>7, Limits DEF Resources

(* A gate that does not stop a node found time and budget.                 *)
LEMMA OpenGate ==
  ASSUME NEW resource \in Resources, Gate(resource) = "none"
  PROVE  ~Exhausted(resource) /\ ~overdue
BY DEF Gate, Resources

(* A sequence is one over its own elements.                                *)
LEMMA OwnRange ==
  ASSUME NEW S, NEW s \in Seq(S)
  PROVE  s \in Seq({s[i] : i \in 1..Len(s)})
<1>1. PICK n \in Nat : n = Len(s) /\ s \in [1..n -> S] BY LenProperties, SeqDef
<1>2. s \in [1..n -> {s[i] : i \in 1..n}] BY <1>1
<1> QED BY <1>1, <1>2, SeqDef

(* A handler returns evidence of known kinds, or none.                     *)
LEMMA HandlerResult ==
  ASSUME GraphTypes, PathInv, InCall, HandlerReturns
  PROVE  \E ok \in BOOLEAN, yield \in SUBSET (EvidenceKinds \cup {Unreadable}) :
           Remember(Result(ok, yield, "handler"))
<1>1. PlannedCall.tool \in Toolbox BY CallFacts DEF Call
<1>2. Yields[PlannedCall.tool] \subseteq EvidenceKinds BY <1>1 DEF EvidenceKinds
<1>3. \A yield \in (SUBSET Yields[PlannedCall.tool])
                     \cup {{Unreadable} : k \in Yields[PlannedCall.tool]} :
        yield \in SUBSET (EvidenceKinds \cup {Unreadable})
  <2>1. ASSUME NEW k \in Yields[PlannedCall.tool]
        PROVE  {Unreadable} \in SUBSET (EvidenceKinds \cup {Unreadable})
    OBVIOUS
  <2>2. ASSUME NEW yield \in SUBSET Yields[PlannedCall.tool]
        PROVE  yield \in SUBSET (EvidenceKinds \cup {Unreadable})
    BY <1>2, <2>2
  <2> QED BY <2>1, <2>2
<1>4. {} \in SUBSET (EvidenceKinds \cup {Unreadable}) OBVIOUS
<1> QED BY <1>3, <1>4 DEF HandlerReturns

(* Every step keeps the types.                                             *)
LEMMA TypesStep ==
  ASSUME GraphTypes, PathInv, BudgetsHold, GraphNext
  PROVE  GraphTypes'
<1>1. CASE QuietStep BY <1>1, QuietSteps, QuietTypes DEF Silenced
<1>2. CASE AskController
  <2>1. ~Exhausted("controller") BY <1>2, OpenGate DEF AskController, Enters, Needs, Resources
  <2>2. spent' \in [DOMAIN Limit -> Nat] BY <1>2, <2>1, Spending DEF AskController, Resources
  <2> QED BY <1>2, <2>2 DEF AskController, GraphTypes, Limit
<1>3. CASE Synthesize
  <2>1. ~Exhausted("answer") BY <1>3, OpenGate DEF Synthesize, Enters, Needs, Resources
  <2>2. spent' \in [DOMAIN Limit -> Nat] BY <1>3, <2>1, Spending DEF Synthesize, Resources
  <2> QED BY <1>3, <2>2 DEF Synthesize, GraphTypes, Limit
<1>4. CASE Replan
  <2>1. ~Exhausted("replans") BY <1>4 DEF Replan, ReplanAffordable
  <2>2. spent' \in [DOMAIN Limit -> Nat] BY <1>4, <2>1, Spending DEF Replan, Resources
  <2> QED BY <1>4, <2>2 DEF Replan, GraphTypes, Limit
<1>5. CASE EnterHandler
  <2>1. ~Exhausted("tools") BY <1>5, OpenGate DEF EnterHandler, Resources
  <2>2. spent' \in [DOMAIN Limit -> Nat] BY <1>5, <2>1, Spending DEF EnterHandler, Resources
  <2>3. InCall BY <1>5, CallsCall DEF EnterHandler
  <2>4. entered' \in Seq(Prints) BY <1>5, <2>3, PrintFacts DEF EnterHandler, GraphTypes
  <2> QED BY <1>5, <2>2, <2>4 DEF EnterHandler, GraphTypes, Limit
<1>6. ASSUME NEW ok \in BOOLEAN, NEW yield \in SUBSET (EvidenceKinds \cup {Unreadable}),
             NEW from \in {"pre_dispatch", "handler"}, Remember(Result(ok, yield, from)), InCall,
             UNCHANGED <<overdue, spent, attempts, lookedUp, entered>>
      PROVE  GraphTypes'
  <2> DEFINE r == Result(ok, yield, from)
  <2>1. r \in Results /\ r.print # <<>> /\ r.print[1] = r.tool
    BY <1>6, NewResult, PrintFacts
  <2>2. Record(r) /\ executed' = Append(executed, r) BY <1>6 DEF Remember
  <2> HIDE DEF r
  <2>3. DOMAIN work' = DOMAIN Fresh /\ work'.results \in Seq(Results)
    BY <2>1, <2>2, Recorded, RecordedTypes
  <2>4. executed' \in Seq(Results)
        /\ \A i \in 1..Len(executed)' :
             executed'[i].print # <<>> /\ executed'[i].print[1] = executed'[i].tool
    BY <2>1, <2>2, Remembered
  <2> QED BY <1>6, <2>3, <2>4 DEF GraphTypes, Limit
<1>7. CASE InvalidArgs
  <2>1. InCall BY <1>7, CallsCall DEF InvalidArgs
  <2> QED BY <1>6, <1>7, <2>1 DEF InvalidArgs
<1>8. CASE HandlerReturns
  <2>1. InCall BY <1>8, CallsCall DEF HandlerReturns
  <2>4. PICK ok \in BOOLEAN, yield \in SUBSET (EvidenceKinds \cup {Unreadable}) :
          Remember(Result(ok, yield, "handler"))
    BY <1>8, <2>1, HandlerResult
  <2> QED BY <1>6, <1>8, <2>1, <2>4 DEF HandlerReturns
<1>9. ASSUME NEW r \in Results, Record(r),
             UNCHANGED <<overdue, spent, attempts, lookedUp, executed, entered>>
      PROVE  GraphTypes'
  <2>1. DOMAIN work' = DOMAIN Fresh /\ work'.results \in Seq(Results)
    BY <1>9, Recorded, RecordedTypes
  <2> QED BY <1>9, <2>1 DEF GraphTypes, Limit
<1>10. CASE ReferenceFails
  <2>1. InCall BY <1>10, CallsCall DEF ReferenceFails
  <2>2. <<>> \in Prints BY EmptySeq DEF Prints
  <2>3. [id |-> PlannedCall.id, tool |-> PlannedCall.tool, ok |-> FALSE, yield |-> {},
         stage |-> "reference_resolution", print |-> <<>>] \in Results
    BY <2>1, <2>2, CallFacts DEF Call, Results
  <2> QED BY <1>9, <1>10, <2>3 DEF ReferenceFails
<1>11. CASE Reuse
  <2>1. Cached \in Results BY <1>11, CachedResult DEF Reuse
  <2>2. [Cached EXCEPT !.stage = "cache_reuse"] \in Results BY <2>1 DEF Results
  <2> QED BY <1>9, <1>11, <2>2 DEF Reuse
<1>12. CASE ControllerContext
  <2>1. lookedUp' \in Nat BY <1>12, LenProperties DEF ControllerContext, GraphTypes
  <2>2. DOMAIN work' = DOMAIN Fresh /\ work'.results = <<>>
    BY <1>12 DEF ControllerContext, Fresh
  <2>3. work'.results \in Seq(Results) BY <2>2, EmptySeq
  <2> QED BY <1>12, <2>1, <2>2, <2>3 DEF ControllerContext, GraphTypes, Limit
<1>13. CASE AttemptFinalize
  <2>1. PICK S : attempts \in Seq(S) BY DEF GraphTypes
  <2>2. attempts' \in Seq({attempts[i] : i \in 1..Len(attempts)})'
    <3>1. attempts' = Append(attempts, TerminalOutcome) BY <1>13 DEF AttemptFinalize
    <3>2. attempts' \in Seq(S \cup {TerminalOutcome}) BY <2>1, <3>1
    <3> QED BY <3>2, OwnRange
  <2>3. DOMAIN work' = DOMAIN Fresh /\ work'.results = work.results
    BY <1>13 DEF AttemptFinalize, Settle, GraphTypes, Fresh
  <2> QED BY <1>13, <2>2, <2>3 DEF AttemptFinalize, GraphTypes, Limit
<1> QED BY <1>1, <1>2, <1>3, <1>4, <1>5, <1>7, <1>8, <1>10, <1>11, <1>12, <1>13, StepKinds
-----------------------------------------------------------------------------
(* Calls run once                                                          *)

(* Every step keeps the calls apart.                                       *)
LEMMA CallsStep ==
  ASSUME GraphTypes, PathInv, CallsInv, BudgetsHold, GraphNext
  PROVE  CallsInv'
<1>0. PICK n \in Nat : n = Len(entered) BY LenProperties DEF GraphTypes
<1>k. ASSUME UNCHANGED <<executed, entered>>, spent'.tools = spent.tools,
             node' = "handler" => node = "handler" /\ work' = work,
             node \in {"handler", "interrupted"} => node' \in {"handler", "interrupted"}
      PROVE  CallsInv'
  <2>1. work' = work => Fingerprint' = Fingerprint BY DEF Fingerprint, Source, PlannedCall
  <2>2. node' = "handler" => entered' # <<>> /\ entered'[Len(entered')] = Fingerprint'
    BY <1>k, <2>1 DEF CallsInv
  <2>3. \A i \in 1..Len(entered) :
          \/ \E j \in 1..Len(executed) : executed[j].print = entered[i]
          \/ node' \in {"handler", "interrupted"} /\ i = Len(entered)
    BY <1>k DEF CallsInv
  <2> QED BY <1>k, <2>2, <2>3 DEF CallsInv
<1>1. CASE QuietStep
  <2>1. Silenced BY <1>1, QuietSteps
  <2>2. node # "interrupted" \/ node' = "interrupted"
    BY <1>1 DEF QuietStep, RunInit, GateStops, Needs, ControllerRefuses, ControllerBreaks,
      DecideReply, DecidePlan, Decide, DecisionValidate, ConversationAnswer, Validate, StartTools,
      Duplicate, HandlerStopped, Calling, EndTools, ContextUnreadable, Evidence, SynthesisReturns,
      Critic, Enters, NothingToRecover, RecoveryTooLate, ReplanExhausted, NotRecoverable,
      StopRecovery, AttemptReset, RunFinalize, Response, Passes, Interrupted
  <2> QED BY <1>k, <2>1, <2>2 DEF Silenced
<1>2. ASSUME UNCHANGED <<executed, entered>>, node \notin {"handler", "interrupted"},
             node' # "handler", spent'.tools = spent.tools
      PROVE  CallsInv'
  BY <1>k, <1>2
<1>3. CASE AskController
  <2>1. ~Exhausted("controller") BY <1>3, OpenGate DEF AskController, Enters, Needs, Resources
  <2>2. spent'.tools = spent.tools BY <1>3, <2>1, Spending DEF AskController, Resources
  <2> QED BY <1>2, <1>3, <2>2 DEF AskController, Enters
<1>4. CASE Synthesize
  <2>1. ~Exhausted("answer") BY <1>4, OpenGate DEF Synthesize, Enters, Needs, Resources
  <2>2. spent'.tools = spent.tools BY <1>4, <2>1, Spending DEF Synthesize, Resources
  <2> QED BY <1>2, <1>4, <2>2 DEF Synthesize, Enters
<1>5. CASE Replan
  <2>1. ~Exhausted("replans") BY <1>5 DEF Replan, ReplanAffordable
  <2>2. spent'.tools = spent.tools BY <1>5, <2>1, Spending DEF Replan, Resources
  <2> QED BY <1>2, <1>5, <2>2 DEF Replan
<1>6. CASE ReferenceFails \/ Reuse
  BY <1>2, <1>6 DEF ReferenceFails, Reuse, Calling
<1>7. CASE ControllerContext \/ AttemptFinalize
  BY <1>2, <1>7 DEF ControllerContext, AttemptFinalize, Enters
<1>8. ASSUME NEW ok \in BOOLEAN, NEW yield \in SUBSET (EvidenceKinds \cup {Unreadable}),
             NEW from \in {"pre_dispatch", "handler"}, Remember(Result(ok, yield, from)), InCall,
             UNCHANGED <<spent, entered>>, node' = "calling", node # "interrupted"
      PROVE  CallsInv'
  <2> DEFINE r == Result(ok, yield, from)
  <2>1. r \in Results /\ r.print = Fingerprint /\ r.print # <<>> /\ r.print[1] = r.tool
    BY <1>8, NewResult, PrintFacts
  <2>2. executed' = Append(executed, r) BY <1>8 DEF Remember
  <2> HIDE DEF r
  <2>3. /\ \A i \in 1..Len(executed) : i \in 1..Len(executed)' /\ executed'[i] = executed[i]
        /\ \E i \in 1..Len(executed)' : executed'[i] = r
    BY <2>1, <2>2, Remembered
  <2>4. ASSUME NEW i \in 1..Len(entered)
        PROVE  \E j \in 1..Len(executed)' : executed'[j].print = entered[i]
    <3>1. CASE \E j \in 1..Len(executed) : executed[j].print = entered[i] BY <2>3, <3>1
    <3>2. CASE node = "handler" /\ i = Len(entered)
      <4>1. entered[i] = Fingerprint BY <3>2 DEF CallsInv
      <4> QED BY <2>1, <2>3, <4>1
    <3> QED BY <1>8, <3>1, <3>2 DEF CallsInv
  <2> QED BY <1>8, <2>4 DEF CallsInv
<1>9. CASE InvalidArgs
  <2>1. InCall BY <1>9, CallsCall DEF InvalidArgs
  <2> QED BY <1>8, <1>9, <2>1 DEF InvalidArgs, Calling
<1>10. CASE HandlerReturns
  <2>1. InCall BY <1>10, CallsCall DEF HandlerReturns
  <2>2. PICK ok \in BOOLEAN, yield \in SUBSET (EvidenceKinds \cup {Unreadable}) :
          Remember(Result(ok, yield, "handler"))
    BY <1>10, <2>1, HandlerResult
  <2> QED BY <1>8, <1>10, <2>1, <2>2 DEF HandlerReturns
<1>11. CASE EnterHandler
  <2>1. InCall BY <1>11, CallsCall DEF EnterHandler
  <2>2. Fingerprint \in Prints BY <2>1, PrintFacts
  <2>3. /\ entered' = Append(entered, Fingerprint) /\ node' = "handler" /\ node = "calling"
        /\ UNCHANGED <<executed, work>> /\ spent' = [spent EXCEPT !.tools = @ + 1]
        /\ \A i \in 1..Len(executed) : executed[i].print # Fingerprint
    BY <1>11 DEF EnterHandler, Known, Calling
  <2>4. /\ Len(entered') = n + 1 /\ entered'[n + 1] = Fingerprint
        /\ \A i \in 1..n : entered'[i] = entered[i]
    BY <1>0, <2>2, <2>3, AppendProperties DEF GraphTypes
  <2>5. \A i \in 1..(n + 1) : i \in 1..n \/ i = n + 1 BY <1>0
  <2>6. ASSUME NEW i \in 1..n PROVE \E j \in 1..Len(executed) : executed[j].print = entered[i]
    BY <1>0, <2>3 DEF CallsInv
  <2>7. \A i \in 1..n : entered[i] # Fingerprint BY <2>3, <2>6
  <2>8. \A i, j \in 1..(n + 1) : entered'[i] = entered'[j] => i = j
    BY <1>0, <2>4, <2>5, <2>7 DEF CallsInv
  <2>9. spent'.tools = n + 1
    <3>1. spent.tools = n BY <1>0 DEF CallsInv
    <3>2. "tools" \in DOMAIN spent BY Limits DEF GraphTypes, Resources
    <3> QED BY <2>3, <3>1, <3>2
  <2>10. entered' # <<>> BY <1>0, <2>4, EmptySeq
  <2>11. Fingerprint' = Fingerprint
    <3>1. work' = work BY <2>3
    <3> QED BY ONLY <3>1 DEF Fingerprint, Source, PlannedCall
  <2>12. \A i \in 1..(n + 1) :
           \/ \E j \in 1..Len(executed)' : executed'[j].print = entered'[i]
           \/ node' \in {"handler", "interrupted"} /\ i = n + 1
    BY <2>3, <2>4, <2>5, <2>6
  <2> QED BY <2>3, <2>4, <2>8, <2>9, <2>10, <2>11, <2>12 DEF CallsInv
<1> QED BY <1>1, <1>3, <1>4, <1>5, <1>6, <1>7, <1>9, <1>10, <1>11, StepKinds
-----------------------------------------------------------------------------
(* Budgets hold                                                            *)

(* Every step keeps within the limits.                                     *)
LEMMA BudgetStep ==
  ASSUME GraphTypes, PathInv, BudgetInv, GraphNext
  PROVE  BudgetInv'
<1>0. BudgetsHold /\ Limit' = Limit BY DEF BudgetInv, Limit
<1>k. ASSUME \A other \in DOMAIN Limit : spent'[other] <= Limit[other], lookedUp' = lookedUp,
             node' \notin Running \cup {"controller_context"}
      PROVE  BudgetInv'
  BY <1>0, <1>k DEF BudgetInv, BudgetsHold, Running
<1>q. ASSUME spent' = spent, lookedUp' = lookedUp, node' \notin Running \cup {"controller_context"}
      PROVE  BudgetInv'
  BY <1>0, <1>k, <1>q DEF BudgetsHold
<1>s. ASSUME spent' = spent, lookedUp' = lookedUp, node' = node, work'.plan = work.plan
      PROVE  BudgetInv'
  BY <1>0, <1>s DEF BudgetInv, BudgetsHold, IsLookupPlan, ToolsOf
<1>1. CASE \/ RunInit \/ GateStops \/ ControllerBreaks \/ DecideReply \/ DecidePlan
           \/ DecisionValidate \/ ConversationAnswer \/ Validate \/ Duplicate \/ HandlerStopped
           \/ ContextUnreadable \/ Evidence \/ SynthesisReturns \/ Critic \/ NothingToRecover
           \/ RecoveryTooLate \/ ReplanExhausted \/ NotRecoverable \/ AttemptReset \/ RunFinalize
           \/ Response \/ Interrupted \/ AttemptFinalize
  <2>1. spent' = spent /\ lookedUp' = lookedUp /\ node' \notin Running \cup {"controller_context"}
    BY <1>1 DEF RunInit, GateStops, ControllerBreaks, NoDecision, DecideReply, DecidePlan, Decide,
      DecisionValidate, ConversationAnswer, Validate, Duplicate, HandlerStopped, ContextUnreadable,
      Evidence, SynthesisReturns, Critic, NothingToRecover, RecoveryTooLate, ReplanExhausted,
      NotRecoverable, StopRecovery, AttemptReset, RunFinalize, Response, Interrupted,
      AttemptFinalize, Silent, Running
  <2> QED BY <1>q, <2>1
<1>2. CASE Passes BY <1>s, <1>2 DEF Passes
<1>3. CASE ControllerRefuses
  <2>1. spent' = spent /\ lookedUp' = lookedUp /\ node' \notin Running \cup {"controller_context"}
    BY <1>3 DEF ControllerRefuses, NoDecision, Running
  <2> QED BY <1>q, <2>1
<1>4. CASE AskController
  <2>1. ~Exhausted("controller") BY <1>4, OpenGate DEF AskController, Enters, Needs, Resources
  <2>2. \A other \in DOMAIN Limit : spent'[other] <= Limit[other]
    BY <1>0, <1>4, <2>1, Spending DEF AskController, Resources
  <2> QED BY <1>k, <1>4, <2>2 DEF AskController, Running
<1>5. CASE Synthesize
  <2>1. ~Exhausted("answer") BY <1>5, OpenGate DEF Synthesize, Enters, Needs, Resources
  <2>2. \A other \in DOMAIN Limit : spent'[other] <= Limit[other]
    BY <1>0, <1>5, <2>1, Spending DEF Synthesize, Resources
  <2> QED BY <1>k, <1>5, <2>2 DEF Synthesize, Running
<1>6. CASE Replan
  <2>1. ~Exhausted("replans") BY <1>6 DEF Replan, ReplanAffordable
  <2>2. \A other \in DOMAIN Limit : spent'[other] <= Limit[other]
    BY <1>0, <1>6, <2>1, Spending DEF Replan, Resources
  <2> QED BY <1>k, <1>6, <2>2 DEF Replan, Running
<1>7. CASE EnterHandler
  <2>1. ~Exhausted("tools") BY <1>7, OpenGate DEF EnterHandler, Resources
  <2>2. \A other \in DOMAIN Limit : spent'[other] <= Limit[other]
    BY <1>0, <1>7, <2>1, Spending DEF EnterHandler, Resources
  <2> QED BY <1>0, <1>7, <2>2 DEF EnterHandler, Calling, BudgetInv, BudgetsHold, IsLookupPlan,
             ToolsOf
<1>8. ASSUME NEW r, Record(r), node \in Running, node' = "calling",
             spent' = spent, lookedUp' = lookedUp
      PROVE  BudgetInv'
  <2>1. work'.plan = work.plan BY <1>8, Recorded
  <2> QED BY <1>0, <1>8, <2>1 DEF BudgetInv, BudgetsHold, IsLookupPlan, ToolsOf, Running
<1>9. CASE ReferenceFails \/ Reuse \/ InvalidArgs
  <2>1. \E r : Record(r)
    BY <1>9 DEF ReferenceFails, Reuse, InvalidArgs, Remember
  <2> QED BY <1>8, <1>9, <2>1 DEF ReferenceFails, Reuse, InvalidArgs, Calling, Running
<1>10. CASE HandlerReturns
  <2>1. \E r : Record(r) BY <1>10 DEF HandlerReturns, Remember
  <2> QED BY <1>8, <1>10, <2>1 DEF HandlerReturns, Running
<1>11. CASE StartTools
  <2>1. spent' = spent /\ lookedUp' = lookedUp BY <1>11 DEF StartTools, Silent
  <2>2. CASE node' = "attempt_finalize" BY <1>q, <2>1, <2>2 DEF Running
  <2>3. CASE node' = "calling" /\ work' = work
             /\ (IsLookupPlan(work.plan.calls) =>
                   ~(lookedUp + Len(work.plan.calls) > LookupsPerRun))
    <3>1. IsLookupPlan(work.plan.calls)' = IsLookupPlan(work.plan.calls)
      BY <2>3 DEF IsLookupPlan, ToolsOf
    <3>2. ASSUME IsLookupPlan(work.plan.calls)
          PROVE  lookedUp + Len(work.plan.calls) <= LookupsPerRun
      <4>1. work.plan \in PlanSpace BY <1>11 DEF StartTools, Enters, PathInv, Planning, Running, Ran
      <4>2. PICK a \in Nat, b \in Nat : a = lookedUp /\ b = Len(work.plan.calls)
        BY <4>1, PlanFacts, LenProperties DEF GraphTypes
      <4>3. PICK c \in Nat : c = LookupsPerRun BY GraphAssumption
      <4>4. ~(a + b > c) BY <2>3, <3>2, <4>2, <4>3
      <4> QED BY <4>2, <4>3, <4>4
    <3> QED BY <1>0, <2>1, <2>3, <3>1, <3>2 DEF BudgetInv, BudgetsHold
  <2> QED BY <1>11, <2>2, <2>3 DEF StartTools
<1>12. CASE EndTools
  <2>1. spent' = spent /\ lookedUp' = lookedUp /\ node = "calling" /\ work'.plan = work.plan
    BY <1>12 DEF EndTools, Silent, GraphTypes, Fresh
  <2>2. CASE IsLookupPlan(work.plan.calls)
    <3>1. lookedUp' + Len(work.plan.calls)' <= LookupsPerRun BY <2>1, <2>2 DEF BudgetInv
    <3>2. node' \notin Running BY <1>12 DEF EndTools, Running
    <3> QED BY <1>0, <2>1, <3>1, <3>2 DEF BudgetInv, BudgetsHold, Running
  <2>3. CASE ~IsLookupPlan(work.plan.calls)
    <3>1. node' \notin Running \cup {"controller_context"}
      BY <1>12, <2>3 DEF EndTools, Running
    <3> QED BY <1>q, <2>1, <3>1
  <2> QED BY <2>2, <2>3
<1>13. CASE ControllerContext
  <2>1. node = "controller_context" /\ node' = "controller" /\ spent' = spent
        /\ lookedUp' = lookedUp + Len(work.results)
    BY <1>13 DEF ControllerContext, Enters
  <2>2. Len(work.results) = Len(work.plan.calls) BY <2>1 DEF PathInv, Ran
  <2>3. lookedUp' <= LookupsPerRun BY <2>1, <2>2 DEF BudgetInv
  <2> QED BY <1>0, <2>1, <2>3 DEF BudgetInv, BudgetsHold
<1> QED BY <1>1, <1>2, <1>3, <1>4, <1>5, <1>6, <1>7, <1>9, <1>10, <1>11, <1>12, <1>13, StepKinds
        DEF QuietStep
-----------------------------------------------------------------------------
(* What a node finds                                                       *)

(* An attempt that came to nothing.                                        *)
LEMMA Stops ==
  ASSUME node' = "attempt_finalize", work'.missing = {},
         work'.kind # "tool_plan" \/ Unfit'
  PROVE  PathInv'
BY DEF PathInv, Early, Planning, Running, Ran, Ending, Ended

(* The nodes before the tools.                                             *)
LEMMA PlanningSteps ==
  ASSUME GraphTypes, PathInv,
         \/ RunInit \/ AskController \/ ControllerRefuses \/ ControllerBreaks \/ DecideReply
         \/ DecidePlan \/ DecisionValidate \/ ConversationAnswer \/ Validate \/ StartTools
  PROVE  PathInv'
<1> USE DEF Early, Planning, Running, Ran, Ending, Ended
<1>0. DOMAIN work = DOMAIN Fresh BY DEF GraphTypes
<1>a. ASSUME node \in Early
      PROVE  /\ work.results = <<>> /\ work.missing = {} /\ work.review = "none"
             /\ work.failure = "none" /\ work.answer = "none" /\ work.controller = "none"
  BY <1>a DEF PathInv
<1>b. ASSUME node \in Planning
      PROVE  /\ work.results = <<>> /\ work.missing = {} /\ work.review = "none"
             /\ work.failure = "none" /\ work.answer = "none" /\ work.controller = "decided"
             /\ work.kind = "tool_plan" =>
                  work.plan \in PlanSpace /\ replan.plan.required \subseteq work.plan.required
  BY <1>b DEF PathInv
<1>e. ASSUME node \in Early, node' \in Early, work' = work PROVE PathInv'
  BY <1>a, <1>e DEF PathInv
<1>n. ASSUME NEW type \in {"planning_error", "decision_validation_error"}, NoDecision(type),
             node = "asking"
      PROVE  PathInv'
  <2>1. work'.missing = {} /\ work'.controller = type
    BY <1>0, <1>a, <1>n DEF NoDecision, Fresh
  <2> QED BY <1>n, <2>1, Stops DEF NoDecision, Unfit
<1>1. CASE RunInit BY <1>e, <1>1 DEF RunInit
<1>2. CASE AskController BY <1>e, <1>2 DEF AskController, Enters
<1>3. CASE ControllerRefuses BY <1>e, <1>n, <1>3 DEF ControllerRefuses
<1>4. CASE ControllerBreaks BY <1>n, <1>4 DEF ControllerBreaks
<1>5. ASSUME NEW kind, NEW plan, Decide(kind, plan),
             kind = "tool_plan" =>
               plan \in PlanSpace /\ replan.plan.required \subseteq plan.required
      PROVE  PathInv'
  <2>1. /\ node = "asking" /\ node' = "decision_validate" /\ replan' = replan
        /\ work' = [work EXCEPT !.controller = "decided", !.kind = kind, !.plan = plan, !.status = "ok"]
    BY <1>5 DEF Decide, Silent
  <2>2. /\ work'.results = <<>> /\ work'.missing = {} /\ work'.review = "none"
        /\ work'.failure = "none" /\ work'.answer = "none" /\ work'.controller = "decided"
        /\ work'.kind = kind /\ work'.plan = plan
    BY <1>0, <1>a, <2>1 DEF Fresh
  <2> QED BY <1>5, <2>1, <2>2 DEF PathInv
<1>6. CASE DecideReply BY <1>5, <1>6 DEF DecideReply, Replies
<1>7. CASE DecidePlan
  <2>1. PICK plan \in PlanSpace :
          (replan # NoReplan => ReplanFits(plan)) /\ Decide("tool_plan", plan)
    BY <1>7 DEF DecidePlan
  <2>2. replan.plan.required \subseteq plan.required
    <3>1. CASE replan = NoReplan
      <4>1. NoReplan.plan.required = {} BY DEF NoReplan, NoPlan
      <4> QED BY <3>1, <4>1
    <3>2. CASE replan # NoReplan BY <2>1, <3>2 DEF ReplanFits
    <3> QED BY <3>1, <3>2
  <2> QED BY <1>5, <2>1, <2>2
<1>8. CASE DecisionValidate
  <2>1. /\ node = "decision_validate" /\ replan' = replan
        /\ work' = [work EXCEPT !.status = DecisionStatus[work.kind]]
        /\ node' = CASE work.kind = "direct_answer" -> "conversation_answer"
                     [] work.kind = "tool_plan" -> "validate"
                     [] OTHER -> "attempt_finalize"
    BY <1>8 DEF DecisionValidate, Enters, Silent
  <2>2. /\ work'.results = work.results /\ work'.missing = work.missing
        /\ work'.review = work.review /\ work'.failure = work.failure
        /\ work'.answer = work.answer /\ work'.controller = work.controller
        /\ work'.kind = work.kind /\ work'.plan = work.plan
    BY <1>0, <2>1 DEF Fresh
  <2>3. CASE work.kind = "direct_answer" BY <1>b, <2>1, <2>2, <2>3 DEF PathInv
  <2>4. CASE work.kind = "tool_plan" BY <1>b, <2>1, <2>2, <2>4 DEF PathInv
  <2>5. CASE work.kind \notin {"direct_answer", "tool_plan"}
    <3>1. node' = "attempt_finalize" BY <2>1, <2>5
    <3> QED BY <1>b, <2>1, <2>2, <2>5, <3>1, Stops
  <2> QED BY <2>3, <2>4, <2>5
<1>9. CASE ConversationAnswer
  <2>1. node = "conversation_answer" /\ node' = "attempt_finalize"
        /\ work' = [work EXCEPT !.answer = "direct", !.status = "ok"]
    BY <1>9 DEF ConversationAnswer, Enters
  <2>2. work'.missing = {} /\ work'.kind # "tool_plan"
    BY <1>0, <1>b, <2>1 DEF Fresh, PathInv
  <2> QED BY <2>1, <2>2, Stops
<1>10. CASE Validate
  <2>1. node = "validate" /\ replan' = replan BY <1>10 DEF Validate, Enters, Silent
  <2>2. CASE work' = [work EXCEPT !.status = "ok"] /\ node' = "tools"
    <3>1. /\ work'.results = work.results /\ work'.missing = work.missing
          /\ work'.review = work.review /\ work'.failure = work.failure
          /\ work'.answer = work.answer /\ work'.controller = work.controller
          /\ work'.kind = work.kind /\ work'.plan = work.plan
      BY <1>0, <2>2 DEF Fresh
    <3>2. work.kind = "tool_plan" BY <2>1 DEF PathInv
    <3> QED BY <1>b, <2>1, <2>2, <3>1, <3>2 DEF PathInv
  <2>3. CASE work' = [work EXCEPT !.controller = "decision_validation_error", !.status = "error"]
             /\ node' = "attempt_finalize"
    <3>1. work'.missing = {} /\ work'.controller = "decision_validation_error"
      BY <1>0, <1>b, <2>1, <2>3 DEF Fresh
    <3> QED BY <2>3, <3>1, Stops DEF Unfit
  <2> QED BY <1>10, <2>2, <2>3 DEF Validate
<1>11. CASE StartTools
  <2>1. node = "tools" /\ replan' = replan BY <1>11 DEF StartTools, Enters, Silent
  <2>2. CASE work' = [work EXCEPT !.status = "error"] /\ node' = "attempt_finalize"
    <3>1. work'.missing = {} /\ work'.status = "error" /\ work'.answer = "none"
      BY <1>0, <1>b, <2>1, <2>2 DEF Fresh
    <3> QED BY <2>2, <3>1, Stops DEF Unfit
  <2>3. CASE node' = "calling" /\ work' = work
    <3>1. work.kind = "tool_plan" BY <2>1 DEF PathInv
    <3>2. work.plan \in PlanSpace BY <1>b, <2>1, <3>1
    <3>3. PICK m \in Nat : m = Len(work.plan.calls) BY <3>2, PlanFacts, LenProperties
    <3>4. Len(work.results) = 0 BY <1>b, <2>1, EmptySeq
    <3>5. Aligned
      <4>1. \A i \in 1..0 : FALSE OBVIOUS
      <4>2. 0 <= m BY <3>3
      <4> QED BY <3>3, <3>4, <4>1, <4>2 DEF Aligned
    <3>6. Aligned' BY <2>3, <3>5 DEF Aligned
    <3> QED BY <1>b, <2>1, <2>3, <3>1, <3>6 DEF PathInv
  <2> QED BY <1>11, <2>2, <2>3 DEF StartTools
<1> QED BY <1>1, <1>2, <1>3, <1>4, <1>6, <1>7, <1>8, <1>9, <1>10, <1>11

(* The tools: each result is of the call it was planned for.               *)
LEMMA RecordKeeps ==
  ASSUME GraphTypes, PathInv, InCall, NEW r \in Results, Record(r),
         r.id = PlannedCall.id, r.tool = PlannedCall.tool,
         node' = "calling", replan' = replan
  PROVE  PathInv'
<1> USE DEF Early, Planning, Running, Ran, Ending, Ended
<1>1. /\ node \in Running /\ Aligned /\ work.kind = "tool_plan"
      /\ work.missing = {} /\ work.review = "none" /\ work.failure = "none"
      /\ work.answer = "none" /\ work.controller = "decided"
      /\ work.plan \in PlanSpace /\ replan.plan.required \subseteq work.plan.required
  BY DEF InCall, PathInv
<1>2. PICK n \in Nat, m \in Nat : n = Len(work.results) /\ m = Len(work.plan.calls)
  BY <1>1, PlanFacts, LenProperties DEF GraphTypes
<1>3. n < m BY <1>2 DEF InCall
<1>4. /\ Len(work'.results) = n + 1 /\ work'.results[n + 1] = r
      /\ \A i \in 1..n : work'.results[i] = work.results[i]
  BY <1>2, RecordedTypes
<1>5. \A i \in 1..(n + 1) : i \in 1..n \/ i = n + 1 BY <1>2
<1>6. /\ work'.plan = work.plan /\ work'.kind = work.kind
      /\ work'.missing = work.missing /\ work'.review = work.review
      /\ work'.failure = work.failure /\ work'.answer = work.answer
      /\ work'.controller = work.controller
  BY Recorded
<1>7. r.id = work.plan.calls[n + 1].id /\ r.tool = work.plan.calls[n + 1].tool
  BY <1>2 DEF PlannedCall
<1>8. n + 1 <= m BY <1>2, <1>3
<1>9. Aligned'
  <2>1. ASSUME NEW i \in 1..(n + 1)
        PROVE  /\ work'.results[i].id = work'.plan.calls[i].id
               /\ work'.results[i].tool = work'.plan.calls[i].tool
    <3>1. CASE i \in 1..n BY <1>1, <1>2, <1>4, <1>6, <3>1 DEF Aligned
    <3>2. CASE i = n + 1 BY <1>4, <1>6, <1>7, <3>2
    <3> QED BY <1>5, <3>1, <3>2
  <2> QED BY <1>2, <1>4, <1>6, <1>8, <2>1 DEF Aligned
<1> QED BY <1>1, <1>6, <1>9 DEF PathInv

(* A reused result is of the same tool: its fingerprint starts with it.    *)
LEMMA CachedKeeps ==
  ASSUME GraphTypes, PathInv, Reuse
  PROVE  PathInv'
<1> DEFINE r == [Cached EXCEPT !.stage = "cache_reuse"]
<1>1. InCall BY CallsCall DEF Reuse
<1>2. PICK i \in 1..Len(executed) :
        Cached = executed[i] /\ Cached.print = Fingerprint /\ Cached \in Results
  BY CachedResult DEF Reuse
<1>3. Cached.print[1] = Cached.tool BY <1>2 DEF GraphTypes
<1>4. Fingerprint[1] = PlannedCall.tool BY <1>1, PrintFacts
<1>5. Cached.tool = PlannedCall.tool BY <1>2, <1>3, <1>4
<1>6. r \in Results /\ r.id = Cached.id /\ r.tool = Cached.tool BY <1>2 DEF Results
<1>7. Record(r) /\ Cached.id = PlannedCall.id /\ node' = "calling" /\ replan' = replan
  BY DEF Reuse, Calling
<1> HIDE DEF r
<1> QED BY <1>1, <1>5, <1>6, <1>7, RecordKeeps

(* The steps among the tools.                                              *)
LEMMA RunningSteps ==
  ASSUME GraphTypes, PathInv,
         \/ ReferenceFails \/ Reuse \/ Duplicate \/ InvalidArgs \/ HandlerStopped \/ EnterHandler
         \/ HandlerReturns \/ EndTools
  PROVE  PathInv'
<1> USE DEF Early, Planning, Running, Ran, Ending, Ended
<1>0. DOMAIN work = DOMAIN Fresh BY DEF GraphTypes
<1>r. ASSUME node \in Running
      PROVE  /\ work.kind = "tool_plan" /\ Aligned
             /\ work.missing = {} /\ work.review = "none" /\ work.failure = "none"
             /\ work.answer = "none" /\ work.controller = "decided"
             /\ work.plan \in PlanSpace /\ replan.plan.required \subseteq work.plan.required
  BY <1>r DEF PathInv
<1>1. ASSUME InCall, NEW ok \in BOOLEAN, NEW yield \in SUBSET (EvidenceKinds \cup {Unreadable}),
             NEW from \in {"pre_dispatch", "handler"}, Remember(Result(ok, yield, from)),
             node' = "calling", replan' = replan
      PROVE  PathInv'
  <2> DEFINE r == Result(ok, yield, from)
  <2>1. r \in Results /\ r.id = PlannedCall.id /\ r.tool = PlannedCall.tool
    BY <1>1, NewResult
  <2>2. Record(r) BY <1>1 DEF Remember
  <2> HIDE DEF r
  <2> QED BY <1>1, <2>1, <2>2, RecordKeeps
<1>2. CASE ReferenceFails
  <2>1. InCall BY <1>2, CallsCall DEF ReferenceFails
  <2> DEFINE r == [id |-> PlannedCall.id, tool |-> PlannedCall.tool, ok |-> FALSE, yield |-> {},
                   stage |-> "reference_resolution", print |-> <<>>]
  <2>2. <<>> \in Prints BY EmptySeq DEF Prints
  <2>3. r \in Results /\ r.id = PlannedCall.id /\ r.tool = PlannedCall.tool
    BY <2>1, <2>2, CallFacts DEF Call, Results
  <2>4. Record(r) /\ node' = "calling" /\ replan' = replan
    BY <1>2 DEF ReferenceFails, Calling
  <2> HIDE DEF r
  <2> QED BY <2>1, <2>3, <2>4, RecordKeeps
<1>3. CASE Reuse BY <1>3, CachedKeeps
<1>4. CASE InvalidArgs
  <2>1. InCall BY <1>4, CallsCall DEF InvalidArgs
  <2> QED BY <1>1, <1>4, <2>1 DEF InvalidArgs, Calling
<1>5. CASE HandlerReturns
  <2>1. InCall BY <1>5, CallsCall DEF HandlerReturns
  <2>2. PICK ok \in BOOLEAN, yield \in SUBSET (EvidenceKinds \cup {Unreadable}) :
          Remember(Result(ok, yield, "handler"))
    BY <1>5, <2>1, HandlerResult
  <2> QED BY <1>1, <1>5, <2>1, <2>2 DEF HandlerReturns
<1>6. CASE EnterHandler
  <2>1. node = "calling" /\ node' = "handler" /\ work' = work /\ replan' = replan
        /\ Len(work.results) < Len(work.plan.calls)
    BY <1>6 DEF EnterHandler, Calling
  <2>2. Aligned' BY <1>r, <2>1 DEF Aligned
  <2> QED BY <1>r, <2>1, <2>2 DEF PathInv
<1>7. ASSUME NEW code, code # "none", node = "calling", node' = "attempt_finalize",
             work' = GateFailed(code)
      PROVE  PathInv'
  <2>1. work'.missing = {} /\ work'.failure = code BY <1>0, <1>r, <1>7 DEF GateFailed, Fresh
  <2> QED BY <1>7, <2>1, Stops DEF Unfit
<1>8. CASE Duplicate BY <1>7, <1>8 DEF Duplicate, Calling
<1>9. CASE HandlerStopped BY <1>7, <1>9 DEF HandlerStopped, Calling
<1>10. CASE EndTools
  <2>1. /\ node = "calling" /\ Len(work.results) = Len(work.plan.calls) /\ replan' = replan
        /\ work' = [work EXCEPT !.status = IF AnyFailed THEN "error" ELSE "ok"]
    BY <1>10 DEF EndTools, Silent
  <2>2. /\ work'.results = work.results /\ work'.missing = work.missing
        /\ work'.review = work.review /\ work'.failure = work.failure
        /\ work'.answer = work.answer /\ work'.controller = work.controller
        /\ work'.kind = work.kind /\ work'.plan = work.plan
    BY <1>0, <2>1 DEF Fresh
  <2>3. AnyFailed' <=> AnyFailed BY <2>2 DEF AnyFailed
  <2>4. Aligned' BY <1>r, <2>1, <2>2 DEF Aligned
  <2>5. CASE AnyFailed
    <3>1. node' = "attempt_finalize" BY <1>10, <2>5 DEF EndTools
    <3> QED BY <1>r, <2>1, <2>2, <2>3, <2>5, <3>1, Stops DEF Unfit
  <2>6. CASE ~AnyFailed
    <3>1. node' \in {"controller_context", "evidence"} BY <1>10, <2>6 DEF EndTools
    <3> QED BY <1>r, <2>1, <2>2, <2>3, <2>4, <2>6, <3>1 DEF PathInv
  <2> QED BY <2>5, <2>6
<1> QED BY <1>2, <1>3, <1>4, <1>5, <1>6, <1>8, <1>9, <1>10

(* What follows the tools.                                                 *)
LEMMA RanSteps ==
  ASSUME GraphTypes, PathInv,
         \/ GateStops \/ ControllerContext \/ ContextUnreadable \/ Evidence \/ Synthesize
         \/ SynthesisReturns \/ Critic
  PROVE  PathInv'
<1> USE DEF Early, Planning, Running, Ran, Ending, Ended
<1>0. DOMAIN work = DOMAIN Fresh BY DEF GraphTypes
<1>r. ASSUME node \in Ran
      PROVE  /\ work.kind = "tool_plan" /\ Aligned /\ ~AnyFailed
             /\ Len(work.results) = Len(work.plan.calls)
             /\ work.missing = {} /\ work.review = "none" /\ work.failure = "none"
             /\ work.answer = (IF node = "critic" THEN "ok" ELSE "none")
             /\ work.controller = "decided"
             /\ work.plan \in PlanSpace /\ replan.plan.required \subseteq work.plan.required
             /\ node \in {"answer", "answering", "critic"} => Supplied
  BY <1>r DEF PathInv
(* The results and the plan are those of before.                           *)
<1>s. ASSUME node \in Ran, replan' = replan, work'.results = work.results,
             work'.plan = work.plan, work'.kind = work.kind
      PROVE  /\ work'.kind = "tool_plan" /\ Aligned' /\ ~AnyFailed'
             /\ Len(work.results)' = Len(work.plan.calls)'
             /\ work'.plan \in PlanSpace
             /\ replan'.plan.required \subseteq work'.plan.required
             /\ Supplied => Supplied'
  BY <1>r, <1>s DEF Aligned, AnyFailed, Supplied, ResultSet
<1>1. CASE GateStops
  <2>1. PICK code : code # "none" /\ work' = GateFailed(code) BY <1>1 DEF GateStops
  <2>2. node \in DOMAIN Needs /\ node' = "attempt_finalize" BY <1>1 DEF GateStops
  <2>3. work.missing = {} BY <2>2 DEF Needs, PathInv
  <2>4. work'.missing = {} /\ work'.failure = code BY <1>0, <2>1, <2>3 DEF GateFailed, Fresh
  <2> QED BY <2>1, <2>2, <2>4, Stops DEF Unfit
<1>2. CASE ControllerContext
  <2>1. node' = "controller" /\ work' = [Fresh EXCEPT !.index = work.index, !.status = "ok"]
    BY <1>2 DEF ControllerContext
  <2>2. /\ work'.results = <<>> /\ work'.missing = {} /\ work'.review = "none"
        /\ work'.failure = "none" /\ work'.answer = "none" /\ work'.controller = "none"
    BY <2>1 DEF Fresh
  <2> QED BY <2>1, <2>2 DEF PathInv
<1>3. CASE ContextUnreadable
  <2>1. node = "controller_context" /\ node' = "attempt_finalize"
        /\ work' = [work EXCEPT !.status = "error"]
    BY <1>3 DEF ContextUnreadable, Enters
  <2>2. work'.missing = {} /\ work'.status = "error" /\ work'.answer = "none"
    BY <1>0, <1>r, <2>1 DEF Fresh
  <2> QED BY <2>1, <2>2, Stops DEF Unfit
<1>4. CASE Evidence
  <2>1. /\ node = "evidence" /\ replan' = replan
        /\ work' = [work EXCEPT !.built = TRUE, !.missing = Missing]
        /\ node' = IF Missing = {} THEN "answer" ELSE "attempt_finalize"
    BY <1>4 DEF Evidence, Enters, Silent
  <2>2. /\ work'.results = work.results /\ work'.missing = Missing
        /\ work'.review = work.review /\ work'.failure = work.failure
        /\ work'.answer = work.answer /\ work'.controller = work.controller
        /\ work'.kind = work.kind /\ work'.plan = work.plan
    BY <1>0, <2>1 DEF Fresh
  <2>3. CASE Missing = {}
    <3>1. {<<k>> : k \in work.plan.required \ UNION {r.yield : r \in ResultSet}} = {}
      BY <2>3 DEF Missing
    <3>2. Supplied BY <3>1 DEF Supplied
    <3> QED BY <1>r, <1>s, <2>1, <2>2, <2>3, <3>2 DEF PathInv
  <2>4. CASE Missing # {}
    <3>1. Unfit' BY <2>2, <2>4 DEF Unfit
    <3> QED BY <1>r, <1>s, <2>1, <2>2, <2>4, <3>1 DEF PathInv
  <2> QED BY <2>3, <2>4
<1>5. CASE Synthesize
  <2>1. node = "answer" /\ node' = "answering" /\ replan' = replan /\ work' = work
    BY <1>5 DEF Synthesize, Enters
  <2> QED BY <1>r, <1>s, <2>1 DEF PathInv
<1>6. CASE SynthesisReturns
  <2>1. PICK result \in {"ok", "error"} :
          /\ work' = [work EXCEPT !.answer = result]
          /\ node' = IF result = "ok" THEN "critic" ELSE "attempt_finalize"
    BY <1>6 DEF SynthesisReturns
  <2>2. node = "answering" /\ replan' = replan BY <1>6 DEF SynthesisReturns, Silent
  <2>3. /\ work'.results = work.results /\ work'.missing = work.missing
        /\ work'.review = work.review /\ work'.failure = work.failure
        /\ work'.answer = result /\ work'.controller = work.controller
        /\ work'.kind = work.kind /\ work'.plan = work.plan
    BY <1>0, <2>1 DEF Fresh
  <2>4. CASE result = "ok" BY <1>r, <1>s, <2>1, <2>2, <2>3, <2>4 DEF PathInv
  <2>5. CASE result = "error" BY <1>r, <2>1, <2>2, <2>3, <2>5, Stops DEF Unfit
  <2> QED BY <2>4, <2>5
<1>7. CASE Critic
  <2>1. node = "critic" /\ node' = "attempt_finalize" /\ replan' = replan
    BY <1>7 DEF Critic, Enters, Silent
  <2>2. /\ work'.results = work.results /\ work'.missing = work.missing
        /\ work'.failure = work.failure
        /\ work'.answer = work.answer /\ work'.controller = work.controller
        /\ work'.kind = work.kind /\ work'.plan = work.plan
        /\ work'.review = (IF work.missing # {} \/ AnyFailed \/ ToolsOf(work.results) \cap Mocked # {}
                            THEN "failed" ELSE "passed")
    BY <1>0, <1>7 DEF Critic, Fresh
  <2>3. CASE work'.review = "failed" BY <1>r, <2>1, <2>2, <2>3, Stops DEF Unfit
  <2>4. CASE work'.review # "failed"
    <3>1. work'.review = "passed" /\ ToolsOf(work.results) \cap Mocked = {} BY <2>2, <2>4
    <3>2. ToolsOf(work.plan.calls) \subseteq ToolsOf(work.results)
      <4>1. Aligned /\ Len(work.results) = Len(work.plan.calls) BY <1>r, <2>1
      <4> QED BY <4>1 DEF Aligned, ToolsOf
    <3>3. ToolsOf(work'.plan.calls) \cap Mocked = {} BY <2>2, <3>1, <3>2
    <3>4. Whole' BY <1>r, <1>s, <2>1, <2>2, <3>1, <3>3 DEF Whole
    <3> QED BY <1>r, <2>1, <2>2, <3>4 DEF PathInv
  <2> QED BY <2>3, <2>4
<1> QED BY <1>1, <1>2, <1>3, <1>4, <1>5, <1>6, <1>7

(* How an attempt that was refused, or lacks evidence, comes out.          *)
LEMMA OutcomeCases ==
  /\ Unfit => TerminalOutcome.status # "ok"
  /\ work.missing # {} /\ work.controller = "decided" /\ ~AnyFailed /\ work.answer = "none" =>
       /\ work.failure = "none" => TerminalOutcome.status = "insufficient_evidence"
       /\ work.failure # "none" => TerminalOutcome = Outcome("error", work.failure)
<1>1. Unfit => TerminalOutcome.status # "ok" BY DEF Unfit, TerminalOutcome, Outcome
<1> QED BY <1>1 DEF TerminalOutcome, Outcome

(* An outcome that was settled comes out the same again.                   *)
LEMMA Settled ==
  ASSUME GraphTypes, Settle(TerminalOutcome)
  PROVE  /\ work'.results = work.results /\ work'.missing = work.missing
         /\ work'.review = work.review /\ work'.failure = work.failure
         /\ work'.answer = work.answer /\ work'.controller = work.controller
         /\ work'.kind = work.kind /\ work'.plan = work.plan /\ work'.index = work.index
         /\ work'.status = TerminalOutcome.status /\ work'.type = TerminalOutcome.type
         /\ TerminalOutcome'.status = TerminalOutcome.status
         /\ Unfit => Unfit'
         /\ Whole /\ replan' = replan => Whole'
<1> DEFINE o == TerminalOutcome
<1>1. /\ work'.results = work.results /\ work'.missing = work.missing
      /\ work'.review = work.review /\ work'.failure = work.failure
      /\ work'.answer = work.answer /\ work'.controller = work.controller
      /\ work'.kind = work.kind /\ work'.plan = work.plan /\ work'.index = work.index
      /\ work'.status = o.status /\ work'.type = o.type
  BY DEF GraphTypes, Settle, Fresh
<1>2. AnyFailed' <=> AnyFailed BY <1>1 DEF AnyFailed
<1>3. TerminalOutcome'.status = TerminalOutcome.status
  BY <1>1, <1>2 DEF TerminalOutcome, Outcome
<1>4. Unfit => Unfit' BY <1>1, <1>2 DEF Unfit, TerminalOutcome, Outcome
<1>5. ASSUME Whole, replan' = replan PROVE Whole'
  BY <1>1, <1>2, <1>5 DEF Whole, Aligned, Supplied, ResultSet
<1> QED BY <1>1, <1>3, <1>4, <1>5

(* The end of an attempt and of the run.                                   *)
LEMMA EndingSteps ==
  ASSUME GraphTypes, PathInv,
         \/ AttemptFinalize \/ NothingToRecover \/ RecoveryTooLate \/ ReplanExhausted
         \/ NotRecoverable \/ Replan \/ AttemptReset \/ RunFinalize \/ Response
         \/ Passes \/ Interrupted
  PROVE  PathInv'
<1> USE DEF Early, Planning, Running, Ran, Ending, Ended
<1>0. DOMAIN work = DOMAIN Fresh BY DEF GraphTypes
<1>e. ASSUME node \in Ending
      PROVE  /\ work.missing # {} =>
                  /\ work.controller = "decided" /\ ~AnyFailed /\ work.answer = "none"
                  /\ node # "run_finalize" => work.failure = "none"
             /\ work.kind = "tool_plan" => Unfit \/ Whole
  BY <1>e DEF PathInv
<1>w. ASSUME work' = work, replan' = replan PROVE (Whole => Whole') /\ (Unfit => Unfit')
  BY <1>w DEF Whole, Aligned, AnyFailed, Supplied, ResultSet, Unfit
<1>f. ASSUME work' = work PROVE AnyFailed' <=> AnyFailed BY <1>f DEF AnyFailed
<1>1. CASE AttemptFinalize
  <2>1. /\ node = "attempt_finalize" /\ node' = "recovery" /\ replan' = replan
        /\ Settle(TerminalOutcome)
    BY <1>1 DEF AttemptFinalize
  <2>2. AnyFailed' <=> AnyFailed BY <2>1, Settled DEF AnyFailed
  <2> QED BY <1>e, <2>1, <2>2, Settled DEF PathInv
<1>2. ASSUME node = "recovery", node' \in {"run_finalize", "attempt_reset"}, work' = work
      PROVE  (work'.missing # {} =>
                work'.controller = "decided" /\ ~AnyFailed' /\ work'.answer = "none"
                /\ work'.failure = "none")
  BY <1>e, <1>f, <1>2
<1>3. CASE NothingToRecover \/ NotRecoverable
  <2>1. node = "recovery" /\ node' = "run_finalize" /\ replan' = replan /\ work' = work
    BY <1>3 DEF NothingToRecover, NotRecoverable, StopRecovery
  <2> QED BY <1>e, <1>w, <1>2, <2>1 DEF PathInv
<1>4. ASSUME node \in {"recovery", "attempt_reset"}, node' = "run_finalize", replan' = replan,
             work.missing # {}, work' = GateFailed("execution_timeout")
      PROVE  PathInv'
  <2>1. /\ work'.results = work.results /\ work'.controller = work.controller
        /\ work'.answer = work.answer /\ work'.failure = "execution_timeout"
    BY <1>0, <1>4 DEF GateFailed, Fresh
  <2>2. AnyFailed' <=> AnyFailed BY <2>1 DEF AnyFailed
  <2>3. Unfit' BY <2>1 DEF Unfit
  <2> QED BY <1>e, <1>4, <2>1, <2>2, <2>3 DEF PathInv
<1>5. CASE RecoveryTooLate BY <1>4, <1>5 DEF RecoveryTooLate, StopRecovery
<1>6. CASE ReplanExhausted
  <2>1. /\ node = "recovery" /\ node' = "run_finalize" /\ replan' = replan /\ work.missing # {}
        /\ work' = [work EXCEPT !.status = "insufficient_evidence", !.type = "replan_exhausted"]
    BY <1>6 DEF ReplanExhausted, StopRecovery
  <2>2. /\ work'.results = work.results /\ work'.controller = work.controller
        /\ work'.answer = work.answer /\ work'.failure = work.failure
        /\ work'.missing = work.missing
    BY <1>0, <2>1 DEF Fresh
  <2>3. AnyFailed' <=> AnyFailed BY <2>2 DEF AnyFailed
  <2>4. Unfit' BY <2>1, <2>2 DEF Unfit
  <2> QED BY <1>e, <2>1, <2>2, <2>3, <2>4 DEF PathInv
<1>7. CASE Replan
  <2>1. node = "recovery" /\ node' = "attempt_reset" /\ work' = work /\ work.missing # {}
    BY <1>7 DEF Replan
  <2>2. Unfit' BY <2>1 DEF Unfit
  <2> QED BY <1>2, <2>1, <2>2 DEF PathInv
<1>8. CASE AttemptReset
  <2>1. node = "attempt_reset" /\ replan' = replan BY <1>8 DEF AttemptReset
  <2>2. CASE overdue
    <3>1. work' = GateFailed("execution_timeout") /\ node' = "run_finalize"
      BY <1>8, <2>2 DEF AttemptReset
    <3>2. CASE work.missing # {} BY <1>4, <2>1, <3>1, <3>2
    <3>3. CASE work.missing = {}
      <4>1. work'.missing = {} /\ work'.failure = "execution_timeout"
        BY <1>0, <3>1, <3>3 DEF GateFailed, Fresh
      <4>2. Unfit' BY <4>1 DEF Unfit
      <4> QED BY <3>1, <4>1, <4>2 DEF PathInv
    <3> QED BY <3>2, <3>3
  <2>3. CASE ~overdue
    <3>1. work' = [Fresh EXCEPT !.index = 1] /\ node' = "controller"
      BY <1>8, <2>3 DEF AttemptReset
    <3>2. /\ work'.results = <<>> /\ work'.missing = {} /\ work'.review = "none"
          /\ work'.failure = "none" /\ work'.answer = "none" /\ work'.controller = "none"
      BY <3>1 DEF Fresh
    <3> QED BY <3>1, <3>2 DEF PathInv
  <2> QED BY <2>2, <2>3
<1>9. CASE RunFinalize
  <2>1. node = "run_finalize" /\ node' = "response" /\ replan' = replan /\ Settle(TerminalOutcome)
    BY <1>9 DEF RunFinalize, Silent
  <2>2. ASSUME work'.kind = "tool_plan", work'.status = "ok" PROVE Whole'
    <3>1. TerminalOutcome.status = "ok" /\ work.kind = "tool_plan" BY <2>1, <2>2, Settled
    <3>2. ~Unfit BY <3>1, OutcomeCases
    <3>3. Whole BY <1>e, <2>1, <3>1, <3>2
    <3> QED BY <2>1, <3>3, Settled
  <2> QED BY <2>1, <2>2 DEF PathInv
<1>10. CASE Response
  <2>1. node = "response" /\ node' = "answered" /\ replan' = replan /\ work' = work
    BY <1>10 DEF Response
  <2> QED BY <1>w, <2>1 DEF PathInv
<1>11. CASE Passes
  <2>1. node' = node /\ replan' = replan /\ work' = work BY <1>11 DEF Passes
  <2>2. Unfit' = Unfit /\ Whole' = Whole /\ Aligned' = Aligned /\ AnyFailed' = AnyFailed
        /\ Supplied' = Supplied
    BY <2>1 DEF Unfit, Whole, Aligned, AnyFailed, Supplied, ResultSet
  <2> QED BY <2>1, <2>2 DEF PathInv
<1>12. CASE Interrupted
  <2>1. node' = "interrupted" BY <1>12 DEF Interrupted
  <2> QED BY <2>1 DEF PathInv
<1> QED BY <1>1, <1>3, <1>5, <1>6, <1>7, <1>8, <1>9, <1>10, <1>11, <1>12
-----------------------------------------------------------------------------
(* Attempts                                                                *)

InnerStep ==
  \/ RunInit \/ GateStops \/ AskController \/ ControllerRefuses \/ ControllerBreaks
  \/ DecideReply \/ DecidePlan \/ DecisionValidate \/ ConversationAnswer \/ Validate
  \/ StartTools \/ ReferenceFails \/ Reuse \/ Duplicate \/ InvalidArgs \/ HandlerStopped
  \/ EnterHandler \/ HandlerReturns \/ EndTools \/ ControllerContext \/ ContextUnreadable
  \/ Evidence \/ Synthesize \/ SynthesisReturns \/ Critic \/ Interrupted

Inside == Early \cup Planning \cup Running \cup Ran

Innerly ==
  /\ node \in Inside /\ node' \in Inside \cup {"attempt_finalize", "interrupted"}
  /\ attempts' = attempts /\ work'.index = work.index

(* A step inside an attempt leaves the attempts alone.                     *)
LEMMA InnerSteps == ASSUME GraphTypes, InnerStep PROVE Innerly
<1> USE DEF Innerly, Inside, Early, Planning, Running, Ran, Enters, Silent, Fresh
<1>0. DOMAIN work = DOMAIN Fresh BY DEF GraphTypes
<1>1. CASE RunInit BY <1>1 DEF RunInit
<1>2. CASE GateStops BY <1>0, <1>2 DEF GateStops, GateFailed, Needs
<1>3. CASE AskController BY <1>3 DEF AskController
<1>4. CASE ControllerRefuses BY <1>0, <1>4 DEF ControllerRefuses, NoDecision
<1>5. CASE ControllerBreaks BY <1>0, <1>5 DEF ControllerBreaks, NoDecision
<1>6. CASE DecideReply BY <1>0, <1>6 DEF DecideReply, Decide
<1>7. CASE DecidePlan BY <1>0, <1>7 DEF DecidePlan, Decide
<1>8. CASE DecisionValidate
  <2>1. node' \in {"conversation_answer", "validate", "attempt_finalize"}
    BY <1>8 DEF DecisionValidate
  <2> QED BY <1>0, <1>8, <2>1 DEF DecisionValidate
<1>9. CASE ConversationAnswer BY <1>0, <1>9 DEF ConversationAnswer
<1>10. CASE Validate BY <1>0, <1>10 DEF Validate
<1>11. CASE StartTools BY <1>0, <1>11 DEF StartTools
<1>12. CASE ReferenceFails BY <1>12, Recorded DEF ReferenceFails, Calling
<1>13. CASE Reuse BY <1>13, Recorded DEF Reuse, Calling
<1>14. CASE Duplicate BY <1>0, <1>14 DEF Duplicate, Calling, GateFailed
<1>15. CASE InvalidArgs BY <1>15, Recorded DEF InvalidArgs, Calling, Remember
<1>16. CASE HandlerStopped BY <1>0, <1>16 DEF HandlerStopped, Calling, GateFailed
<1>17. CASE EnterHandler BY <1>17 DEF EnterHandler, Calling
<1>18. CASE HandlerReturns BY <1>18, Recorded DEF HandlerReturns, Remember
<1>19. CASE EndTools
  <2>1. node' \in {"attempt_finalize", "controller_context", "evidence"} BY <1>19 DEF EndTools
  <2> QED BY <1>0, <1>19, <2>1 DEF EndTools
<1>20. CASE ControllerContext BY <1>20 DEF ControllerContext
<1>21. CASE ContextUnreadable BY <1>0, <1>21 DEF ContextUnreadable
<1>22. CASE Evidence BY <1>0, <1>22 DEF Evidence
<1>23. CASE Synthesize BY <1>23 DEF Synthesize
<1>24. CASE SynthesisReturns BY <1>0, <1>24 DEF SynthesisReturns
<1>25. CASE Critic BY <1>0, <1>25 DEF Critic
<1>26. CASE Interrupted BY <1>26 DEF Interrupted
<1> QED BY <1>1, <1>2, <1>3, <1>4, <1>5, <1>6, <1>7, <1>8, <1>9, <1>10, <1>11, <1>12, <1>13,
        <1>14, <1>15, <1>16, <1>17, <1>18, <1>19, <1>20, <1>21, <1>22, <1>23, <1>24, <1>25, <1>26
        DEF InnerStep

(* Every step keeps the count of attempts and what the last one came to.   *)
LEMMA AttemptStep ==
  ASSUME GraphTypes, PathInv, AttemptInv, GraphNext
  PROVE  AttemptInv'
<1> USE DEF Inside, Early, Planning, Running, Ran, Ending, Ended
<1>0. DOMAIN work = DOMAIN Fresh BY DEF GraphTypes
<1>k. PICK k \in Nat : k = Len(attempts) BY LenProperties DEF GraphTypes
<1>1. CASE InnerStep
  <2>1. Innerly BY <1>1, InnerSteps
  <2> QED BY <2>1 DEF Innerly, AttemptInv
<1>2. CASE AttemptFinalize
  <2>1. /\ node = "attempt_finalize" /\ node' = "recovery" /\ work.index = k
        /\ Settle(TerminalOutcome) /\ attempts' = Append(attempts, TerminalOutcome)
    BY <1>2, <1>k DEF AttemptFinalize
  <2>2. /\ Len(attempts') = k + 1 /\ attempts'[k + 1] = TerminalOutcome
        /\ \A i \in 1..k : attempts'[i] = attempts[i]
    BY <1>k, <2>1, AppendProperties DEF GraphTypes
  <2>3. k \in {0, 1} /\ (k = 1 => attempts[1].status = "insufficient_evidence")
    BY <2>1 DEF AttemptInv
  <2>4. Latest'.status = TerminalOutcome.status BY <1>k, <2>2 DEF Latest
  <2>5. TerminalOutcome'.status = TerminalOutcome.status /\ work'.index = work.index
        /\ work'.missing = work.missing
    BY <2>1, Settled
  <2>6. ASSUME work.missing # {} PROVE TerminalOutcome.status = "insufficient_evidence"
    BY <2>1, <2>6, OutcomeCases DEF PathInv
  <2>7. k = 1 => attempts'[1].status = "insufficient_evidence"
    <3>1. k = 1 => 1 \in 1..k OBVIOUS
    <3> QED BY <2>2, <2>3, <3>1
  <2>8. k + 1 \in {1, 2} /\ k + 1 <= 2 /\ (k + 1 = 2 <=> k = 1) BY <2>3
  <2> QED BY <2>1, <2>2, <2>3, <2>4, <2>5, <2>6, <2>7, <2>8 DEF AttemptInv
(* The attempts are finalized, and how the last one came out is known.     *)
<1>r. ASSUME node = "recovery"
      PROVE  /\ k = work.index + 1 /\ work.index \in {0, 1} /\ k <= 2
             /\ TerminalOutcome.status = Latest.status
             /\ k = 2 \/ work.index = 1 => attempts[1].status = "insufficient_evidence"
             /\ work.missing # {} =>
                  /\ Latest.status = "insufficient_evidence"
                  /\ work.controller = "decided" /\ ~AnyFailed /\ work.answer = "none"
                  /\ work.failure = "none"
  BY <1>k, <1>r DEF AttemptInv, PathInv
<1>l. ASSUME attempts' = attempts PROVE Latest' = Latest BY <1>l DEF Latest
<1>3. CASE NothingToRecover \/ NotRecoverable
  <2>1. /\ node = "recovery" /\ node' = "run_finalize" /\ attempts' = attempts /\ work' = work
    BY <1>3 DEF NothingToRecover, NotRecoverable, StopRecovery
  <2>2. TerminalOutcome' = TerminalOutcome BY <2>1 DEF TerminalOutcome, AnyFailed
  <2> QED BY <1>k, <1>r, <1>l, <2>1, <2>2 DEF AttemptInv
<1>4. ASSUME work.missing # {}, work.controller = "decided", ~AnyFailed, work.answer = "none",
             work' = GateFailed("execution_timeout")
      PROVE  TerminalOutcome' = Outcome("error", "execution_timeout") /\ work'.index = work.index
  <2>1. /\ work'.results = work.results /\ work'.controller = work.controller
        /\ work'.answer = work.answer /\ work'.failure = "execution_timeout"
        /\ work'.index = work.index
    BY <1>0, <1>4 DEF GateFailed, Fresh
  <2>2. ~AnyFailed' BY <1>4, <2>1 DEF AnyFailed
  <2> QED BY <1>4, <2>1, <2>2 DEF TerminalOutcome
<1>5. CASE RecoveryTooLate
  <2>1. /\ node = "recovery" /\ node' = "run_finalize" /\ attempts' = attempts /\ overdue'
        /\ work.missing # {} /\ work' = GateFailed("execution_timeout")
    BY <1>5 DEF RecoveryTooLate, StopRecovery
  <2>2. TerminalOutcome' = Outcome("error", "execution_timeout") /\ work'.index = work.index
    BY <1>r, <1>4, <2>1
  <2> QED BY <1>k, <1>r, <1>l, <2>1, <2>2 DEF AttemptInv
<1>6. CASE ReplanExhausted
  <2>1. /\ node = "recovery" /\ node' = "run_finalize" /\ attempts' = attempts /\ work.missing # {}
        /\ work' = [work EXCEPT !.status = "insufficient_evidence", !.type = "replan_exhausted"]
    BY <1>6 DEF ReplanExhausted, StopRecovery
  <2>2. /\ work'.results = work.results /\ work'.controller = work.controller
        /\ work'.answer = work.answer /\ work'.failure = work.failure
        /\ work'.missing = work.missing /\ work'.index = work.index
    BY <1>0, <2>1 DEF Fresh
  <2>3. ~AnyFailed' BY <1>r, <2>1, <2>2 DEF AnyFailed
  <2>4. TerminalOutcome'.status = "insufficient_evidence"
    BY <1>r, <2>1, <2>2, <2>3 DEF TerminalOutcome, Outcome
  <2> QED BY <1>k, <1>r, <1>l, <2>1, <2>2, <2>4 DEF AttemptInv
<1>7. CASE Replan
  <2>1. /\ node = "recovery" /\ node' = "attempt_reset" /\ attempts' = attempts /\ work' = work
        /\ work.missing # {} /\ work.index = 0
    BY <1>7 DEF Replan
  <2> QED BY <1>k, <1>r, <1>l, <2>1 DEF AttemptInv
<1>8. CASE AttemptReset
  <2>1. /\ node = "attempt_reset" /\ attempts' = attempts /\ overdue' = overdue
        /\ k = 1 /\ work.index = 0 /\ work.missing # {} /\ Latest.status = "insufficient_evidence"
    BY <1>k, <1>8 DEF AttemptReset, AttemptInv
  <2>2. CASE overdue
    <3>1. work' = GateFailed("execution_timeout") /\ node' = "run_finalize"
      BY <1>8, <2>2 DEF AttemptReset
    <3>2. work.controller = "decided" /\ ~AnyFailed /\ work.answer = "none"
      BY <2>1 DEF PathInv
    <3>3. TerminalOutcome' = Outcome("error", "execution_timeout") /\ work'.index = work.index
      BY <1>4, <2>1, <3>1, <3>2
    <3> QED BY <1>k, <1>l, <2>1, <2>2, <3>1, <3>3 DEF AttemptInv
  <2>3. CASE ~overdue
    <3>1. work'.index = 1 /\ node' = "controller" BY <1>8, <2>3 DEF AttemptReset, Fresh
    <3>2. attempts'[1].status = "insufficient_evidence" BY <1>k, <2>1 DEF Latest
    <3> QED BY <1>k, <2>1, <3>1, <3>2 DEF AttemptInv
  <2> QED BY <2>2, <2>3
<1>9. CASE RunFinalize
  <2>1. /\ node = "run_finalize" /\ node' = "response" /\ attempts' = attempts
        /\ overdue' = overdue /\ Settle(TerminalOutcome)
    BY <1>9 DEF RunFinalize, Silent
  <2>2. /\ work'.status = TerminalOutcome.status /\ work'.type = TerminalOutcome.type
        /\ work'.index = work.index
    BY <2>1, Settled
  <2>3. TerminalOutcome = Outcome("error", "execution_timeout") =>
          work'.status = "error" /\ work'.type = "execution_timeout"
    BY <2>2 DEF Outcome
  <2> QED BY <1>l, <2>1, <2>2, <2>3 DEF AttemptInv
<1>10. CASE Response
  <2>1. /\ node = "response" /\ node' = "answered" /\ attempts' = attempts
        /\ overdue' = overdue /\ work' = work
    BY <1>10 DEF Response
  <2> QED BY <1>l, <2>1 DEF AttemptInv
<1>11. CASE Passes
  <2>1. node' = node /\ attempts' = attempts /\ work' = work /\ overdue' BY <1>11 DEF Passes
  <2>2. TerminalOutcome' = TerminalOutcome BY <2>1 DEF TerminalOutcome, AnyFailed
  <2> QED BY <1>l, <2>1, <2>2 DEF AttemptInv
<1>12. InnerStep \/ AttemptFinalize \/ NothingToRecover \/ RecoveryTooLate \/ ReplanExhausted
       \/ NotRecoverable \/ Replan \/ AttemptReset \/ RunFinalize \/ Response \/ Passes
  BY DEF GraphNext, GraphStep, InnerStep
<1> QED BY <1>1, <1>2, <1>3, <1>5, <1>6, <1>7, <1>8, <1>9, <1>10, <1>11, <1>12
-----------------------------------------------------------------------------
(* Every step keeps what a node relies on.                                 *)
LEMMA PathStep ==
  ASSUME GraphTypes, PathInv, GraphNext
  PROVE  PathInv'
BY PlanningSteps, RunningSteps, RanSteps, EndingSteps DEF GraphNext, GraphStep

(* It holds at the start.                                                  *)
LEMMA GraphInvInit == ASSUME GraphInit PROVE GraphInv
<1> USE DEF GraphInit
<1>1. <<>> \in Seq(Results) /\ <<>> \in Seq(Prints) /\ Len(<<>>) = 0
      /\ <<>> \in Seq({attempts[i] : i \in 1..Len(attempts)})
  BY EmptySeq
<1>2. \A i \in 1..0 : FALSE OBVIOUS
<1>3. \A r \in DOMAIN Limit : spent[r] = 0 /\ Limit[r] \in Nat
  BY GraphAssumption DEF Limit
<1>4. spent \in [DOMAIN Limit -> Nat] BY DEF Limit
<1>5. GraphTypes BY <1>1, <1>2, <1>4 DEF GraphTypes, Fresh
<1>6. CallsInv BY <1>1, <1>2 DEF CallsInv
<1>7. BudgetInv BY <1>3, GraphAssumption DEF BudgetInv, BudgetsHold
<1>8. PathInv BY DEF PathInv, Early, Planning, Running, Ran, Ending, Ended, Fresh
<1>9. AttemptInv BY <1>1 DEF AttemptInv, Early, Planning, Running, Ran, Ended, Fresh
<1> QED BY <1>5, <1>6, <1>7, <1>8, <1>9 DEF GraphInv

(* Every step keeps it.                                                    *)
LEMMA GraphInvStep == ASSUME GraphInv, [GraphNext]_graphVars PROVE GraphInv'
<1>1. CASE GraphNext
  BY <1>1, TypesStep, CallsStep, BudgetStep, PathStep, AttemptStep DEF GraphInv, BudgetInv
<1>2. CASE UNCHANGED graphVars
  <2> USE <1>2 DEF graphVars
  <2>1. GraphTypes' BY DEF GraphInv, GraphTypes, Limit
  <2>2. CallsInv' BY DEF GraphInv, CallsInv, Fingerprint, Source, PlannedCall
  <2>3. BudgetInv' BY DEF GraphInv, BudgetInv, BudgetsHold, Limit
  <2>4. PathInv'
    <3>1. Unfit' = Unfit /\ Whole' = Whole /\ Aligned' = Aligned /\ AnyFailed' = AnyFailed
          /\ Supplied' = Supplied
      BY DEF Unfit, Whole, Aligned, AnyFailed, Supplied, ResultSet
    <3> QED BY <3>1 DEF GraphInv, PathInv
  <2>5. AttemptInv'
    <3>1. TerminalOutcome' = TerminalOutcome /\ Latest' = Latest BY DEF TerminalOutcome, AnyFailed, Latest
    <3> QED BY <3>1 DEF GraphInv, AttemptInv
  <2> QED BY <2>1, <2>2, <2>3, <2>4, <2>5 DEF GraphInv
<1> QED BY <1>1, <1>2

(* It implies the property.                                                *)
LEMMA GraphInvSound == ASSUME GraphInv PROVE RunIsSound
<1> USE DEF GraphInv, Early, Planning, Running, Ran, Ending, Ended
<1>1. CallsRunOnce BY DEF CallsInv, CallsRunOnce
<1>2. BudgetsHold BY DEF BudgetInv
<1>3. AttemptsInOrder BY DEF AttemptInv, AttemptsInOrder
<1>4. OutcomeIsTrue BY DEF AttemptInv, OutcomeIsTrue, Latest
<1>5. AnswersAreGrounded
  <2>1. SUFFICES ASSUME node = "answered", work.status = "ok", work.kind = "tool_plan"
        PROVE  /\ work.answer = "ok" /\ work.review = "passed"
               /\ attempts[Len(attempts)].status = "ok"
               /\ [i \in 1..Len(work.results) |-> work.results[i].id]
                    = [i \in 1..Len(work.plan.calls) |-> work.plan.calls[i].id]
               /\ ~AnyFailed /\ ToolsOf(work.plan.calls) \cap Mocked = {}
               /\ replan.plan.required \cup work.plan.required \subseteq UNION {r.yield : r \in ResultSet}
    BY DEF AnswersAreGrounded
  <2>2. Whole BY <2>1 DEF PathInv
  <2>3. attempts[Len(attempts)].status = "ok" BY <2>1 DEF AttemptInv, Latest
  <2>4. [i \in 1..Len(work.results) |-> work.results[i].id]
          = [i \in 1..Len(work.plan.calls) |-> work.plan.calls[i].id]
    BY <2>2 DEF Whole, Aligned
  <2> QED BY <2>2, <2>3, <2>4 DEF Whole, Supplied
<1> QED BY <1>1, <1>2, <1>3, <1>4, <1>5 DEF RunIsSound

(* Whatever the registry, the plans and the budgets: no call runs twice and *)
(* none is unpaid, no budget is overdrawn, attempts are finalized in order, *)
(* an answer from tools rests on every planned call and on all the evidence *)
(* the first plan asked for, and the caller is told what the last attempt   *)
(* came to (agentic/graph.py and its nodes).                               *)
THEOREM RunsAreSound == GraphSpec => []RunIsSound
<1>1. GraphInit => GraphInv BY GraphInvInit
<1>2. GraphInv /\ [GraphNext]_graphVars => GraphInv' BY GraphInvStep
<1>3. GraphInv => RunIsSound BY GraphInvSound
<1> QED BY <1>1, <1>2, <1>3, PTL DEF GraphSpec

-----------------------------------------------------------------------------
(* The process                                                             *)

(* The steps of the start and of the end at which a connection is open     *)
BeforeServices == {"services", "discovery", "runtime", "bus"}
Threads        == {"manager", "sweeper"}
Stopping       == {"stop_sweeper", "stop_manager", "await_runs", "mark_runs", "close_bus"}
Closing        == {"close_services", "close_redis", "close_sessions", "close_database"}

(* From which step to which each connection is open.                       *)
BusStages      == Threads \cup {"serving"} \cup Stopping
RedisStages    == BeforeServices \cup BusStages \cup {"close_services", "close_redis"}
SessionStages  == {"redis"} \cup RedisStages \cup {"close_sessions"}
DatabaseStages == {"sessions"} \cup SessionStages \cup {"close_database"}

(* Every step of a process.                                                *)
Stages ==
  {"require_recording", "catalog", "database"} \cup DatabaseStages \cup {"cleanup", "ended"}

(* What the variables of the process range over.                           *)
ProcessTypes ==
  /\ ValidSettings(settings) /\ lifeStage \in Stages
  /\ open \subseteq {"database", "sessions", "redis", "bus"}
  /\ working \subseteq {"poller", "listener", "sweeper", "refresh"}
  /\ executions \in [LifespanRuns ->
       {"none", "running", "cut", "ended", "stopped", "marked", "unmarked"}]
  /\ outcome \in {"clean", "failed", "skipped"}

(* What is open, unless the process failed to start or to close: then it   *)
(* is at its clean-up.                                                     *)
OpensInOrder ==
  /\ outcome # "clean" => lifeStage \in {"cleanup", "ended"}
  /\ lifeStage \in Threads \cup Stopping \cup {"close_redis"} => "redis" \in settings
  /\ outcome = "clean" =>
       /\ "database" \in open <=> lifeStage \in DatabaseStages
       /\ "sessions" \in open <=> lifeStage \in SessionStages
       /\ "redis" \in open <=> lifeStage \in RedisStages /\ "redis" \in settings
       /\ "bus" \in open <=> lifeStage \in BusStages /\ "redis" \in settings

(* When the work in the background may be under way                        *)
WorksInTime ==
  /\ "sweeper" \in working => lifeStage \in {"serving", "stop_sweeper"} /\ "bus" \in open
  /\ "listener" \in working =>
       /\ lifeStage \in {"sweeper", "serving", "stop_sweeper", "stop_manager", "await_runs"}
       /\ "bus" \in open
  /\ "refresh" \in working =>
       /\ "redis" \in open
       /\ \/ outcome = "clean" /\ lifeStage \in {"serving", "close_services"} \cup Stopping
          \/ outcome = "skipped"
  /\ "poller" \in working => lifeStage # "ended"
  /\ "homepage_recent_series" \in services => "redis" \in settings

(* ... and the runs                                                        *)
RunsInTime ==
  \A r \in LifespanRuns :
    /\ executions[r] # "none" =>
         /\ outcome # "failed"
         /\ lifeStage \in {"serving", "cleanup", "ended"} \cup Stopping \cup Closing
    /\ executions[r] = "running" =>
         lifeStage \in {"serving", "stop_sweeper", "stop_manager"} /\ "bus" \in open
    /\ executions[r] = "cut" => lifeStage = "await_runs"
    /\ executions[r] = "stopped" => lifeStage \in {"await_runs", "mark_runs"}

(* A runtime was composed before the process came to serve.                *)
Composed ==
  lifeStage \in {"bus", "serving"} \cup Threads => ~RegistryRefuses(settings, services)

(* The inductive invariant of the process.                                 *)
ProcessInv == ProcessTypes /\ OpensInOrder /\ WorksInTime /\ RunsInTime /\ Composed

(* It holds before the first step of the start.                            *)
LEMMA ProcessInitially == LifespanInit /\ ValidSettings(settings) => ProcessInv
BY DEF LifespanInit, ProcessInv, ProcessTypes, OpensInOrder, WorksInTime, RunsInTime, Composed,
       Stages, DatabaseStages, SessionStages, RedisStages, BusStages, BeforeServices, Threads,
       Stopping, Closing

(* What it means for the work, for the requests and for the end.           *)
LEMMA ProcessSound == ProcessInv => ProcessIsSound
<1> SUFFICES ASSUME ProcessInv PROVE ProcessIsSound
  OBVIOUS
<1> USE DEF ProcessInv, Stages, DatabaseStages, SessionStages, RedisStages, BusStages,
            BeforeServices, Threads, Stopping, Closing
<1>1. WorkFindsWhatItUses
  BY DEF WorkFindsWhatItUses, ProcessTypes, OpensInOrder, WorksInTime, RunsInTime
<1>2. EndsQuietly
  BY DEF EndsQuietly, ProcessTypes, OpensInOrder, WorksInTime, RunsInTime
<1>3. RequestsCanBeComposed
  <2> SUFFICES ASSUME lifeStage = "serving", ~RegistryRefuses(settings, services),
                      NEW tools, tools = RegisteredTools(settings, services)
      PROVE  /\ tools \subseteq BuiltinTools \cup services
             /\ "game_resolution" \in tools => {"match_search", "game_detail"} \subseteq tools
    BY DEF RequestsCanBeComposed, Composed
  <2>1. "game_resolution" \in settings =>
          /\ "opendota" \in settings
          /\ {"match_search", "game_resolution", "game_detail"} \subseteq services
    BY DEF RegistryRefuses, GameResolutionMisset
  <2>2. tools \subseteq BuiltinTools \cup services
    BY <2>1 DEF RegisteredTools
  <2>3. "game_resolution" \in tools => {"match_search", "game_detail"} \subseteq tools
    BY <2>1 DEF RegisteredTools, BuiltinTools
  <2> QED BY <2>2, <2>3
<1> QED BY <1>1, <1>2, <1>3 DEF ProcessIsSound

(* No step of the start, of the work or of the end breaks it.              *)
LEMMA ProcessStep ==
  ASSUME ProcessInv, LifespanNext \/ UNCHANGED lifespanVars
  PROVE  ProcessInv'
<1> USE DEF ProcessInv, Stages, DatabaseStages, SessionStages, RedisStages, BusStages,
            BeforeServices, Threads, Stopping, Closing,
            ProcessTypes, OpensInOrder, WorksInTime, RunsInTime, Composed,
            Reach, FailStart, Opened, Closed, Quietly, CloseConnection
<1>1. CASE RequireRecording
  BY <1>1 DEF RequireRecording
<1>2. CASE StartCatalog
  <2>1. ProcessTypes'
    BY <1>2 DEF StartCatalog
  <2>2. OpensInOrder'
    BY <1>2 DEF StartCatalog
  <2>3. WorksInTime'
    BY <1>2 DEF StartCatalog
  <2>4. RunsInTime'
    BY <1>2 DEF StartCatalog
  <2>5. Composed'
    BY <1>2 DEF StartCatalog
  <2> QED BY <2>1, <2>2, <2>3, <2>4, <2>5
<1>3. CASE OpenDatabase
  <2>1. ProcessTypes'
    BY <1>3 DEF OpenDatabase
  <2>2. OpensInOrder'
    BY <1>3 DEF OpenDatabase
  <2>3. WorksInTime'
    BY <1>3 DEF OpenDatabase
  <2>4. RunsInTime'
    BY <1>3 DEF OpenDatabase
  <2>5. Composed'
    BY <1>3 DEF OpenDatabase
  <2> QED BY <2>1, <2>2, <2>3, <2>4, <2>5
<1>4. CASE OpenSessions
  <2>1. ProcessTypes'
    BY <1>4 DEF OpenSessions
  <2>2. OpensInOrder'
    BY <1>4 DEF OpenSessions
  <2>3. WorksInTime'
    BY <1>4 DEF OpenSessions
  <2>4. RunsInTime'
    BY <1>4 DEF OpenSessions
  <2>5. Composed'
    BY <1>4 DEF OpenSessions
  <2> QED BY <2>1, <2>2, <2>3, <2>4, <2>5
<1>5. CASE OpenRedis
  <2>1. ProcessTypes'
    BY <1>5 DEF OpenRedis
  <2>2. OpensInOrder'
    BY <1>5 DEF OpenRedis
  <2>3. WorksInTime'
    BY <1>5 DEF OpenRedis
  <2>4. RunsInTime'
    BY <1>5 DEF OpenRedis
  <2>5. Composed'
    BY <1>5 DEF OpenRedis
  <2> QED BY <2>1, <2>2, <2>3, <2>4, <2>5
<1>6. CASE BuildServices
  <2>1. "homepage_recent_series" \in BuiltServices(settings) => "redis" \in settings
    BY DEF BuiltServices, ProvidedAlways
  <2> QED BY <1>6, <2>1 DEF BuildServices
<1>7. CASE DiscoverTools
  <2>1. ProcessTypes'
    BY <1>7 DEF DiscoverTools
  <2>2. OpensInOrder'
    BY <1>7 DEF DiscoverTools
  <2>3. WorksInTime'
    BY <1>7 DEF DiscoverTools
  <2>4. RunsInTime'
    BY <1>7 DEF DiscoverTools
  <2>5. Composed'
    BY <1>7 DEF DiscoverTools
  <2> QED BY <2>1, <2>2, <2>3, <2>4, <2>5
<1>8. CASE ComposeRuntime
  <2>1. ProcessTypes'
    BY <1>8 DEF ComposeRuntime
  <2>2. OpensInOrder'
    BY <1>8 DEF ComposeRuntime
  <2>3. WorksInTime'
    BY <1>8 DEF ComposeRuntime
  <2>4. RunsInTime'
    BY <1>8 DEF ComposeRuntime
  <2>5. Composed'
    BY <1>8 DEF ComposeRuntime
  <2> QED BY <2>1, <2>2, <2>3, <2>4, <2>5
<1>9. CASE OpenBus
  <2>1. ProcessTypes'
    BY <1>9 DEF OpenBus
  <2>2. OpensInOrder'
    BY <1>9 DEF OpenBus
  <2>3. WorksInTime'
    BY <1>9 DEF OpenBus
  <2>4. RunsInTime'
    BY <1>9 DEF OpenBus
  <2>5. Composed'
    BY <1>9 DEF OpenBus
  <2> QED BY <2>1, <2>2, <2>3, <2>4, <2>5
<1>10. CASE StartManager
  <2>1. ProcessTypes'
    BY <1>10 DEF StartManager
  <2>2. OpensInOrder'
    BY <1>10 DEF StartManager
  <2>3. WorksInTime'
    BY <1>10 DEF StartManager
  <2>4. RunsInTime'
    BY <1>10 DEF StartManager
  <2>5. Composed'
    BY <1>10 DEF StartManager
  <2> QED BY <2>1, <2>2, <2>3, <2>4, <2>5
<1>11. CASE StartSweeper
  <2>1. ProcessTypes'
    BY <1>11 DEF StartSweeper
  <2>2. OpensInOrder'
    BY <1>11 DEF StartSweeper
  <2>3. WorksInTime'
    BY <1>11 DEF StartSweeper
  <2>4. RunsInTime'
    BY <1>11 DEF StartSweeper
  <2>5. Composed'
    BY <1>11 DEF StartSweeper
  <2> QED BY <2>1, <2>2, <2>3, <2>4, <2>5
<1>12. CASE StopServing
  <2>1. ProcessTypes'
    BY <1>12 DEF StopServing
  <2>2. OpensInOrder'
    BY <1>12 DEF StopServing
  <2>3. WorksInTime'
    BY <1>12 DEF StopServing
  <2>4. RunsInTime'
    BY <1>12 DEF StopServing
  <2>5. Composed'
    BY <1>12 DEF StopServing
  <2> QED BY <2>1, <2>2, <2>3, <2>4, <2>5
<1>13. CASE StopSweeper
  <2>1. ProcessTypes'
    BY <1>13 DEF StopSweeper
  <2>2. OpensInOrder'
    BY <1>13 DEF StopSweeper
  <2>3. WorksInTime'
    BY <1>13 DEF StopSweeper
  <2>4. RunsInTime'
    BY <1>13 DEF StopSweeper
  <2>5. Composed'
    BY <1>13 DEF StopSweeper
  <2> QED BY <2>1, <2>2, <2>3, <2>4, <2>5
<1>14. CASE CancelRuns
  <2>1. ProcessTypes'
    BY <1>14 DEF CancelRuns
  <2>2. OpensInOrder'
    BY <1>14 DEF CancelRuns
  <2>3. WorksInTime'
    BY <1>14 DEF CancelRuns
  <2>4. RunsInTime'
    BY <1>14 DEF CancelRuns
  <2>5. Composed'
    BY <1>14 DEF CancelRuns
  <2> QED BY <2>1, <2>2, <2>3, <2>4, <2>5
<1>15. CASE AwaitRuns
  <2>1. ProcessTypes'
    BY <1>15 DEF AwaitRuns
  <2>2. OpensInOrder'
    BY <1>15 DEF AwaitRuns
  <2>3. WorksInTime'
    BY <1>15 DEF AwaitRuns
  <2>4. RunsInTime'
    BY <1>15 DEF AwaitRuns
  <2>5. Composed'
    BY <1>15 DEF AwaitRuns
  <2> QED BY <2>1, <2>2, <2>3, <2>4, <2>5
<1>16. CASE ManagerStopped
  <2>1. ProcessTypes'
    BY <1>16 DEF ManagerStopped
  <2>2. OpensInOrder'
    BY <1>16 DEF ManagerStopped
  <2>3. WorksInTime'
    BY <1>16 DEF ManagerStopped
  <2>4. RunsInTime'
    BY <1>16 DEF ManagerStopped
  <2>5. Composed'
    BY <1>16 DEF ManagerStopped
  <2> QED BY <2>1, <2>2, <2>3, <2>4, <2>5
<1>17. CASE CloseBus
  <2>1. ProcessTypes'
    BY <1>17 DEF CloseBus
  <2>2. OpensInOrder'
    BY <1>17 DEF CloseBus
  <2>3. WorksInTime'
    BY <1>17 DEF CloseBus
  <2>4. RunsInTime'
    BY <1>17 DEF CloseBus
  <2>5. Composed'
    BY <1>17 DEF CloseBus
  <2> QED BY <2>1, <2>2, <2>3, <2>4, <2>5
<1>18. CASE CloseServices
  <2>1. ProcessTypes'
    BY <1>18 DEF CloseServices
  <2>2. OpensInOrder'
    BY <1>18 DEF CloseServices
  <2>3. WorksInTime'
    BY <1>18 DEF CloseServices
  <2>4. RunsInTime'
    BY <1>18 DEF CloseServices
  <2>5. Composed'
    BY <1>18 DEF CloseServices
  <2> QED BY <2>1, <2>2, <2>3, <2>4, <2>5
<1>19. CASE CloseRedis
  <2>1. ProcessTypes'
    BY <1>19 DEF CloseRedis
  <2>2. OpensInOrder'
    BY <1>19 DEF CloseRedis
  <2>3. WorksInTime'
    BY <1>19 DEF CloseRedis
  <2>4. RunsInTime'
    BY <1>19 DEF CloseRedis
  <2>5. Composed'
    BY <1>19 DEF CloseRedis
  <2> QED BY <2>1, <2>2, <2>3, <2>4, <2>5
<1>20. CASE CloseSessions
  <2>1. lifeStage = "close_sessions" /\ (lifeStage' = "close_database" \/ lifeStage' = "cleanup")
    BY <1>20 DEF CloseSessions
  <2>2. /\ UNCHANGED <<settings, executions, services, working>>
        /\ \/ open' = open \ {"sessions"} /\ lifeStage' = "close_database" /\ outcome' = outcome
           \/ open' = open /\ lifeStage' = "cleanup" /\ outcome' = "skipped"
    BY <1>20, <2>1 DEF CloseSessions
  <2>3. CASE open' = open /\ lifeStage' = "cleanup" /\ outcome' = "skipped"
    BY <2>1, <2>2, <2>3
  <2>4. CASE open' = open \ {"sessions"} /\ lifeStage' = "close_database" /\ outcome' = outcome
    <3>1. ProcessTypes'
      BY <2>1, <2>2, <2>4
    <3>2. OpensInOrder'
      BY <2>1, <2>2, <2>4
    <3>3. WorksInTime'
      BY <2>1, <2>2, <2>4
    <3>4. RunsInTime'
      BY <2>1, <2>2, <2>4
    <3> QED BY <2>1, <2>2, <2>4, <3>1, <3>2, <3>3, <3>4
  <2> QED BY <2>2, <2>3, <2>4
<1>21. CASE CloseDatabase
  <2>1. ProcessTypes'
    BY <1>21 DEF CloseDatabase
  <2>2. OpensInOrder'
    BY <1>21 DEF CloseDatabase
  <2>3. WorksInTime'
    BY <1>21 DEF CloseDatabase
  <2>4. RunsInTime'
    BY <1>21 DEF CloseDatabase
  <2>5. Composed'
    BY <1>21 DEF CloseDatabase
  <2> QED BY <2>1, <2>2, <2>3, <2>4, <2>5
<1>22. CASE StopCatalog
  BY <1>22 DEF StopCatalog
<1>23. CASE BeginRefresh
  <2>1. ProcessTypes'
    BY <1>23 DEF BeginRefresh
  <2>2. OpensInOrder'
    BY <1>23 DEF BeginRefresh
  <2>3. WorksInTime'
    BY <1>23 DEF BeginRefresh
  <2>4. RunsInTime'
    BY <1>23 DEF BeginRefresh
  <2>5. Composed'
    BY <1>23 DEF BeginRefresh
  <2> QED BY <2>1, <2>2, <2>3, <2>4, <2>5
<1>24. CASE EndRefresh
  <2>1. ProcessTypes'
    BY <1>24 DEF EndRefresh
  <2>2. OpensInOrder'
    BY <1>24 DEF EndRefresh
  <2>3. WorksInTime'
    BY <1>24 DEF EndRefresh
  <2>4. RunsInTime'
    BY <1>24 DEF EndRefresh
  <2>5. Composed'
    BY <1>24 DEF EndRefresh
  <2> QED BY <2>1, <2>2, <2>3, <2>4, <2>5
<1>25. ASSUME NEW r \in LifespanRuns, SubmitRun(r)
       PROVE  ProcessInv'
  BY <1>25 DEF SubmitRun
<1>26. ASSUME NEW r \in LifespanRuns, RunEnds(r)
       PROVE  ProcessInv'
  BY <1>26 DEF RunEnds
<1>27. ASSUME NEW r \in LifespanRuns, MarkRun(r)
       PROVE  ProcessInv'
  BY <1>27 DEF MarkRun
<1>28. ASSUME NEW c \in {"poller", "listener", "sweeper"}, LoopDies(c)
       PROVE  ProcessInv'
  BY <1>28 DEF LoopDies
<1>29. CASE UNCHANGED lifespanVars
  BY <1>29 DEF lifespanVars
<1> QED
  BY <1>1, <1>2, <1>3, <1>4, <1>5, <1>6, <1>7, <1>8, <1>9, <1>10, <1>11, <1>12, <1>13, <1>14,
     <1>15, <1>16, <1>17, <1>18, <1>19, <1>20, <1>21, <1>22, <1>23, <1>24, <1>25, <1>26, <1>27,
     <1>28, <1>29
  DEF LifespanNext, StartStep, StopStep

-----------------------------------------------------------------------------
(* The match resolution                                                    *)

(* What was read of the leagues and their lists                            *)
Fit == values[<<"leagues">>]
AllListed == UNION {values[<<"lists", l>>] : l \in Fit}

(* A phase begins when the policy and the rest of the budget admit it.     *)
ListsFit == Cardinality(Fit) <= MaxLeagues /\ Cardinality(Fit) <= MaxRequests - 2
DetailsFit ==
  /\ Cardinality(AllListed) <= MaxDetails
  /\ Cardinality(AllListed) <= MaxRequests - 2 - Cardinality(Fit)

(* The reads of the phases that are whole.                                 *)
ListsKept == \A l \in Fit : IsKept(<<"lists", l>>)
DetailsKept == \A g \in AllListed : IsKept(<<"details", g>>)

(* The candidates that the decision calls so                               *)
WithStatus(status) == {g \in AllListed : Assessment(g) = status}

(* ... and the reason it gives: the first rule that fits.                  *)
FinalReason ==
  IF Cardinality(WithStatus("accepted")) > 1 THEN "ambiguous"
  ELSE IF WithStatus("unresolved") # {} THEN "evidence_insufficient"
  ELSE IF AllListed = {} THEN "no_candidates"
  ELSE IF WithStatus("accepted") = {} THEN "no_acceptable_candidate"
  ELSE IF ~Match.identified THEN "evidence_insufficient"
  ELSE "resolved"

(* A reply that names no game, and the one the decision comes to.          *)
Plain(reason) == [reason |-> reason, game |-> {}]
FinalReply ==
  [reason |-> FinalReason, game |-> IF FinalReason = "resolved" THEN WithStatus("accepted") ELSE {}]

(* A reply that follows from what has been read, of the details of games,  *)
DetailsTell(r) ==
  /\ ListsKept
  /\ IF ~DetailsFit THEN r = Plain("budget_exhausted") ELSE DetailsKept /\ r = FinalReply

(* ... of what the leagues and their lists come to;                        *)
ListsTell(r) ==
  /\ IsKept(<<"leagues">>)
  /\ IF ~Match.searchable THEN r = Plain("insufficient_context")
     ELSE IF Fit = {} THEN r = Plain("no_league_candidates")
     ELSE IF ~ListsFit THEN r = Plain("budget_exhausted")
     ELSE DetailsTell(r)

(* ... and to the whole call.                                              *)
IsAnswer(r) ==
  /\ IsKept(<<"match">>)
  /\ IF Match.target # "ready" THEN r = Plain(Match.target)
     ELSE IF MaxRequests = 1 THEN r = Plain("budget_exhausted")
     ELSE ListsTell(r)

(* What is kept under which key                                            *)
ValuesInv ==
  /\ IsKept(<<"match">>) => Match \in Matches \cup {Absent}
  /\ IsKept(<<"leagues">>) => Fit \in SUBSET Leagues
  /\ \A l \in Leagues : IsKept(<<"lists", l>>) => values[<<"lists", l>>] \in SUBSET Games
  /\ \A g \in Games : IsKept(<<"details", g>>) => values[<<"details", g>>] \in Records

(* What a call may come to, the answers among the replies, and what is     *)
(* known of them.                                                          *)
Reasons ==
  TargetChecks \cup {"match_not_found", "budget_exhausted", "insufficient_context",
                     "no_league_candidates", "ambiguous", "evidence_insufficient", "no_candidates",
                     "no_acceptable_candidate", "resolved", "failed"}

Answered == {replies[i] : i \in Given}

RepliesInv ==
  /\ replies \in Seq([reason : Reasons, game : SUBSET Games])
  /\ \A r \in Answered : IsAnswer(r)

(* What the variables of a call range over.                                *)
ResolutionTypes ==
  /\ stage \in {"idle", "match", "leagues", "lists", "details"}
  /\ started \in Nat /\ resting \in Nat /\ broken \in BOOLEAN /\ IsFiniteSet(reading)

(* Only the two phases have workers, and something to share                *)
NoWorkers == scope = NoScope /\ todo = <<>> /\ resting = 0 /\ reading = {} /\ broken = FALSE

(* What a call has read when it has come so far                            *)
HasMatch   == IsKept(<<"match">>) /\ Match.target = "ready"
HasLeagues == /\ HasMatch /\ MaxRequests > 1 /\ IsKept(<<"leagues">>)
              /\ Match.searchable /\ Fit # {} /\ ListsFit
HasLists   == HasLeagues /\ ListsKept /\ DetailsFit

(* A call has done what comes before its step.                             *)
ComesFar ==
  /\ stage = "match" => started = 0
  /\ stage = "leagues" => HasMatch /\ started = 1
  /\ stage = "lists" => HasLeagues
  /\ stage = "details" => HasLists

(* The identities of the phase, and the requests made before it            *)
Ids == IF stage = "lists" THEN Fit ELSE AllListed
RequestsBefore == IF stage = "lists" THEN 2 ELSE 2 + Cardinality(Fit)

(* A sequence without repetition; one that holds all of a set.             *)
Distinct(s) == \A i, j \in 1..Len(s) : s[i] = s[j] => i = j
Lists(s, S) == \A x \in S : \E i \in 1..Len(s) : s[i] = x

(* A worker reads what nobody has, and no other worker reads               *)
WorkIsShared ==
  /\ scope \in Seq(Ids) /\ Distinct(scope) /\ Lists(scope, Ids) /\ Len(scope) = Cardinality(Ids)
  /\ todo \in Seq(Ids) /\ Distinct(todo) /\ reading \subseteq Ids
  /\ \A i \in 1..Len(todo) : todo[i] \notin reading
  /\ \A id \in reading : ~IsKept(Key(id))
  /\ ~broken => \A id \in Ids : IsKept(Key(id)) \/ id \in reading \/ Lists(todo, {id})
  /\ started + Len(todo) <= RequestsBefore + Len(scope)
  /\ ~broken => started + Len(todo) = RequestsBefore + Len(scope)

(* What holds of the call under way.                                       *)
CallInv ==
  /\ ResolutionTypes /\ ComesFar /\ PhasesFit
  /\ IF InPhase THEN WorkIsShared ELSE NoWorkers

(* The inductive invariant of the match resolution.                        *)
ResolutionInv == ValuesInv /\ RepliesInv /\ CallInv

(* Numbers have a least one.                                               *)
LEMMA LeastNumber ==
  ASSUME NEW T \in SUBSET Nat, T # {}
  PROVE  \E m \in T : \A k \in T : m <= k
<1>1. PICK m \in T : \A k \in T : ~(<<k, m>> \in OpToRel(<, Nat))
  BY NatLessThanWellFounded, WFMin
<1>2. \A k \in T : k < m => <<k, m>> \in OpToRel(<, Nat)
  BY DEF OpToRel
<1>3. \A k \in T : ~(k < m)
  BY <1>1, <1>2
<1>4. \A k \in T : k \in Nat /\ m \in Nat
  OBVIOUS
<1>5. \A k \in T : m <= k
  BY ONLY <1>3, <1>4
<1> QED BY <1>5

(* Keys of different reads differ.                                         *)
LEMMA KeysDiffer ==
  /\ <<"match">> # <<"leagues">>
  /\ \A p, x : <<p, x>> # <<"match">> /\ <<p, x>> # <<"leagues">>
  /\ \A x, y : <<"lists", x>> # <<"details", y>>
  /\ \A p, x, y : <<p, x>> = <<p, y>> => x = y
<1>1. \A p, x : <<p, x>> # <<"match">> /\ <<p, x>> # <<"leagues">>
  <2> SUFFICES ASSUME NEW p, NEW x PROVE <<p, x>> # <<"match">> /\ <<p, x>> # <<"leagues">>
    OBVIOUS
  <2>1. Len(<<p, x>>) = 2 /\ Len(<<"match">>) = 1 /\ Len(<<"leagues">>) = 1
    OBVIOUS
  <2> QED BY <2>1
<1>2. <<"match">> # <<"leagues">>
  <2>1. <<"match">>[1] # <<"leagues">>[1]
    OBVIOUS
  <2> QED BY <2>1
<1>3. \A x, y : <<"lists", x>> # <<"details", y>>
  OBVIOUS
<1>4. \A p, x, y : <<p, x>> = <<p, y>> => x = y
  OBVIOUS
<1> QED BY <1>1, <1>2, <1>3, <1>4

(* Nothing that was read is forgotten.                                     *)
Remembers == \A k \in DOMAIN values : k \in DOMAIN values' /\ values'[k] = values[k]

(* A read that is kept under a new key, or as it was, forgets nothing.     *)
LEMMA KeepRemembers ==
  ASSUME NEW key, NEW value, Keep(key, value), IsKept(key) => value = values[key]
  PROVE  /\ Remembers /\ values'[key] = value /\ DOMAIN values' = DOMAIN values \cup {key}
BY DEF Keep, IsKept, Remembers

(* What follows from the cache follows from it when it has grown: every    *)
(* read an answer rests on is kept.                                        *)
LEMMA AnswerStays ==
  ASSUME Remembers, NEW r, IsAnswer(r)
  PROVE  IsAnswer(r)'
<1>1. IsKept(<<"match">>)' /\ Match' = Match
  BY DEF IsAnswer, IsKept, Match, Remembers
<1>2. CASE Match.target # "ready"
  BY <1>1, <1>2 DEF IsAnswer, Plain
<1>3. CASE Match.target = "ready" /\ MaxRequests = 1
  BY <1>1, <1>3 DEF IsAnswer, Plain
<1>4. CASE Match.target = "ready" /\ MaxRequests # 1
  <2>1. ListsTell(r)
    BY <1>4 DEF IsAnswer
  <2>2. IsKept(<<"leagues">>)' /\ Fit' = Fit
    BY <2>1 DEF ListsTell, IsKept, Fit, Remembers
  <2>3. CASE ~Match.searchable \/ Fit = {} \/ ~ListsFit
    <3>1. ListsTell(r)'
      BY <1>1, <2>1, <2>2, <2>3 DEF ListsTell, Plain, ListsFit
    <3> QED BY <1>1, <1>4, <3>1 DEF IsAnswer
  <2>4. CASE Match.searchable /\ Fit # {} /\ ListsFit
    <3>1. DetailsTell(r)
      BY <2>1, <2>4 DEF ListsTell
    <3>2. ListsKept' /\ AllListed' = AllListed
      BY <3>1, <2>2 DEF DetailsTell, ListsKept, AllListed, IsKept, Remembers
    <3>3. DetailsFit' = DetailsFit
      BY <3>2, <2>2 DEF DetailsFit
    <3>4. CASE ~DetailsFit
      BY <3>1, <3>2, <3>3, <3>4, <2>2, <2>4, <1>1, <1>4
      DEF DetailsTell, ListsTell, IsAnswer, Plain, ListsFit
    <3>5. CASE DetailsFit
      <4>1. DetailsKept
        BY <3>1, <3>5 DEF DetailsTell
      <4>2. DetailsKept' /\ \A g \in AllListed : Assessment(g)' = Assessment(g)
        BY <4>1, <3>2, <1>1
        DEF DetailsKept, IsKept, Remembers, Assessment, Supported, Conflicting, WinnerIs
      <4>3. \A status : WithStatus(status)' = WithStatus(status)
        BY <4>2, <3>2 DEF WithStatus
      <4>4. FinalReply' = FinalReply
        BY <4>3, <3>2, <1>1 DEF FinalReply, FinalReason
      <4> QED
        BY <4>2, <4>4, <3>1, <3>2, <3>3, <3>5, <2>2, <2>4, <1>1, <1>4
        DEF DetailsTell, ListsTell, IsAnswer, ListsFit
    <3> QED BY <3>4, <3>5
  <2> QED BY <2>3, <2>4
<1> QED BY <1>2, <1>3, <1>4

(* So the answers given stay true, and a call that fails adds none.        *)
LEMMA RepliesStay ==
  ASSUME RepliesInv, Remembers,
         \/ UNCHANGED replies
         \/ \E r \in [reason : Reasons, game : SUBSET Games] :
              replies' = Append(replies, r) /\ (r.reason # "failed" => IsAnswer(r)')
  PROVE  RepliesInv'
<1>1. \A r : IsAnswer(r) => IsAnswer(r)'
  BY AnswerStays
<1>2. CASE UNCHANGED replies
  <2>1. Answered' = Answered
    BY <1>2 DEF Answered, Given
  <2> QED BY <1>1, <1>2, <2>1 DEF RepliesInv
<1>3. ASSUME NEW r \in [reason : Reasons, game : SUBSET Games],
             replies' = Append(replies, r), r.reason # "failed" => IsAnswer(r)'
      PROVE  RepliesInv'
  <2>1. /\ replies' \in Seq([reason : Reasons, game : SUBSET Games])
        /\ Len(replies') = Len(replies) + 1 /\ replies'[Len(replies) + 1] = r
        /\ Len(replies) \in Nat /\ \A i \in 1..Len(replies) : replies'[i] = replies[i]
    BY <1>3 DEF RepliesInv
  <2>2. \A s \in Answered' : s \in Answered \/ (s = r /\ r.reason # "failed")
    <3> SUFFICES ASSUME NEW i \in 1..(Len(replies) + 1), replies'[i].reason # "failed"
        PROVE  replies'[i] \in Answered \/ (replies'[i] = r /\ r.reason # "failed")
      BY <2>1 DEF Answered, Given
    <3>1. CASE i = Len(replies) + 1
      BY <2>1, <3>1
    <3>2. CASE i # Len(replies) + 1
      <4>1. i \in 1..Len(replies)
        BY <2>1, <3>2
      <4> QED BY <2>1, <4>1 DEF Answered, Given
    <3> QED BY <3>1, <3>2
  <2> QED BY <1>1, <1>3, <2>1, <2>2 DEF RepliesInv
<1> QED BY <1>2, <1>3

(* The sequence of a finite set has each of its members once.              *)
LEMMA Enumerated ==
  ASSUME NEW S, IsFiniteSet(S), NEW s, s = SetToSeq(S)
  PROVE  s \in Seq(S) /\ Len(s) = Cardinality(S) /\ Distinct(s) /\ Lists(s, S)
<1>1. Cardinality(S) \in Nat /\ ExistsBijection(1..Cardinality(S), S)
  BY FS_CardinalityType
<1>2. PICK f \in [1..Cardinality(S) -> S] : IsInjective(f)
  BY <1>1 DEF ExistsBijection, Bijection, Injection
<1>3. s \in [1..Cardinality(S) -> S] /\ IsInjective(s)
  BY <1>2 DEF SetToSeq
<1>4. s \in Seq(S) /\ Len(s) = Cardinality(S)
  BY <1>1, <1>3
<1>5. Distinct(s)
  BY <1>3, <1>4 DEF Distinct, IsInjective
<1>6. s \in Injection(1..Cardinality(S), S)
  BY <1>3 DEF Injection
<1>7. Cardinality(1..Cardinality(S)) = Cardinality(S)
  BY <1>1, FS_Interval
<1>8. s \in Surjection(1..Cardinality(S), S)
  BY <1>6, <1>7, FS_Injection
<1>9. Lists(s, S)
  BY <1>8, <1>4 DEF Surjection, Lists
<1> QED BY <1>4, <1>5, <1>9

(* A worker finds the first identity that is not cached.                   *)
LEMMA HitsCount ==
  ASSUME NEW n \in Nat, n = Len(todo)
  PROVE  /\ Hits \in 0..n
         /\ \A i \in 1..Hits : IsKept(Key(todo[i]))
         /\ Hits < n => ~IsKept(Key(todo[Hits + 1]))
<1> DEFINE Fits(h) == /\ \A i \in 1..h : IsKept(Key(todo[i]))
                      /\ h < Len(todo) => ~IsKept(Key(todo[h + 1]))
<1>1. \E h \in 0..Len(todo) : Fits(h)
  <2> DEFINE Misses == {i \in 1..n : ~IsKept(Key(todo[i]))}
  <2>1. CASE Misses = {}
    <3>1. Fits(n)
      BY <2>1
    <3> QED BY <3>1
  <2>2. CASE Misses # {}
    <3>0. Misses \in SUBSET Nat
      OBVIOUS
    <3> HIDE DEF Misses
    <3>1. PICK m \in Misses : \A k \in Misses : m <= k
      BY <2>2, <3>0, LeastNumber
    <3> USE DEF Misses
    <3>2. m \in 1..n /\ ~IsKept(Key(todo[m]))
      OBVIOUS
    <3>3. \A i \in 1..(m - 1) : IsKept(Key(todo[i]))
      <4> SUFFICES ASSUME NEW i \in 1..(m - 1), ~IsKept(Key(todo[i])) PROVE FALSE
        OBVIOUS
      <4>1. i \in 1..n
        BY <3>2
      <4>2. m <= i
        BY <3>1, <4>1
      <4> QED BY <3>2, <4>2
    <3>4. m - 1 \in 0..Len(todo) /\ (m - 1) + 1 = m
      BY <3>2
    <3> HIDE DEF Misses
    <3>5. Fits(m - 1)
      BY <3>2, <3>3, <3>4
    <3> QED BY <3>4, <3>5
  <2> QED BY <2>1, <2>2
<1>2. Hits = CHOOSE h \in 0..Len(todo) : Fits(h)
  BY DEF Hits
<1>3. Hits \in 0..Len(todo) /\ Fits(Hits)
  <2> HIDE DEF Fits
  <2> QED BY <1>1, <1>2
<1> QED BY <1>3

(* It holds before the first call.                                         *)
LEMMA ResolutionInitially == ResolutionInit => ResolutionInv
<1> SUFFICES ASSUME ResolutionInit PROVE ResolutionInv
  OBVIOUS
<1>1. \A k : ~IsKept(k)
  BY DEF ResolutionInit, IsKept
<1>2. ValuesInv
  BY <1>1 DEF ValuesInv
<1>3. RepliesInv
  BY DEF ResolutionInit, RepliesInv, Answered, Given
<1>4. IsFiniteSet({}) /\ Cardinality({}) = 0
  BY FS_EmptySet
<1>5. MaxRequests \in Nat /\ MaxConcurrency \in Nat /\ Len(<<>>) = 0
  BY ResolutionAssumption
<1>6. PhasesFit
  BY <1>4, <1>5 DEF ResolutionInit, PhasesFit
<1>7. CallInv
  BY <1>4, <1>6 DEF ResolutionInit, CallInv, ResolutionTypes, ComesFar, InPhase, NoWorkers
<1> QED BY <1>2, <1>3, <1>7 DEF ResolutionInv

(* A call that is over has no workers.                                     *)
LEMMA CallEnds ==
  ASSUME stage' = "idle", Rest, started' \in Nat, started' <= MaxRequests
  PROVE  CallInv'
<1>1. IsFiniteSet({}) /\ Cardinality({}) = 0
  BY FS_EmptySet
<1>2. MaxRequests \in Nat /\ MaxConcurrency \in Nat /\ Len(<<>>) = 0
  BY ResolutionAssumption
<1>3. PhasesFit'
  <2>1. Len(todo') = 0 /\ Cardinality(reading') = 0 /\ resting' = 0
    BY <1>1, <1>2 DEF Rest
  <2>2. /\ \A a, b \in Nat : a <= b => a + 0 <= b
        /\ \A b \in Nat : 0 + 0 <= b
    OBVIOUS
  <2>4. started' + Len(todo') <= MaxRequests
    BY ONLY <1>2, <2>1, <2>2, started' \in Nat, started' <= MaxRequests, Zenon
  <2>5. Cardinality(reading') + resting' <= MaxConcurrency
    BY ONLY <1>2, <2>1, <2>2, Zenon
  <2> QED BY <2>4, <2>5 DEF PhasesFit
<1> QED
  BY <1>1, <1>3 DEF CallInv, ResolutionTypes, ComesFar, InPhase, NoWorkers, Rest, NoScope

(* A call that replies is over, and its reply follows from the cache.      *)
LEMMA Replied ==
  ASSUME RepliesInv, Remembers, NEW reason \in Reasons, Reply(reason),
         reason = "failed" \/ IsAnswer(Plain(reason))',
         started' \in Nat, started' <= MaxRequests
  PROVE  RepliesInv' /\ CallInv'
<1>1. /\ Plain(reason) \in [reason : Reasons, game : SUBSET Games]
      /\ Plain(reason).reason = reason
      /\ replies' = Append(replies, Plain(reason)) /\ stage' = "idle" /\ Rest
  BY DEF Plain, Reply
<1>2. CallInv'
  BY <1>1, CallEnds
<1>3. RepliesInv'
  BY <1>1, RepliesStay
<1> QED BY <1>2, <1>3

(* What the kept match and the other kept answers may be                   *)
LEMMA MatchTyped ==
  ASSUME ValuesInv, IsKept(<<"match">>)
  PROVE  /\ Match.target \in Reasons
         /\ Match.target \notin {"resolved", "no_candidates", "failed"}
         /\ Match.target = "ready" =>
              /\ Match.searchable \in BOOLEAN /\ Match.identified \in BOOLEAN
              /\ Match.winner \in BOOLEAN
<1>1. PICK m \in Matches \cup {Absent} : Match = m
  BY DEF ValuesInv
<1>2. m.target \in TargetChecks \cup {"match_not_found"}
  BY ResolutionAssumption DEF Absent
<1>3. ASSUME m.target = "ready"
      PROVE  {m.searchable, m.identified, m.winner} \subseteq BOOLEAN
  <2>1. m # Absent
    BY <1>3 DEF Absent
  <2> QED BY <1>3, <2>1, ResolutionAssumption
<1>4. \A x \in TargetChecks \cup {"match_not_found"} :
        x \in Reasons /\ x # "resolved" /\ x # "no_candidates" /\ x # "failed"
  BY DEF TargetChecks, Reasons
<1>5. Match.target \in Reasons /\ Match.target \notin {"resolved", "no_candidates", "failed"}
  BY <1>1, <1>2, <1>4
<1>6. ASSUME Match.target = "ready"
      PROVE  /\ Match.searchable \in BOOLEAN /\ Match.identified \in BOOLEAN
             /\ Match.winner \in BOOLEAN
  BY <1>1, <1>3, <1>6
<1> QED BY <1>5, <1>6

(* What was read of the leagues and the lists is finite.                   *)
LEMMA FiniteReads ==
  ASSUME ValuesInv, IsKept(<<"leagues">>)
  PROVE  /\ Fit \subseteq Leagues /\ IsFiniteSet(Fit) /\ Cardinality(Fit) \in Nat
         /\ ListsKept =>
              AllListed \subseteq Games /\ IsFiniteSet(AllListed) /\ Cardinality(AllListed) \in Nat
<1>1. Fit \subseteq Leagues /\ IsFiniteSet(Fit) /\ Cardinality(Fit) \in Nat
  BY ResolutionAssumption, FS_Subset, FS_CardinalityType DEF ValuesInv
<1>2. ASSUME ListsKept PROVE AllListed \subseteq Games
  BY <1>1, <1>2 DEF ValuesInv, ListsKept, AllListed
<1>3. ASSUME AllListed \subseteq Games
      PROVE  IsFiniteSet(AllListed) /\ Cardinality(AllListed) \in Nat
  BY <1>3, ResolutionAssumption, FS_Subset, FS_CardinalityType
<1> QED BY <1>1, <1>2, <1>3

(* A phase begins with all of its identities to share.                     *)
LEMMA PhaseBegins ==
  ASSUME NEW S, IsFiniteSet(S), NEW r \in Nat, started' = r, r <= MaxRequests, broken = FALSE,
         NEW name \in {"lists", "details"}, BeginPhase(name, SetToSeq(S), r),
         Cardinality(S) <= MaxRequests - r,
         stage' = name => Ids' = S /\ RequestsBefore' = r
  PROVE  /\ stage' = name /\ WorkIsShared' /\ PhasesFit' /\ ResolutionTypes'
         /\ UNCHANGED replies
<1> DEFINE s == SetToSeq(S)
<1>1. /\ s \in Seq(S) /\ Len(s) = Cardinality(S) /\ Distinct(s) /\ Lists(s, S)
      /\ Cardinality(S) \in Nat
  BY Enumerated, FS_CardinalityType
<1> HIDE DEF s
<1>2. PICK n \in Nat : n = Len(s) /\ n <= MaxRequests - r
  BY <1>1
<1>3. MaxRequests \in Nat /\ MaxConcurrency \in Nat
  BY ResolutionAssumption
<1>4. /\ stage' = name /\ scope' = s /\ todo' = s /\ reading' = {}
      /\ broken' = FALSE /\ UNCHANGED replies
      /\ resting' = IF n < MaxConcurrency THEN n ELSE MaxConcurrency
  BY <1>2, <1>3 DEF BeginPhase, s
<1>5. resting' \in Nat /\ resting' <= MaxConcurrency
  BY <1>2, <1>3, <1>4
<1>6. IsFiniteSet({}) /\ Cardinality({}) = 0
  BY FS_EmptySet
<1>7. ResolutionTypes'
  BY <1>4, <1>5, <1>6 DEF ResolutionTypes
<1>8. PhasesFit'
  BY <1>2, <1>3, <1>4, <1>5, <1>6 DEF PhasesFit
<1>9. Ids' = S /\ RequestsBefore' = r
  BY <1>4
<1>10. /\ todo' \in Seq(Ids') /\ Distinct(todo)' /\ Distinct(scope)' /\ Lists(scope, Ids)'
       /\ Len(scope') = Cardinality(Ids')
       /\ \A id \in Ids' : Lists(todo', {id})
  BY <1>1, <1>4, <1>9 DEF Distinct, Lists
<1>11. started' + Len(todo') = RequestsBefore' + Len(scope')
  BY <1>4, <1>9, <1>2
<1>12. started' + Len(todo') <= RequestsBefore' + Len(scope')
  BY <1>4, <1>9, <1>2
<1>13. WorkIsShared'
  BY <1>4, <1>10, <1>11, <1>12 DEF WorkIsShared, Lists
<1> QED BY <1>4, <1>7, <1>8, <1>13

(* The match is read, or found in the cache.                               *)
LEMMA MatchRead ==
  ASSUME ResolutionInv, ReadMatch
  PROVE  ResolutionInv'
<1>1. PICK match \in SourceSays(<<"match">>, Matches \cup {Absent}) :
        /\ Keep(<<"match">>, match)
        /\ IF match.target # "ready"
           THEN Reply(match.target)
           ELSE stage' = "leagues" /\ UNCHANGED <<scope, todo, resting, reading, broken, replies>>
  BY DEF ReadMatch
<1>2. /\ match \in Matches \cup {Absent}
      /\ IsKept(<<"match">>) => match = values[<<"match">>]
  BY <1>1 DEF SourceSays, ResolutionInv, ValuesInv, Match
<1>3. /\ Remembers /\ values'[<<"match">>] = match
      /\ DOMAIN values' = DOMAIN values \cup {<<"match">>}
  BY <1>1, <1>2, KeepRemembers
<1>4. stage = "match" /\ started = 0 /\ started' = 1 /\ ~InPhase /\ NoWorkers
  BY DEF ReadMatch, ResolutionInv, CallInv, ComesFar, InPhase
<1>5. IsKept(<<"match">>)' /\ Match' = match
  BY <1>3 DEF IsKept, Match
<1>6. ValuesInv'
  BY <1>2, <1>3, <1>5, KeysDiffer DEF ResolutionInv, ValuesInv, IsKept, Remembers, Fit
<1>7. MaxRequests \in Nat \ {0} /\ MaxConcurrency \in Nat
  BY ResolutionAssumption
<1>8. CASE match.target # "ready"
  <2>1. Reply(match.target) /\ started' \in Nat /\ started' <= MaxRequests
    BY <1>1, <1>4, <1>7, <1>8
  <2>2. IsAnswer(Plain(match.target))'
    BY <1>5, <1>8 DEF IsAnswer, Plain
  <2>3. match.target \in Reasons
    <3>1. match.target \in TargetChecks \cup {"match_not_found"}
      BY <1>2, ResolutionAssumption DEF Absent
    <3> QED BY <3>1 DEF Reasons
  <2> QED BY <1>3, <1>6, <2>1, <2>2, <2>3, Replied DEF ResolutionInv
<1>9. CASE match.target = "ready"
  <2>1. /\ stage' = "leagues" /\ UNCHANGED <<scope, todo, resting, reading, broken, replies>>
    BY <1>1, <1>9
  <2>2. RepliesInv'
    BY <1>3, <2>1, RepliesStay DEF ResolutionInv
  <2>3. PhasesFit'
    <3>1. Len(todo') = 0 /\ Cardinality(reading') + resting' <= MaxConcurrency
      BY <1>4, <2>1 DEF NoWorkers, ResolutionInv, CallInv, PhasesFit
    <3> QED BY <1>4, <1>7, <3>1 DEF PhasesFit
  <2>4. CallInv'
    BY <1>4, <1>5, <1>9, <2>1, <2>3
    DEF ResolutionInv, CallInv, ResolutionTypes, ComesFar, HasMatch, InPhase, NoWorkers
  <2> QED BY <1>6, <2>2, <2>4 DEF ResolutionInv
<1> QED BY <1>8, <1>9

(* The leagues are read; the lists begin if all of them fit.               *)
LEMMA LeaguesRead ==
  ASSUME ResolutionInv, ReadLeagues
  PROVE  ResolutionInv'
<1>1. /\ stage = "leagues" /\ started = 1 /\ HasMatch /\ ~InPhase /\ NoWorkers
      /\ ValuesInv /\ RepliesInv
  BY DEF ReadLeagues, ResolutionInv, CallInv, ComesFar, InPhase
<1>2. MaxRequests \in Nat \ {0} /\ MaxLeagues \in Nat /\ "budget_exhausted" \in Reasons
  BY ResolutionAssumption DEF Reasons
<1>3. CASE started = MaxRequests
  <2>1. Reply("budget_exhausted") /\ UNCHANGED <<started, values>>
    BY <1>3 DEF ReadLeagues
  <2>2. Remembers /\ ValuesInv'
    BY <1>1, <2>1 DEF Remembers, ValuesInv, IsKept, Match, Fit
  <2>3. IsAnswer(Plain("budget_exhausted"))'
    BY <1>1, <1>3, <2>1 DEF HasMatch, IsAnswer, Plain, IsKept, Match
  <2> QED BY <1>1, <1>2, <1>3, <2>1, <2>2, <2>3, Replied DEF ResolutionInv
<1>4. CASE started # MaxRequests
  <2>1. PICK fitting \in SourceSays(<<"leagues">>, Fitting) :
          /\ started' = started + 1 /\ Keep(<<"leagues">>, fitting)
          /\ CASE ~Match.searchable -> Reply("insufficient_context")
               [] Match.searchable /\ fitting = {} -> Reply("no_league_candidates")
               [] Match.searchable /\ Cardinality(fitting) > MaxLeagues -> Reply("budget_exhausted")
               [] OTHER -> BeginPhase("lists", SetToSeq(fitting), started + 1)
    BY <1>4 DEF ReadLeagues
  <2>2. /\ fitting \in SUBSET Leagues
        /\ IsKept(<<"leagues">>) => fitting = values[<<"leagues">>]
    BY <1>1, <2>1 DEF SourceSays, ValuesInv, Fit, Fitting
  <2>3. /\ Remembers /\ values'[<<"leagues">>] = fitting
        /\ DOMAIN values' = DOMAIN values \cup {<<"leagues">>}
    BY <2>1, <2>2, KeepRemembers
  <2>4. /\ IsKept(<<"leagues">>)' /\ Fit' = fitting
        /\ IsKept(<<"match">>)' /\ Match' = Match /\ Match.target = "ready"
    BY <1>1, <2>3 DEF IsKept, Fit, Match, Remembers, HasMatch
  <2>5. ValuesInv'
    BY <1>1, <2>2, <2>3, <2>4, KeysDiffer DEF ValuesInv, IsKept, Remembers
  <2>6. started' = 2 /\ MaxRequests > 1 /\ started' \in Nat /\ started' <= MaxRequests
    BY <1>1, <1>2, <1>4, <2>1
  <2>7. IsFiniteSet(fitting) /\ Cardinality(fitting) \in Nat /\ Match.searchable \in BOOLEAN
    BY <1>1, <2>2, <2>4, ResolutionAssumption, FS_Subset, FS_CardinalityType, MatchTyped
    DEF HasMatch
  <2>8. CASE ~Match.searchable
    <3>1. Reply("insufficient_context") /\ "insufficient_context" \in Reasons
      BY <2>1, <2>7, <2>8 DEF Reasons
    <3>2. IsAnswer(Plain("insufficient_context"))'
      BY <2>4, <2>6, <2>8 DEF IsAnswer, Plain, ListsTell
    <3> QED BY <1>1, <2>3, <2>5, <2>6, <3>1, <3>2, Replied DEF ResolutionInv
  <2>9. CASE Match.searchable /\ fitting = {}
    <3>1. Reply("no_league_candidates") /\ "no_league_candidates" \in Reasons
      <4>1. ~(Cardinality({}) > MaxLeagues)
        BY FS_EmptySet, <1>2
      <4> QED BY <2>1, <2>9, <4>1 DEF Reasons
    <3>2. IsAnswer(Plain("no_league_candidates"))'
      BY <2>4, <2>6, <2>9 DEF IsAnswer, Plain, ListsTell
    <3> QED BY <1>1, <2>3, <2>5, <2>6, <3>1, <3>2, Replied DEF ResolutionInv
  <2>10. CASE Match.searchable /\ fitting # {}
    <3>1. CASE ~ListsFit'
      <4>1. Reply("budget_exhausted")
        <5>1. CASE Cardinality(fitting) > MaxLeagues
          BY <2>1, <2>10, <5>1
        <5>2. CASE ~(Cardinality(fitting) > MaxLeagues)
          <6>1. BeginPhase("lists", SetToSeq(fitting), started + 1)
            BY <2>1, <2>10, <5>2
          <6>2. Len(SetToSeq(fitting)) = Cardinality(fitting) /\ started + 1 = 2
            BY <1>1, <2>7, Enumerated
          <6>3. Cardinality(fitting) > MaxRequests - 2
            BY <1>2, <2>4, <2>7, <3>1, <5>2 DEF ListsFit
          <6> QED BY <6>1, <6>2, <6>3 DEF BeginPhase
        <5> QED BY <5>1, <5>2
      <4>2. IsAnswer(Plain("budget_exhausted"))'
        BY <2>4, <2>6, <2>10, <3>1 DEF IsAnswer, Plain, ListsTell
      <4> QED BY <1>1, <1>2, <2>3, <2>5, <2>6, <4>1, <4>2, Replied DEF ResolutionInv
    <3>2. CASE ListsFit'
      <4>1. Cardinality(fitting) <= MaxLeagues /\ Cardinality(fitting) <= MaxRequests - 2
        BY <2>4, <3>2 DEF ListsFit
      <4>2. BeginPhase("lists", SetToSeq(fitting), 2)
        <5>1. ~(Cardinality(fitting) > MaxLeagues) /\ started + 1 = 2
          BY <1>1, <1>2, <2>7, <4>1
        <5> QED BY <2>1, <2>10, <5>1
      <4>3. stage' = "lists" => Ids' = fitting /\ RequestsBefore' = 2
        BY <2>4 DEF Ids, RequestsBefore
      <4>4. /\ stage' = "lists" /\ WorkIsShared' /\ PhasesFit' /\ ResolutionTypes'
            /\ UNCHANGED replies
        BY <1>1, <2>6, <2>7, <4>1, <4>2, <4>3, PhaseBegins DEF NoWorkers
      <4>5. HasLeagues'
        BY <2>4, <2>6, <2>10, <3>2 DEF HasLeagues, HasMatch
      <4>6. CallInv'
        BY <4>4, <4>5 DEF CallInv, ComesFar, InPhase
      <4>7. RepliesInv'
        BY <1>1, <2>3, <4>4, RepliesStay
      <4> QED BY <2>5, <4>6, <4>7 DEF ResolutionInv
    <3> QED BY <3>1, <3>2
  <2> QED BY <2>7, <2>8, <2>9, <2>10
<1> QED BY <1>3, <1>4
(* What a worker takes: all that is left,                                  *)
TakesAll(others) ==
  /\ todo' = <<>> /\ reading' = others
  /\ \/ broken /\ started' = started
     \/ /\ ~broken /\ started' = started + Len(todo)
        /\ \A i \in 1..Len(todo) : IsKept(Key(todo[i]))

(* ... or those it finds in the cache and one that it reads.               *)
TakesOne(others, h) ==
  /\ ~broken /\ \A i \in 1..h : IsKept(Key(todo[i]))
  /\ ~IsKept(Key(todo[h + 1])) /\ reading' = others \cup {todo[h + 1]}
  /\ Len(todo') = Len(todo) - h - 1 /\ started' = started + h + 1
  /\ \A i \in 1..Len(todo') : todo'[i] = todo[h + 1 + i]

(* ... and that is all it does.                                            *)
LEMMA WorkTaken ==
  ASSUME NEW X, todo \in Seq(X), NEW others, GoOn(others), started \in Nat, broken \in BOOLEAN
  PROVE  /\ todo' \in Seq(X)
         /\ \/ TakesAll(others)
            \/ \E h \in 0..(Len(todo) - 1) : TakesOne(others, h)
<1>1. PICK n \in Nat : n = Len(todo)
  OBVIOUS
<1>2. PICK h \in 0..n : /\ h = Hits
                        /\ \A i \in 1..h : IsKept(Key(todo[i]))
                        /\ h < n => ~IsKept(Key(todo[h + 1]))
  BY <1>1, HitsCount
<1>3. CASE broken
  <2>1. todo' = <<>> /\ reading' = others /\ started' = started + 0
    BY <1>3 DEF GoOn
  <2> QED BY <1>3, <2>1 DEF TakesAll
<1>4. CASE ~broken /\ h = n
  <2>1. todo' = <<>> /\ reading' = others /\ started' = started + h
    BY <1>1, <1>2, <1>4 DEF GoOn
  <2> QED BY <1>1, <1>2, <1>4, <2>1 DEF TakesAll
<1>5. CASE ~broken /\ h # n
  <2>1. /\ todo' = SubSeq(todo, h + 2, n) /\ reading' = others \cup {todo[h + 1]}
        /\ started' = started + h + 1
    BY <1>1, <1>2, <1>5 DEF GoOn
  <2>2. h + 2 \in Nat /\ h + 2 >= 1 /\ h + 2 <= n + 1 /\ h \in 0..(n - 1)
    BY <1>5
  <2>3. /\ todo' \in Seq(X) /\ Len(todo') = n - (h + 2) + 1
        /\ \A i \in 1..(n - (h + 2) + 1) : todo'[i] = todo[h + 2 + i - 1]
    <3>1. \A i \in (h + 2)..n : i \in 1..n
      BY <2>2
    <3> QED BY <1>1, <2>1, <2>2, <3>1, SubSeqProperties
  <2>4. Len(todo') = n - h - 1 /\ \A i \in 1..Len(todo') : todo'[i] = todo[h + 1 + i]
    <3>1. n - (h + 2) + 1 = n - h - 1 /\ n - h - 1 \in Nat
      BY <2>2
    <3>2. PICK k \in Nat : k = n - h - 1
      BY <3>1
    <3>3. Len(todo') = k
      BY <2>3, <3>1, <3>2
    <3>4. ASSUME NEW i \in 1..k PROVE todo'[i] = todo[h + 1 + i]
      <4>1. h + 2 + i - 1 = h + 1 + i
        BY <2>2
      <4>2. i \in 1..(n - (h + 2) + 1)
        BY <3>1, <3>2
      <4> QED BY <2>3, <4>1, <4>2
    <3> QED BY <3>2, <3>3, <3>4
  <2>5. TakesOne(others, h)
    BY <1>1, <1>2, <1>5, <2>1, <2>2, <2>4 DEF TakesOne
  <2> QED BY <1>1, <2>2, <2>3, <2>5
<1> QED BY <1>3, <1>4, <1>5

(* While a phase lasts its identities remain, whatever its workers read.   *)
LEMMA SameIds ==
  ASSUME ResolutionInv, InPhase, Remembers, UNCHANGED stage
  PROVE  /\ Ids' = Ids /\ RequestsBefore' = RequestsBefore /\ RequestsBefore \in Nat
         /\ Cardinality(Ids) \in Nat /\ RequestsBefore + Cardinality(Ids) <= MaxRequests
         /\ HasLeagues' /\ (stage = "details" => HasLists')
<1>1. HasLeagues /\ ValuesInv
  BY DEF ResolutionInv, CallInv, ComesFar, InPhase, HasLists
<1>2. /\ IsKept(<<"leagues">>)' /\ Fit' = Fit /\ IsKept(<<"match">>)' /\ Match' = Match
  BY <1>1 DEF HasLeagues, HasMatch, IsKept, Remembers, Fit, Match
<1>3. HasLeagues'
  BY <1>1, <1>2 DEF HasLeagues, HasMatch, ListsFit
<1>4. /\ Cardinality(Fit) \in Nat /\ Cardinality(Fit) <= MaxRequests - 2
      /\ ListsKept => Cardinality(AllListed) \in Nat
  BY <1>1, FiniteReads DEF HasLeagues, ListsFit
<1>5. MaxRequests \in Nat
  BY ResolutionAssumption
<1>6. CASE stage = "lists"
  <2>1. 2 + Cardinality(Fit) <= MaxRequests
    BY <1>4, <1>5
  <2> QED BY <1>2, <1>3, <1>4, <1>6, <2>1 DEF Ids, RequestsBefore
<1>7. CASE stage = "details"
  <2>1. HasLists
    BY <1>7 DEF ResolutionInv, CallInv, ComesFar
  <2>2. ListsKept' /\ AllListed' = AllListed
    BY <1>2, <2>1 DEF HasLists, ListsKept, IsKept, Remembers, AllListed
  <2>3. HasLists'
    BY <1>2, <1>3, <2>1, <2>2 DEF HasLists, DetailsFit
  <2>4. /\ Cardinality(AllListed) \in Nat
        /\ Cardinality(AllListed) <= MaxRequests - 2 - Cardinality(Fit)
    BY <1>4, <2>1 DEF HasLists, DetailsFit
  <2>5. 2 + Cardinality(Fit) + Cardinality(AllListed) <= MaxRequests /\ 2 + Cardinality(Fit) \in Nat
    BY <1>4, <1>5, <2>4
  <2> QED BY <1>2, <1>3, <1>7, <2>2, <2>3, <2>4, <2>5 DEF Ids, RequestsBefore
<1> QED BY <1>6, <1>7 DEF InPhase

(* A worker that starts or has an answer takes work nobody has: no         *)
(* identity is read twice, and what is left still fits the budget.         *)
LEMMA WorkGoesOn ==
  ASSUME ResolutionInv, InPhase, NEW others \in SUBSET reading, GoOn(others),
         UNCHANGED <<stage, scope, broken>>, Remembers,
         \A k \in DOMAIN values' : k \in DOMAIN values \/ \E id \in reading \ others : k = Key(id),
         \A id \in reading \ others : Key(id) \in DOMAIN values'
  PROVE  /\ WorkIsShared' /\ started' \in Nat /\ started' + Len(todo') <= MaxRequests
         /\ reading' \in SUBSET Ids
         /\ \E x : reading' \subseteq others \cup {x}
<1>1. WorkIsShared /\ ResolutionTypes
  BY DEF ResolutionInv, CallInv
<1>2. /\ Ids' = Ids /\ RequestsBefore' = RequestsBefore /\ RequestsBefore \in Nat
      /\ Cardinality(Ids) \in Nat /\ RequestsBefore + Cardinality(Ids) <= MaxRequests
  BY SameIds
<1>3. /\ todo' \in Seq(Ids)
      /\ TakesAll(others) \/ \E h \in 0..(Len(todo) - 1) : TakesOne(others, h)
  BY <1>1, WorkTaken DEF WorkIsShared, ResolutionTypes
<1>4. PICK n \in Nat : n = Len(todo)
  BY <1>1 DEF WorkIsShared
<1>5. PICK g \in Nat : g = Len(scope) /\ g = Cardinality(Ids)
  BY <1>1, <1>2 DEF WorkIsShared
<1>6. \A id : IsKept(Key(id)) => IsKept(Key(id))'
  BY DEF IsKept, Key, Remembers
<1>7. \A id : ~IsKept(Key(id)) /\ id \notin reading \ others => ~IsKept(Key(id))'
  BY KeysDiffer DEF IsKept, Key
<1>8. \A id \in reading \ others : IsKept(Key(id))'
  BY DEF IsKept, Key
<1>9. /\ scope' \in Seq(Ids') /\ Distinct(scope)' /\ Lists(scope, Ids)'
      /\ Len(scope)' = Cardinality(Ids)'
  BY <1>1, <1>2 DEF WorkIsShared, Distinct, Lists
<1>10. started \in Nat /\ MaxRequests \in Nat
  BY <1>1, ResolutionAssumption DEF ResolutionTypes
<1>14. PICK b \in Nat : b = RequestsBefore /\ b + g <= MaxRequests
  BY <1>2, <1>5
<1>15. PICK a \in Nat : a = started
  BY <1>10
<1>11. /\ started + n <= RequestsBefore + g
       /\ ~broken => started + n = RequestsBefore + g
  BY <1>1, <1>4, <1>5 DEF WorkIsShared
<1>12. CASE TakesAll(others)
  <2>1. todo' = <<>> /\ Len(todo') = 0 /\ reading' = others
    BY <1>12 DEF TakesAll
  <2>2. /\ started' \in Nat /\ started' <= RequestsBefore + g
        /\ ~broken => started' = RequestsBefore + g
    BY <1>2, <1>4, <1>10, <1>11, <1>12 DEF TakesAll
  <2>3. \A id \in reading' : ~IsKept(Key(id))'
    BY <1>1, <1>7, <2>1 DEF WorkIsShared
  <2>4. ASSUME ~broken, NEW id \in Ids
        PROVE  IsKept(Key(id))' \/ id \in reading'
    BY <1>1, <1>4, <1>6, <1>8, <1>12, <2>1, <2>4 DEF WorkIsShared, TakesAll, Lists
  <2>5. /\ reading' \subseteq Ids /\ Distinct(todo)'
        /\ \A i \in 1..Len(todo') : todo'[i] \notin reading'
    BY <1>1, <2>1 DEF WorkIsShared, Distinct
  <2>6. started' <= MaxRequests /\ started' + Len(todo') = started'
    <3>1. started' \in Nat /\ started' <= b + g /\ b + g \in Nat
      BY <1>14, <2>2
    <3>2. \A x, y, z \in Nat : (x <= y /\ y <= z => x <= z) /\ x + 0 = x
      OBVIOUS
    <3>3. started' <= MaxRequests /\ started' + 0 = started'
      BY ONLY <1>10, <1>14, <3>1, <3>2, Zenon
    <3> QED BY ONLY <2>1, <3>3, Zenon
  <2>7. /\ started' + Len(todo') <= RequestsBefore' + Len(scope')
        /\ ~broken' => started' + Len(todo') = RequestsBefore' + Len(scope')
    BY <1>2, <1>5, <2>2, <2>6
  <2>8. WorkIsShared'
    BY <1>2, <1>3, <1>9, <2>3, <2>4, <2>5, <2>7 DEF WorkIsShared
  <2>9. \E x : reading' \subseteq others \cup {x}
    BY <2>1
  <2> QED BY <2>2, <2>5, <2>6, <2>8, <2>9
<1>13. ASSUME NEW h \in 0..(n - 1), TakesOne(others, h)
       PROVE  /\ WorkIsShared' /\ started' \in Nat /\ started' + Len(todo') <= MaxRequests
              /\ reading' \in SUBSET Ids
              /\ \E x : reading' \subseteq others \cup {x}
  <2>1. PICK m \in Nat : m = n - h - 1
    BY <1>4
  <2>2. /\ Len(todo') = m /\ \A i \in 1..m : todo'[i] = todo[h + 1 + i] /\ h + 1 + i \in 1..n
        /\ started' = started + h + 1 /\ reading' = others \cup {todo[h + 1]} /\ ~broken
        /\ h + 1 \in 1..n
    <3>1. h \in Nat /\ n - 1 \in Int /\ h <= n - 1 /\ h + 1 \in 1..n
      BY <1>4, <1>13
    <3>2. Len(todo') = m /\ \A i \in 1..m : todo'[i] = todo[h + 1 + i]
      BY <1>4, <1>13, <2>1 DEF TakesOne
    <3>3. \A i \in 1..m : h + 1 + i \in 1..n
      BY <1>4, <2>1, <3>1
    <3>4. started' = started + h + 1 /\ reading' = others \cup {todo[h + 1]} /\ ~broken
      BY <1>13 DEF TakesOne
    <3> QED BY <3>1, <3>2, <3>3, <3>4
  <2>3. todo[h + 1] \in Ids /\ todo[h + 1] \notin reading /\ ~IsKept(Key(todo[h + 1]))
    BY <1>1, <1>4, <1>13, <2>2 DEF WorkIsShared, TakesOne
  <2>4. /\ started' \in Nat /\ started' + m = RequestsBefore + g
        /\ started' + m <= MaxRequests
    <3>1. started' = a + h + 1 /\ a + n = b + g
      BY <1>11, <1>14, <1>15, <2>2
    <3>2. a + h + 1 \in Nat /\ (a + h + 1) + m = b + g
      BY <2>1, <3>1
    <3> QED BY <1>14, <3>1, <3>2
  <2>5. \A id \in reading' : ~IsKept(Key(id))'
    BY <1>1, <1>7, <2>2, <2>3 DEF WorkIsShared
  <2>6. ASSUME NEW id \in Ids
        PROVE  IsKept(Key(id))' \/ id \in reading' \/ Lists(todo, {id})'
    <3>1. CASE IsKept(Key(id)) \/ id \in reading
      BY <1>6, <1>8, <2>2, <3>1
    <3>2. CASE Lists(todo, {id})
      <4>1. PICK i \in 1..n : todo[i] = id
        BY <1>4, <3>2 DEF Lists
      <4>2. CASE i \in 1..h
        BY <1>6, <1>13, <4>1, <4>2 DEF TakesOne
      <4>3. CASE i = h + 1
        BY <2>2, <4>1, <4>3
      <4>4. CASE i > h + 1
        <5>1. i - h - 1 \in 1..m /\ h + 1 + (i - h - 1) = i
          BY <1>13, <2>1, <4>1, <4>4
        <5>2. todo'[i - h - 1] = id
          BY <2>2, <4>1, <5>1
        <5> QED BY <2>2, <5>1, <5>2 DEF Lists
      <4>5. i \in 1..h \/ i = h + 1 \/ i > h + 1
        BY <4>1
      <4> QED BY <4>2, <4>3, <4>4, <4>5
    <3> QED BY <1>1, <2>2, <3>1, <3>2 DEF WorkIsShared
  <2>7. Distinct(todo)'
    <3> SUFFICES ASSUME NEW i \in 1..m, NEW j \in 1..m, todo'[i] = todo'[j] PROVE i = j
      BY <2>2 DEF Distinct
    <3>1. \A p, q \in 1..n : todo[p] = todo[q] => p = q
      BY <1>1, <1>4 DEF WorkIsShared, Distinct
    <3>2. /\ h + 1 + i \in 1..n /\ h + 1 + j \in 1..n
          /\ todo[h + 1 + i] = todo[h + 1 + j]
      BY <2>2
    <3>3. h + 1 + i = h + 1 + j
      BY ONLY <3>1, <3>2
    <3> QED BY <3>3
  <2>8. ASSUME NEW i \in 1..m PROVE todo'[i] \notin reading'
    <3>1. todo'[i] = todo[h + 1 + i] /\ h + 1 + i \in 1..n /\ h + 1 + i # h + 1
      BY <2>2
    <3>2. todo[h + 1 + i] \notin reading /\ todo[h + 1 + i] # todo[h + 1]
      BY <1>1, <1>4, <2>2, <3>1 DEF WorkIsShared, Distinct
    <3> QED BY <2>2, <3>1, <3>2
  <2>9. reading' \subseteq Ids
    BY <1>1, <2>2, <2>3 DEF WorkIsShared
  <2>10. /\ started' + Len(todo') <= RequestsBefore' + Len(scope')
         /\ started' + Len(todo') = RequestsBefore' + Len(scope')
         /\ started' + Len(todo') <= MaxRequests
    BY <1>2, <1>5, <2>2, <2>4
  <2>11. WorkIsShared'
    BY <1>2, <1>3, <1>9, <2>2, <2>5, <2>6, <2>7, <2>8, <2>9, <2>10 DEF WorkIsShared
  <2> QED BY <2>2, <2>3, <2>4, <2>9, <2>10, <2>11
<1> QED BY <1>3, <1>4, <1>12, <1>13
(* When nothing is read, nothing is forgotten.                             *)
LEMMA NothingRead ==
  ASSUME ResolutionInv, UNCHANGED values
  PROVE  Remembers /\ ValuesInv'
BY DEF Remembers, ResolutionInv, ValuesInv, IsKept, Match, Fit

(* A set that is joined by one, or loses one                               *)
LEMMA OneMore ==
  ASSUME NEW S, IsFiniteSet(S), NEW x
  PROVE  /\ IsFiniteSet(S \cup {x}) /\ Cardinality(S) \in Nat /\ Cardinality(S \cup {x}) \in Nat
         /\ Cardinality(S \cup {x}) <= Cardinality(S) + 1
<1>1. IsFiniteSet(S \cup {x}) /\ Cardinality(S) \in Nat /\ Cardinality(S \cup {x}) \in Nat
  BY FS_AddElement, FS_CardinalityType
<1>2. PICK n \in Nat : n = Cardinality(S)
  BY <1>1
<1>3. Cardinality(S \cup {x}) = n \/ Cardinality(S \cup {x}) = n + 1
  BY <1>2, FS_AddElement
<1>4. Cardinality(S \cup {x}) <= n + 1
  BY <1>3
<1> QED BY <1>1, <1>2, <1>4

(* ... or loses one.                                                       *)
LEMMA OneLess ==
  ASSUME NEW S, IsFiniteSet(S), NEW x \in S
  PROVE  /\ IsFiniteSet(S \ {x}) /\ Cardinality(S) \in Nat /\ Cardinality(S \ {x}) \in Nat
         /\ Cardinality(S \ {x}) + 1 = Cardinality(S)
<1>1. IsFiniteSet(S \ {x}) /\ Cardinality(S) \in Nat /\ Cardinality(S \ {x}) \in Nat
  BY FS_RemoveElement, FS_CardinalityType
<1>2. PICK n \in Nat : n = Cardinality(S)
  BY <1>1
<1>3. PICK m \in Nat : m = Cardinality(S \ {x})
  BY <1>1
<1>4. m = n - 1
  BY <1>2, <1>3, FS_RemoveElement
<1>5. m + 1 = n
  BY <1>4
<1> QED BY <1>1, <1>2, <1>3, <1>5

(* A worker starts.                                                        *)
LEMMA WorkerBegins ==
  ASSUME ResolutionInv, WorkerStarts
  PROVE  ResolutionInv'
<1>1. /\ InPhase /\ resting > 0 /\ resting' = resting - 1 /\ GoOn(reading)
      /\ UNCHANGED <<stage, scope, broken, values, replies>>
  BY DEF WorkerStarts
<1>2. Remembers /\ ValuesInv'
  BY <1>1, NothingRead
<1>3. /\ WorkIsShared' /\ started' \in Nat /\ started' + Len(todo') <= MaxRequests
      /\ \E x : reading' \subseteq reading \cup {x}
  BY <1>1, <1>2, WorkGoesOn
<1>4. RepliesInv'
  BY <1>1, <1>2, RepliesStay DEF ResolutionInv
<1>5. /\ ResolutionTypes /\ Cardinality(reading) \in Nat
      /\ Cardinality(reading) + resting <= MaxConcurrency
  BY FS_CardinalityType DEF ResolutionInv, CallInv, ResolutionTypes, PhasesFit
<1>6. /\ IsFiniteSet(reading') /\ Cardinality(reading') \in Nat
      /\ Cardinality(reading') <= Cardinality(reading) + 1
  <2>1. PICK x : reading' \in SUBSET (reading \cup {x})
    BY <1>3
  <2>2. /\ IsFiniteSet(reading \cup {x}) /\ Cardinality(reading \cup {x}) \in Nat
        /\ Cardinality(reading \cup {x}) <= Cardinality(reading) + 1
    BY <1>5, OneMore DEF ResolutionTypes
  <2> QED BY <1>5, <2>1, <2>2, FS_Subset, FS_CardinalityType
<1>7. resting' \in Nat /\ Cardinality(reading') + resting' <= MaxConcurrency
  BY <1>1, <1>5, <1>6, ResolutionAssumption DEF ResolutionTypes
<1>8. ComesFar'
  BY <1>1, <1>2, SameIds DEF ComesFar, InPhase
<1>9. CallInv'
  BY <1>1, <1>3, <1>5, <1>6, <1>7, <1>8 DEF CallInv, ResolutionTypes, PhasesFit, InPhase
<1> QED BY <1>2, <1>4, <1>9 DEF ResolutionInv

(* ... gets its answer and goes on.                                        *)
LEMMA ReadReturned ==
  ASSUME ResolutionInv, ReadReturns
  PROVE  ResolutionInv'
<1>1. PICK id \in reading, value \in Answers : Keep(Key(id), value) /\ GoOn(reading \ {id})
  BY DEF ReadReturns
<1>2. InPhase /\ UNCHANGED <<stage, scope, resting, broken, replies>>
  BY DEF ReadReturns
<1>3. WorkIsShared /\ ResolutionTypes /\ id \in Ids /\ ~IsKept(Key(id))
  BY <1>2 DEF ResolutionInv, CallInv, WorkIsShared
<1>4. /\ Remembers /\ values'[Key(id)] = value
      /\ DOMAIN values' = DOMAIN values \cup {Key(id)}
  BY <1>1, <1>3, KeepRemembers
<1>5. ValuesInv'
  <2>1. CASE stage = "lists"
    <3>1. Key(id) = <<"lists", id>> /\ value \in SUBSET Games
      BY <2>1 DEF Key, Answers, InWindow
    <3> QED
      BY <1>4, <3>1, KeysDiffer
      DEF ResolutionInv, ValuesInv, IsKept, Remembers, Match, Fit
  <2>2. CASE stage = "details"
    <3>1. Key(id) = <<"details", id>> /\ value \in Records
      BY <2>2 DEF Key, Answers
    <3> QED
      BY <1>4, <3>1, KeysDiffer
      DEF ResolutionInv, ValuesInv, IsKept, Remembers, Match, Fit
  <2> QED BY <1>2, <2>1, <2>2 DEF InPhase
<1>6. /\ WorkIsShared' /\ started' \in Nat /\ started' + Len(todo') <= MaxRequests
      /\ \E x : reading' \subseteq (reading \ {id}) \cup {x}
  <2>1. /\ \A k \in DOMAIN values' :
             k \in DOMAIN values \/ \E d \in reading \ (reading \ {id}) : k = Key(d)
        /\ \A d \in reading \ (reading \ {id}) : Key(d) \in DOMAIN values'
    BY <1>4
  <2> QED BY <1>1, <1>2, <1>4, <2>1, WorkGoesOn
<1>7. RepliesInv'
  BY <1>2, <1>4, RepliesStay DEF ResolutionInv
<1>8. /\ Cardinality(reading) \in Nat /\ Cardinality(reading \ {id}) \in Nat
      /\ IsFiniteSet(reading \ {id}) /\ Cardinality(reading \ {id}) + 1 = Cardinality(reading)
  BY <1>3, OneLess DEF ResolutionTypes
<1>13. Cardinality(reading) + resting <= MaxConcurrency
  BY DEF ResolutionInv, CallInv, PhasesFit
<1>9. /\ IsFiniteSet(reading') /\ Cardinality(reading') \in Nat
      /\ Cardinality(reading') <= Cardinality(reading)
  <2>1. PICK x : reading' \in SUBSET ((reading \ {id}) \cup {x})
    BY <1>6
  <2>2. /\ IsFiniteSet((reading \ {id}) \cup {x})
        /\ Cardinality((reading \ {id}) \cup {x}) \in Nat
        /\ Cardinality((reading \ {id}) \cup {x}) <= Cardinality(reading)
    BY <1>8, OneMore
  <2> QED BY <1>8, <2>1, <2>2, FS_Subset, FS_CardinalityType
<1>10. resting' \in Nat /\ Cardinality(reading') + resting' <= MaxConcurrency
  BY <1>2, <1>3, <1>8, <1>9, <1>13, ResolutionAssumption DEF ResolutionTypes
<1>11. ComesFar'
  BY <1>2, <1>4, SameIds DEF ComesFar, InPhase
<1>12. CallInv'
  BY <1>2, <1>3, <1>6, <1>9, <1>10, <1>11 DEF CallInv, ResolutionTypes, PhasesFit, InPhase
<1> QED BY <1>5, <1>7, <1>12 DEF ResolutionInv

(* ... or fails; the others go on until the call sees it.                  *)
LEMMA ReadFailed ==
  ASSUME ResolutionInv, ReadFails
  PROVE  ResolutionInv'
<1>1. PICK id \in reading : reading' = reading \ {id}
  BY DEF ReadFails
<1>2. /\ InPhase /\ broken' = TRUE
      /\ UNCHANGED <<stage, scope, todo, resting, started, values, replies>>
  BY DEF ReadFails
<1>3. Remembers /\ ValuesInv' /\ WorkIsShared /\ ResolutionTypes
  BY <1>2, NothingRead DEF ResolutionInv, CallInv
<1>4. RepliesInv'
  BY <1>2, <1>3, RepliesStay DEF ResolutionInv
<1>5. Ids' = Ids /\ RequestsBefore' = RequestsBefore /\ ComesFar'
  BY <1>2, <1>3, SameIds DEF ComesFar, InPhase
<1>6. WorkIsShared'
  BY <1>1, <1>2, <1>3, <1>5 DEF WorkIsShared, Distinct, Lists, IsKept, Key
<1>7. /\ IsFiniteSet(reading') /\ Cardinality(reading') \in Nat /\ Cardinality(reading) \in Nat
      /\ Cardinality(reading') <= Cardinality(reading)
  BY <1>1, <1>3, FS_Subset, FS_CardinalityType DEF ResolutionTypes
<1>8. PhasesFit'
  <2>1. Cardinality(reading) + resting <= MaxConcurrency /\ resting \in Nat
    BY <1>3 DEF ResolutionInv, CallInv, PhasesFit, ResolutionTypes
  <2>2. Cardinality(reading') + resting <= MaxConcurrency
    BY <1>7, <2>1, ResolutionAssumption
  <2> QED BY <1>2, <2>2 DEF ResolutionInv, CallInv, PhasesFit
<1>9. CallInv'
  BY <1>2, <1>3, <1>5, <1>6, <1>7, <1>8 DEF CallInv, ResolutionTypes, InPhase
<1> QED BY <1>3, <1>4, <1>9 DEF ResolutionInv

(* A call that fails keeps what it has read.                               *)
LEMMA CallGivesUp ==
  ASSUME ResolutionInv, Reply("failed"), UNCHANGED <<started, values>>
  PROVE  ResolutionInv'
<1>1. Remembers /\ ValuesInv' /\ RepliesInv /\ "failed" \in Reasons
  BY NothingRead DEF ResolutionInv, Reasons
<1>2. started' \in Nat /\ started' <= MaxRequests
  <2>1. started \in Nat /\ Len(todo) \in Nat /\ started + Len(todo) <= MaxRequests
    BY DEF ResolutionInv, CallInv, ResolutionTypes, PhasesFit, WorkIsShared, NoWorkers
  <2> QED BY <2>1, ResolutionAssumption
<1> QED BY <1>1, <1>2, Replied DEF ResolutionInv

(* When a phase has been read, every identity of it is in the cache.       *)
LEMMA PhaseWhole ==
  ASSUME ResolutionInv, InPhase, PhaseIsRead
  PROVE  /\ \A id \in Ids : IsKept(Key(id))
         /\ scope \in Seq(Ids) /\ Lists(scope, Ids)
         /\ started = RequestsBefore + Cardinality(Ids)
<1>1. WorkIsShared /\ broken = FALSE /\ reading = {} /\ todo = <<>> /\ Len(todo) = 0
  BY DEF ResolutionInv, CallInv, ResolutionTypes, PhaseIsRead
<1>2. \A id \in Ids : IsKept(Key(id))
  BY <1>1 DEF WorkIsShared, Lists
<1>3. started + 0 = RequestsBefore + Cardinality(Ids) /\ started \in Nat
  BY <1>1 DEF WorkIsShared, ResolutionInv, CallInv, ResolutionTypes
<1> QED BY <1>1, <1>2, <1>3 DEF WorkIsShared

(* After the lists the details begin, if all of them fit.                  *)
LEMMA ListsEnd ==
  ASSUME ResolutionInv, EndLists
  PROVE  ResolutionInv'
<1>1. stage = "lists" /\ PhaseIsRead /\ InPhase /\ UNCHANGED <<started, values>>
  BY DEF EndLists, InPhase
<1>2. /\ Remembers /\ ValuesInv' /\ ValuesInv /\ RepliesInv /\ WorkIsShared /\ HasLeagues
      /\ "budget_exhausted" \in Reasons
  BY <1>1, NothingRead DEF ResolutionInv, CallInv, ComesFar, Reasons
<1>3. /\ \A l \in Fit : IsKept(<<"lists", l>>)
      /\ scope \in Seq(Fit) /\ Lists(scope, Fit) /\ started = 2 + Cardinality(Fit)
  BY <1>1, PhaseWhole DEF Ids, RequestsBefore, Key
<1>4. ListsKept /\ Listed = AllListed
  <2>1. \A l : l \in Fit <=> \E i \in 1..Len(scope) : scope[i] = l
    BY <1>3 DEF Lists
  <2>2. Listed = AllListed
    <3>1. ASSUME NEW g PROVE g \in Listed <=> g \in AllListed
      <4>1. g \in Listed <=> \E i \in 1..Len(scope) : g \in values[<<"lists", scope[i]>>]
        BY DEF Listed
      <4>2. g \in AllListed <=> \E l \in Fit : g \in values[<<"lists", l>>]
        BY DEF AllListed
      <4> QED BY <2>1, <4>1, <4>2
    <3> QED BY <3>1
  <2> QED BY <1>3, <2>2 DEF ListsKept
<1>5. /\ Cardinality(Fit) \in Nat /\ Cardinality(AllListed) \in Nat /\ IsFiniteSet(AllListed)
      /\ AllListed \subseteq Games
  BY <1>2, <1>4, FiniteReads DEF HasLeagues
<1>6. /\ Cardinality(Fit) <= MaxRequests - 2 /\ MaxRequests \in Nat /\ MaxDetails \in Nat
  BY <1>2, ResolutionAssumption DEF HasLeagues, ListsFit
<1>7. started \in Nat /\ started <= MaxRequests
  BY <1>3, <1>5, <1>6
<1>8. /\ Fit' = Fit /\ AllListed' = AllListed /\ HasLeagues' /\ ListsKept'
      /\ IsKept(<<"match">>)' /\ Match' = Match
  BY <1>1, <1>2, <1>4
  DEF Fit, AllListed, HasLeagues, HasMatch, ListsKept, IsKept, Match, ListsFit
<1>9. DetailsFit <=> /\ ~(Cardinality(Listed) > MaxDetails)
                     /\ ~(Cardinality(Listed) > MaxRequests - started)
  BY <1>3, <1>4, <1>5, <1>6 DEF DetailsFit
<1>10. Len(SetToSeq(AllListed)) = Cardinality(AllListed)
  BY <1>5, Enumerated
<1>11. CASE ~DetailsFit
  <2>1. Reply("budget_exhausted")
    BY <1>4, <1>9, <1>10, <1>11 DEF EndLists, BeginPhase
  <2>2. IsAnswer(Plain("budget_exhausted"))'
    BY <1>8, <1>11 DEF HasLeagues, HasMatch, IsAnswer, ListsTell, DetailsTell, DetailsFit
  <2> QED BY <1>1, <1>2, <1>7, <2>1, <2>2, Replied DEF ResolutionInv
<1>12. CASE DetailsFit
  <2>1. BeginPhase("details", SetToSeq(AllListed), started)
    BY <1>4, <1>9, <1>12 DEF EndLists
  <2>2. Cardinality(AllListed) <= MaxRequests - started
    BY <1>4, <1>5, <1>6, <1>7, <1>9, <1>12
  <2>3. stage' = "details" => Ids' = AllListed /\ RequestsBefore' = started
    BY <1>3, <1>8 DEF Ids, RequestsBefore
  <2>4. started' = started /\ broken = FALSE
    BY <1>1 DEF PhaseIsRead, ResolutionInv, CallInv, ResolutionTypes
  <2>5. /\ stage' = "details" /\ WorkIsShared' /\ PhasesFit' /\ ResolutionTypes'
        /\ UNCHANGED replies
    BY <1>5, <1>7, <2>1, <2>2, <2>3, <2>4, PhaseBegins
  <2>6. DetailsFit'
    BY <1>8, <1>12 DEF DetailsFit
  <2>7. CallInv'
    BY <1>8, <2>5, <2>6 DEF CallInv, ComesFar, HasLists, InPhase
  <2>8. RepliesInv'
    BY <1>2, <2>5, RepliesStay
  <2> QED BY <1>2, <2>7, <2>8 DEF ResolutionInv
<1> QED BY <1>11, <1>12

(* After the details the decision is taken, from what is in the cache.     *)
LEMMA DetailsEnd ==
  ASSUME ResolutionInv, EndDetails
  PROVE  ResolutionInv'
<1>1. /\ stage = "details" /\ PhaseIsRead /\ InPhase /\ UNCHANGED <<started, values>>
      /\ stage' = "idle" /\ Rest
  BY DEF EndDetails, InPhase
<1>2. /\ Remembers /\ ValuesInv' /\ ValuesInv /\ RepliesInv /\ HasLists /\ HasLeagues /\ HasMatch
  BY <1>1, NothingRead DEF ResolutionInv, CallInv, ComesFar, HasLists, HasLeagues
<1>3. /\ \A g \in AllListed : IsKept(<<"details", g>>)
      /\ scope \in Seq(AllListed) /\ Lists(scope, AllListed)
  BY <1>1, PhaseWhole DEF Ids, Key
<1>4. \A status : Assessed(status) = WithStatus(status)
  <2>1. ASSUME NEW status, NEW g PROVE g \in Assessed(status) <=> g \in WithStatus(status)
    <3>1. g \in Assessed(status) <=>
            \E i \in 1..Len(scope) : scope[i] = g /\ Assessment(scope[i]) = status
      BY DEF Assessed
    <3>2. g \in WithStatus(status) <=> g \in AllListed /\ Assessment(g) = status
      BY DEF WithStatus
    <3> QED BY <1>3, <3>1, <3>2 DEF Lists
  <2> QED BY <2>1
<1>5. scope = <<>> <=> AllListed = {}
  <2>1. scope = <<>> <=> Len(scope) = 0
    BY <1>3
  <2> QED BY <1>3, <2>1 DEF Lists
<1>6. Verdict = FinalReason
  BY <1>4, <1>5 DEF Verdict, FinalReason
<1>7. replies' = Append(replies, FinalReply)
  BY <1>4, <1>6 DEF EndDetails, FinalReply
<1>8. FinalReply \in [reason : Reasons, game : SUBSET Games]
  <2>1. FinalReason \in Reasons
    BY DEF FinalReason, Reasons
  <2>2. AllListed \subseteq Games
    BY <1>2, FiniteReads DEF HasLists, HasLeagues
  <2>3. WithStatus("accepted") \subseteq Games
    BY <2>2 DEF WithStatus
  <2> QED BY <2>1, <2>3 DEF FinalReply
<1>9. IsAnswer(FinalReply)
  BY <1>2, <1>3 DEF HasLists, HasLeagues, HasMatch, IsAnswer, ListsTell, DetailsTell, DetailsKept
<1>10. RepliesInv'
  <2>1. \A r : IsAnswer(r) => IsAnswer(r)'
    BY <1>2, AnswerStays
  <2>2. PICK r \in [reason : Reasons, game : SUBSET Games] : r = FinalReply
    BY <1>8
  <2>3. replies' = Append(replies, r) /\ IsAnswer(r)'
    BY <1>7, <1>9, <2>1, <2>2
  <2> QED BY <1>2, <2>3, RepliesStay
<1>11. started' \in Nat /\ started' <= MaxRequests
  <2>1. started \in Nat /\ Len(todo) \in Nat /\ started + Len(todo) <= MaxRequests
    BY DEF ResolutionInv, CallInv, ResolutionTypes, PhasesFit, WorkIsShared, NoWorkers
  <2> QED BY <1>1, <2>1, ResolutionAssumption
<1>12. CallInv'
  BY <1>1, <1>11, CallEnds
<1> QED BY <1>2, <1>10, <1>12 DEF ResolutionInv

(* A call begins; nothing happens.                                         *)
LEMMA CallBegins ==
  ASSUME ResolutionInv, Resolve \/ UNCHANGED resolutionVars
  PROVE  ResolutionInv'
<1>1. CASE Resolve
  <2>1. /\ stage = "idle" /\ stage' = "match" /\ started' = 0 /\ ~InPhase /\ ~InPhase'
        /\ UNCHANGED <<scope, todo, resting, reading, broken, values, replies>>
    BY <1>1 DEF Resolve, InPhase
  <2>2. Remembers /\ ValuesInv' /\ RepliesInv'
    BY <2>1, NothingRead, RepliesStay DEF ResolutionInv
  <2>3. /\ NoWorkers /\ ResolutionTypes /\ NoWorkers' /\ ResolutionTypes' /\ ComesFar'
    BY <2>1 DEF ResolutionInv, CallInv, NoWorkers, ResolutionTypes, ComesFar
  <2>4. PhasesFit'
    <3>1. Len(todo') = 0 /\ Cardinality(reading') + resting' <= MaxConcurrency
      BY <2>1, <2>3 DEF NoWorkers, ResolutionInv, CallInv, PhasesFit
    <3> QED BY <2>1, <3>1, ResolutionAssumption DEF PhasesFit
  <2> QED BY <2>1, <2>2, <2>3, <2>4 DEF ResolutionInv, CallInv
<1>2. CASE UNCHANGED resolutionVars
  <2>1. Remembers /\ ValuesInv' /\ RepliesInv'
    BY <1>2, NothingRead, RepliesStay DEF ResolutionInv, resolutionVars
  <2>2. CallInv'
    <3>1. UNCHANGED <<stage, scope, todo, resting, reading, broken, started, values>>
      BY <1>2 DEF resolutionVars
    <3>2. Fit' = Fit /\ AllListed' = AllListed /\ Match' = Match
      BY <3>1 DEF Fit, AllListed, Match
    <3>3. HasMatch' = HasMatch /\ HasLeagues' = HasLeagues
      BY <3>1, <3>2 DEF HasMatch, HasLeagues, ListsFit, IsKept
    <3>4. HasLists' = HasLists
      BY <3>1, <3>2, <3>3 DEF HasLists, ListsKept, DetailsFit, IsKept
    <3>5. (ResolutionTypes /\ ComesFar /\ PhasesFit)'
      BY <3>1, <3>3, <3>4 DEF ResolutionInv, CallInv, ResolutionTypes, ComesFar, PhasesFit
    <3>6. Ids' = Ids /\ RequestsBefore' = RequestsBefore
      BY <3>1, <3>2 DEF Ids, RequestsBefore
    <3>7. WorkIsShared => WorkIsShared'
      BY <3>1, <3>6 DEF WorkIsShared, Distinct, Lists, IsKept, Key
    <3> QED BY <3>1, <3>5, <3>7 DEF ResolutionInv, CallInv, InPhase, NoWorkers
  <2> QED BY <2>1, <2>2 DEF ResolutionInv
<1> QED BY <1>1, <1>2

(* No step of the calls of a run breaks the invariant.                     *)
LEMMA ResolutionStep ==
  ASSUME ResolutionInv, ResolutionNext \/ UNCHANGED resolutionVars
  PROVE  ResolutionInv'
<1>1. CASE Join \/ ResolveCancelled \/ SequentialReadFails
  BY <1>1, CallGivesUp DEF Join, ResolveCancelled, SequentialReadFails
<1> QED
  BY <1>1, MatchRead, LeaguesRead, WorkerBegins, ReadReturned, ReadFailed, ListsEnd, DetailsEnd,
     CallBegins
  DEF ResolutionNext

(* Only one answer follows from a cache.                                   *)
LEMMA AnswersAgree ==
  ASSUME NEW r, NEW s, IsAnswer(r), IsAnswer(s)
  PROVE  r = s
BY DEF IsAnswer, ListsTell, DetailsTell

(* A game that is named is the only one that is not contradicted.          *)
LEMMA NamedSoundly ==
  ASSUME ValuesInv, NEW r, IsAnswer(r), r.reason = "resolved"
  PROVE  /\ Match.identified /\ Match.winner /\ Cardinality(r.game) = 1
         /\ \A game \in r.game :
              /\ game \in AllListed
              /\ values[<<"details", game>>]
                   = [timing |-> "inside", aligned |-> TRUE, winner |-> "same"]
         /\ \A other \in AllListed \ r.game : Contradicted(values[<<"details", other>>])
<1>1. IsKept(<<"match">>) /\ Match.target # "resolved" /\ Match.target # "no_candidates"
  BY MatchTyped DEF IsAnswer
<1>2. /\ IsKept(<<"leagues">>) /\ ListsKept /\ DetailsKept /\ r = FinalReply
      /\ Match.target = "ready"
  BY <1>1 DEF IsAnswer, ListsTell, DetailsTell, Plain
<1>3. /\ Match.identified \in BOOLEAN /\ Match.winner \in BOOLEAN
      /\ AllListed \subseteq Games /\ IsFiniteSet(AllListed)
  BY <1>1, <1>2, MatchTyped, FiniteReads
<1>4. FinalReason = "resolved" /\ r.game = WithStatus("accepted")
  BY <1>2 DEF FinalReply
<1>5. /\ ~(Cardinality(WithStatus("accepted")) > 1) /\ WithStatus("unresolved") = {}
      /\ WithStatus("accepted") # {} /\ Match.identified
  BY <1>3, <1>4 DEF FinalReason
<1>6. Cardinality(r.game) = 1
  <2>1. r.game \in SUBSET AllListed
    BY <1>4 DEF WithStatus
  <2>2. IsFiniteSet(r.game) /\ Cardinality(r.game) \in Nat
    BY <1>3, <2>1, FS_Subset, FS_CardinalityType
  <2>3. Cardinality(r.game) # 0
    BY <1>4, <1>5, <2>2, FS_EmptySet
  <2> QED BY <1>4, <1>5, <2>2, <2>3
<1>7. ASSUME NEW g \in AllListed
      PROVE  /\ values[<<"details", g>>] \in Records
             /\ Assessment(g) \in {"accepted", "excluded", "unresolved"}
  <2>1. values[<<"details", g>>] \in Records
    BY <1>2, <1>3 DEF DetailsKept, ValuesInv
  <2>2. Assessment(g) \in {"accepted", "excluded", "unresolved"}
    BY DEF Assessment
  <2> QED BY <2>1, <2>2
<1>8. ASSUME NEW g \in r.game
      PROVE  /\ g \in AllListed /\ Match.winner
             /\ values[<<"details", g>>]
                  = [timing |-> "inside", aligned |-> TRUE, winner |-> "same"]
  <2>1. g \in AllListed /\ Assessment(g) = "accepted"
    BY <1>4 DEF WithStatus
  <2>2. PICK record \in Records : record = values[<<"details", g>>]
    BY <1>7, <2>1
  <2>3. record.timing = "inside" /\ Supported(record)
    BY <2>1, <2>2 DEF Assessment
  <2>4. record \in [timing : {"inside", "outside", "unusable"}, aligned : BOOLEAN,
                    winner : {"same", "other", "missing"}]
    BY ResolutionAssumption
  <2> QED BY <1>3, <2>1, <2>2, <2>3, <2>4 DEF Supported, WinnerIs
<1>9. ASSUME NEW g \in AllListed \ r.game
      PROVE  Contradicted(values[<<"details", g>>])
  <2>1. Assessment(g) = "excluded"
    BY <1>4, <1>5, <1>7 DEF WithStatus
  <2>2. LET record == values[<<"details", g>>]
        IN  record.timing = "outside" \/ (record.timing = "inside" /\ Conflicting(record))
    BY <2>1 DEF Assessment
  <2> QED BY <2>2 DEF Contradicted, Conflicting, WinnerIs
<1>10. Match.winner
  BY <1>4, <1>5, <1>8
<1> QED BY <1>5, <1>6, <1>8, <1>9, <1>10

(* No game is denied before every list was seen to be empty.               *)
LEMMA NoneSoundly ==
  ASSUME ValuesInv, NEW r, IsAnswer(r), r.reason = "no_candidates"
  PROVE  \A l \in Fit : values[<<"lists", l>>] = {}
<1>1. IsKept(<<"match">>) /\ Match.target # "no_candidates"
  BY MatchTyped DEF IsAnswer
<1>2. r = FinalReply
  BY <1>1 DEF IsAnswer, ListsTell, DetailsTell, Plain
<1>3. AllListed = {}
  BY <1>2 DEF FinalReply, FinalReason
<1> QED BY <1>3 DEF AllListed

(* What the invariant means for the answers a run gets.                    *)
LEMMA ResolutionSound == ResolutionInv => ResolutionIsSound
<1> SUFFICES ASSUME ResolutionInv PROVE ResolutionIsSound
  OBVIOUS
<1>1. ValuesInv /\ \A i \in Given : \E r : r = replies[i] /\ IsAnswer(r)
  BY DEF ResolutionInv, RepliesInv, Answered
<1>2. NamedIsTheOnly
  BY <1>1, NamedSoundly DEF NamedIsTheOnly, AllListed, Fit
<1>3. NoneMeansNone
  BY <1>1, NoneSoundly DEF NoneMeansNone, Fit
<1>4. PhasesFit /\ NothingReadsOn
  BY DEF ResolutionInv, CallInv, NothingReadsOn, InPhase, NoWorkers
<1>5. OneRunOneAnswer
  <2> SUFFICES ASSUME NEW i \in Given, NEW j \in Given PROVE replies[i] = replies[j]
    BY DEF OneRunOneAnswer
  <2> QED BY <1>1, AnswersAgree
<1> QED BY <1>2, <1>3, <1>4, <1>5 DEF ResolutionIsSound

-----------------------------------------------------------------------------
(* Spec => []ServedSoundly: whatever a source answers, however reads fail  *)
(* and calls are cancelled, every call of a run that gets an answer gets   *)
(* the same, a game is named only when it is the only one not contradicted *)
(* and no phase exceeds its budget (request_flow.py, resolver.py); and     *)
(* whichever step of the start or close of the process fails, work finds   *)
(* open what it uses and nothing is left at work (main.py).                *)
THEOREM ServedHolds == Spec => []ServedSoundly
<1>1. Init => ResolutionInv /\ ProcessInv
  <2>1. Init => LifespanInit /\ ValidSettings(settings) /\ ResolutionInit
    BY LifespanAssumption DEF Init, LifespanInit
  <2> QED BY <2>1, ProcessInitially, ResolutionInitially
<1>2. ResolutionInv /\ ProcessInv /\ [Next]_allVars => (ResolutionInv /\ ProcessInv)'
  <2> SUFFICES ASSUME ResolutionInv, ProcessInv, [Next]_allVars
      PROVE  (ResolutionInv /\ ProcessInv)'
    OBVIOUS
  <2>1. ResolutionNext \/ UNCHANGED resolutionVars
    BY DEF Next, allVars
  <2>2. LifespanNext \/ UNCHANGED lifespanVars
    BY DEF Next, allVars
  <2> QED BY <2>1, <2>2, ResolutionStep, ProcessStep
<1>3. ResolutionInv /\ ProcessInv => ServedSoundly
  BY ResolutionSound, ProcessSound DEF ServedSoundly
<1> QED BY <1>1, <1>2, <1>3, PTL DEF Spec
=============================================================================
