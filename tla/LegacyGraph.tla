----------------------------- MODULE LegacyGraph -----------------------------
(***************************************************************************)
(* One run of the agent graph behind a chat run (agentic/graph.py): the    *)
(* controller plans, tools run one by one, the evidence is compared with   *)
(* what the plan requires, an answer is written and reviewed; missing      *)
(* evidence is worth one replan.  Every node first looks at the deadline   *)
(* and at its budget.                                                      *)
(*                                                                         *)
(* The registry is a parameter.  A tool yields evidence of some kinds, or  *)
(* none; the results of lookups go back to the controller.  An argument is *)
(* a literal or the result of an earlier call; a call is known by its      *)
(* fingerprint, the tool and the arguments resolved.  No tool of the       *)
(* program pauses a run, so the checkpoint's branch is left out.           *)
(***************************************************************************)
EXTENDS Integers, FiniteSets, Sequences

CONSTANTS
  Toolbox,            \* the registered tools
  Yields,             \* the kinds of evidence a tool may yield
  Mandatory,          \* ... and those each of its results must yield
  Lookups,            \* tools whose results go to the controller
  Refers,             \* <<tool, source>>: tool takes a reference to source
  Mocked,             \* tools whose source is a mock
  Literals,           \* literal arguments
  CallIds,
  PlanCapacity,       \* plan.constraints.max_tool_calls
  ControllerLimit, ToolLimit, AnswerLimit,    \* the run's budget
  LookupsPerRun,
  PlannerTries        \* 1 + planner_max_retries

ASSUME GraphAssumption ==
  /\ {ControllerLimit, ToolLimit, AnswerLimit, PlannerTries} \subseteq Nat \ {0}
  /\ LookupsPerRun \in Nat /\ ControllerLimit >= LookupsPerRun + 1
  /\ Lookups \subseteq Toolbox /\ \A t \in Lookups : Yields[t] = {}
  /\ \A t \in Toolbox : Mandatory[t] \subseteq Yields[t]

VARIABLES
  node,       \* the node that runs next, or an await inside a node
  overdue,    \* the deadline has passed
  tries,      \* answers of the model the controller refused in this decision
  spent,      \* what the run has used of its budget
  work,       \* the state of the current attempt
  attempts,   \* the records of finalized attempts
  executed,   \* executed_call_fingerprints
  lookedUp,   \* controller_context_tool_count
  replan,     \* the recovery's baseline, missing evidence and capacity
  action,     \* recovery_action
  entered     \* the fingerprints of the handlers entered, in order

graphVars == <<node, overdue, tries, spent, work, attempts, executed, lookedUp, replan,
               action, entered>>

EvidenceKinds == UNION {Yields[t] : t \in Toolbox}
Unreadable == "unreadable"      \* a result its extractor fails on
NoPlan == [calls |-> <<>>, required |-> {}]
NoReplan == [plan |-> NoPlan, missing |-> {}, capacity |-> 0]

Fresh ==
  [index |-> 0, controller |-> "none", kind |-> "none", plan |-> NoPlan, results |-> <<>>,
   built |-> FALSE, missing |-> {}, answer |-> "none", review |-> "none",
   status |-> "error", type |-> "none", failure |-> "none"]

GraphInit ==
  /\ node = "run_init" /\ overdue = FALSE /\ tries = 0
  /\ spent = [controller |-> 0, tools |-> 0, answer |-> 0, replans |-> 0]
  /\ work = Fresh /\ attempts = <<>> /\ executed = <<>> /\ lookedUp = 0
  /\ replan = NoReplan /\ action = "none" /\ entered = <<>>

----------------------------------------------------------------------------
(* Budgets and the gate before every node                                  *)

Limit == [controller |-> ControllerLimit, tools |-> ToolLimit, answer |-> AnswerLimit,
          replans |-> 1]
Remaining(resource) ==
  IF spent[resource] < Limit[resource] THEN Limit[resource] - spent[resource] ELSE 0
Exhausted(resource) == Remaining(resource) = 0

Gate(resource) ==
  CASE overdue -> "execution_timeout"
    [] ~overdue /\ resource # "none" /\ Exhausted(resource) -> "execution_budget_error"
    [] OTHER -> "none"

GateFailed(code) == [work EXCEPT !.failure = code, !.status = "error"]

(* What a node needs beside time *)
Needs ==
  [n \in {"controller", "decision_validate", "conversation_answer", "validate", "tools",
          "controller_context", "evidence", "answer", "critic"} |->
     IF n \in {"controller", "answer"} THEN n ELSE "none"]

(* A node that only works on its attempt *)
Silent == UNCHANGED <<overdue, tries, spent, attempts, executed, lookedUp, replan, action, entered>>

GateStops ==
  /\ node \in DOMAIN Needs /\ Gate(Needs[node]) # "none"
  /\ work' = GateFailed(Gate(Needs[node])) /\ node' = "attempt_finalize"
  /\ Silent

Enters(n) == node = n /\ Gate(Needs[n]) = "none"

----------------------------------------------------------------------------
(* Plans                                                                   *)

ToolsOf(calls) == {calls[i].tool : i \in 1..Len(calls)}
IdsOf(calls) == {calls[i].id : i \in 1..Len(calls)}

(* A reference names an earlier call of the plan whose result is accepted  *)
ReferenceFits(calls, i) ==
  calls[i].arg \in CallIds =>
    \E j \in 1..i - 1 : calls[j].id = calls[i].arg /\ <<calls[i].tool, calls[j].tool>> \in Refers

IsLookupPlan(calls) == calls # <<>> /\ ToolsOf(calls) \subseteq Lookups

PlanFits(plan) ==
  /\ plan.calls # <<>> /\ Len(plan.calls) <= PlanCapacity
  /\ Cardinality(IdsOf(plan.calls)) = Len(plan.calls)
  /\ \A i \in 1..Len(plan.calls) : ReferenceFits(plan.calls, i)
  /\ ToolsOf(plan.calls) \cap Lookups # {} => IsLookupPlan(plan.calls) /\ plan.required = {}
  /\ plan.required \subseteq UNION {Yields[t] : t \in ToolsOf(plan.calls)}

(* A replan keeps the plan and appends calls of unused tools, each of      *)
(* which may yield some of what is missing, together all of it.            *)
ReplanFits(plan) ==
  LET base == replan.plan.calls
      appended == SubSeq(plan.calls, Len(base) + 1, Len(plan.calls))
  IN /\ plan.required = replan.plan.required
     /\ SubSeq(plan.calls, 1, Len(base)) = base
     /\ appended # <<>> /\ Len(appended) <= replan.capacity
     /\ IdsOf(appended) \cap IdsOf(base) = {} /\ ToolsOf(appended) \cap ToolsOf(base) = {}
     /\ \A t \in ToolsOf(appended) : Yields[t] \cap replan.missing # {}
     /\ replan.missing \subseteq UNION {Yields[t] : t \in ToolsOf(appended)}

CallsOf(n) == [1..n -> [id : CallIds, tool : Toolbox, arg : Literals \cup CallIds]]
PlanSpace ==
  UNION {{plan \in [calls : CallsOf(n), required : SUBSET EvidenceKinds] : PlanFits(plan)} :
           n \in 1..PlanCapacity}

----------------------------------------------------------------------------
(* The controller: the model is asked until an answer is valid             *)

RunInit == node = "run_init" /\ node' = "controller" /\ UNCHANGED work /\ Silent

AskController ==
  /\ Enters("controller")
  /\ spent' = [spent EXCEPT !.controller = @ + 1] /\ tries' = 0 /\ node' = "asking"
  /\ UNCHANGED <<overdue, work, attempts, executed, lookedUp, replan, action, entered>>

NoDecision(type) ==
  /\ node' = "attempt_finalize"
  /\ work' = [work EXCEPT !.controller = type, !.status = "error"]

(* No JSON, no decision, or one that breaks a rule *)
ControllerRefuses ==
  /\ node = "asking" /\ tries' = tries + 1
  /\ IF tries + 1 < PlannerTries
     THEN UNCHANGED <<node, work>>
     ELSE \E type \in {"planning_error", "decision_validation_error"} : NoDecision(type)
  /\ UNCHANGED <<overdue, spent, attempts, executed, lookedUp, replan, action, entered>>

ControllerBreaks ==
  /\ node = "asking" /\ NoDecision("planning_error")
  /\ Silent

Replies == {"direct_answer", "clarification", "context_missing", "capability_boundary"}

Decide(kind, plan) ==
  /\ node = "asking" /\ node' = "decision_validate"
  /\ work' = [work EXCEPT !.controller = "decided", !.kind = kind, !.plan = plan, !.status = "ok"]
  /\ Silent

DecideReply == replan = NoReplan /\ \E kind \in Replies : Decide(kind, NoPlan)

DecidePlan ==
  \E plan \in PlanSpace : (replan # NoReplan => ReplanFits(plan)) /\ Decide("tool_plan", plan)

(* The decision was valid when the controller took it, and still is *)
DecisionStatus ==
  [direct_answer |-> "ok", tool_plan |-> "ok", clarification |-> "clarification_required",
   context_missing |-> "insufficient_context", capability_boundary |-> "insufficient_tools"]

DecisionValidate ==
  /\ Enters("decision_validate")
  /\ work' = [work EXCEPT !.status = DecisionStatus[work.kind]]
  /\ node' = CASE work.kind = "direct_answer" -> "conversation_answer"
               [] work.kind = "tool_plan" -> "validate"
               [] OTHER -> "attempt_finalize"
  /\ Silent

ConversationAnswer ==
  /\ Enters("conversation_answer")
  /\ work' = [work EXCEPT !.answer = "direct", !.status = "ok"] /\ node' = "attempt_finalize"
  /\ Silent

Validate ==
  /\ Enters("validate")
  /\ IF PlanFits(work.plan)
     THEN work' = [work EXCEPT !.status = "ok"] /\ node' = "tools"
     ELSE work' = [work EXCEPT !.controller = "decision_validation_error", !.status = "error"]
          /\ node' = "attempt_finalize"
  /\ Silent

----------------------------------------------------------------------------
(* The tools, one call after the other                                     *)

StartTools ==
  /\ Enters("tools")
  /\ IF IsLookupPlan(work.plan.calls) /\ lookedUp + Len(work.plan.calls) > LookupsPerRun
     THEN work' = [work EXCEPT !.status = "error"] /\ node' = "attempt_finalize"
     ELSE node' = "calling" /\ UNCHANGED work
  /\ Silent

PlannedCall == work.plan.calls[Len(work.results) + 1]
Calling == node = "calling" /\ Len(work.results) < Len(work.plan.calls)

Source == CHOOSE i \in 1..Len(work.results) : work.results[i].id = PlannedCall.arg
SourceFailed == PlannedCall.arg \in CallIds /\ ~work.results[Source].ok

(* What the arguments resolve to: the source's fingerprint stands for its  *)
(* result.                                                                 *)
Fingerprint ==
  <<PlannedCall.tool>> \o
    (IF PlannedCall.arg \in CallIds THEN work.results[Source].print ELSE <<PlannedCall.arg>>)

Known == \E i \in 1..Len(executed) : executed[i].print = Fingerprint
Cached == CHOOSE r \in {executed[i] : i \in 1..Len(executed)} : r.print = Fingerprint

Result(ok, yield, stage) ==
  [id |-> PlannedCall.id, tool |-> PlannedCall.tool, ok |-> ok, yield |-> yield, stage |-> stage,
   print |-> Fingerprint]

Record(result) == work' = [work EXCEPT !.results = Append(@, result)]
Remember(result) == Record(result) /\ executed' = Append(executed, result)

(* The referenced result failed, or has nothing at the path *)
ReferenceFails ==
  /\ Calling /\ PlannedCall.arg \in CallIds /\ (SourceFailed \/ ~Known)
  /\ Record([id |-> PlannedCall.id, tool |-> PlannedCall.tool, ok |-> FALSE, yield |-> {},
             stage |-> "reference_resolution", print |-> <<>>])
  /\ UNCHANGED <<node, overdue, tries, spent, attempts, executed, lookedUp, replan, action, entered>>

Reuse ==
  /\ Calling /\ ~SourceFailed /\ Known /\ Cached.id = PlannedCall.id
  /\ Record([Cached EXCEPT !.stage = "cache_reuse"])
  /\ UNCHANGED <<node, overdue, tries, spent, attempts, executed, lookedUp, replan, action, entered>>

Duplicate ==
  /\ Calling /\ ~SourceFailed /\ Known /\ Cached.id # PlannedCall.id
  /\ work' = GateFailed("execution_budget_error") /\ node' = "attempt_finalize"
  /\ Silent

(* The value of a reference need not have the argument's type *)
InvalidArgs ==
  /\ Calling /\ ~SourceFailed /\ ~Known /\ PlannedCall.arg \in CallIds
  /\ Remember(Result(FALSE, {}, "pre_dispatch"))
  /\ UNCHANGED <<node, overdue, tries, spent, attempts, lookedUp, replan, action, entered>>

HandlerStopped ==
  /\ Calling /\ ~SourceFailed /\ ~Known /\ Gate("tools") # "none"
  /\ work' = GateFailed(Gate("tools")) /\ node' = "attempt_finalize"
  /\ Silent

EnterHandler ==
  /\ Calling /\ ~SourceFailed /\ ~Known /\ Gate("tools") = "none"
  /\ node' = "handler" /\ spent' = [spent EXCEPT !.tools = @ + 1]
  /\ entered' = Append(entered, Fingerprint)
  /\ UNCHANGED <<overdue, tries, work, attempts, executed, lookedUp, replan, action>>

HandlerReturns ==
  /\ node = "handler" /\ node' = "calling"
  /\ \/ \E yield \in (SUBSET Yields[PlannedCall.tool])
                      \cup {{Unreadable} : k \in Yields[PlannedCall.tool]} :
          Remember(Result(TRUE, yield, "handler"))
     \/ Remember(Result(FALSE, {}, "handler"))
  /\ UNCHANGED <<overdue, tries, spent, attempts, lookedUp, replan, action, entered>>

AnyFailed == \E i \in 1..Len(work.results) : ~work.results[i].ok

EndTools ==
  /\ node = "calling" /\ Len(work.results) = Len(work.plan.calls)
  /\ work' = [work EXCEPT !.status = IF AnyFailed THEN "error" ELSE "ok"]
  /\ node' = CASE AnyFailed -> "attempt_finalize"
               [] ~AnyFailed /\ IsLookupPlan(work.plan.calls) -> "controller_context"
               [] OTHER -> "evidence"
  /\ Silent

(* What was looked up is for the controller, which decides again *)
ControllerContext ==
  /\ Enters("controller_context")
  /\ lookedUp' = lookedUp + Len(work.results) /\ node' = "controller"
  /\ work' = [Fresh EXCEPT !.index = work.index, !.status = "ok"]
  /\ UNCHANGED <<overdue, tries, spent, attempts, executed, replan, action, entered>>

(* A lookup returned something that is no message *)
ContextUnreadable ==
  /\ Enters("controller_context")
  /\ work' = [work EXCEPT !.status = "error"] /\ node' = "attempt_finalize"
  /\ Silent

----------------------------------------------------------------------------
(* Evidence, answer, review                                                *)

ResultSet == {work.results[i] : i \in 1..Len(work.results)}

(* A required kind nobody yielded, by itself; what a call owes, with it *)
Missing ==
  {<<r.id, "tool_failed">> : r \in {r \in ResultSet : ~r.ok}}
    \cup {<<r.id, "extractor_failed">> : r \in {r \in ResultSet : Unreadable \in r.yield}}
    \cup {<<k>> : k \in work.plan.required \ UNION {r.yield : r \in ResultSet}}
    \cup UNION {{<<r.id, k>> : k \in Mandatory[r.tool] \ r.yield} : r \in {r \in ResultSet : r.ok}}

Evidence ==
  /\ Enters("evidence")
  /\ work' = [work EXCEPT !.built = TRUE, !.missing = Missing]
  /\ node' = IF Missing = {} THEN "answer" ELSE "attempt_finalize"
  /\ Silent

Synthesize ==
  /\ Enters("answer")
  /\ spent' = [spent EXCEPT !.answer = @ + 1] /\ node' = "answering"
  /\ UNCHANGED <<overdue, tries, work, attempts, executed, lookedUp, replan, action, entered>>

SynthesisReturns ==
  /\ node = "answering"
  /\ \E result \in {"ok", "error"} :
       /\ work' = [work EXCEPT !.answer = result]
       /\ node' = IF result = "ok" THEN "critic" ELSE "attempt_finalize"
  /\ Silent

(* The evidence is complete and the answer ok: only a mock can displease *)
Critic ==
  /\ Enters("critic")
  /\ work' = [work EXCEPT !.review =
       IF work.missing # {} \/ AnyFailed \/ ToolsOf(work.results) \cap Mocked # {}
       THEN "failed" ELSE "passed"]
  /\ node' = "attempt_finalize"
  /\ Silent

----------------------------------------------------------------------------
(* The end of an attempt and of the run                                    *)

Outcome(status, type) == [status |-> status, type |-> type]

(* The first rule that fits *)
TerminalOutcome ==
  IF work.controller \notin {"none", "decided"} THEN Outcome("error", work.controller)
  ELSE IF AnyFailed THEN Outcome("error", "tool_error")
  ELSE IF work.answer = "error" THEN Outcome("error", "answer_error")
  ELSE IF work.failure # "none" THEN Outcome("error", work.failure)
  ELSE IF work.missing # {}
    THEN Outcome("insufficient_evidence",
                 IF work.type = "replan_exhausted" THEN work.type ELSE "insufficient_evidence")
  ELSE IF work.review = "failed"
    THEN Outcome("insufficient_evidence", "insufficient_evidence")
  ELSE IF work.status \in {"clarification_required", "insufficient_context", "insufficient_tools"}
    THEN Outcome(work.status, work.kind)
  ELSE IF work.answer = "direct" THEN Outcome("ok", "direct_answer")
  ELSE IF work.status = "error" THEN Outcome("error", "execution_error")
  ELSE Outcome("ok", IF work.answer = "ok" THEN "answer" ELSE "raw_tool_results")

Settle(o) == work' = [work EXCEPT !.status = o.status, !.type = o.type]

AttemptFinalize ==
  /\ node = "attempt_finalize" /\ work.index = Len(attempts)
  /\ LET o == TerminalOutcome IN Settle(o) /\ attempts' = Append(attempts, o)
  /\ node' = "recovery"
  /\ UNCHANGED <<overdue, tries, spent, executed, lookedUp, replan, action, entered>>

Unused == {t \in Toolbox : t \notin ToolsOf(work.plan.calls)}
MissingKinds == {k \in EvidenceKinds : <<k>> \in work.missing}
YieldAll(tools) == MissingKinds \subseteq UNION {Yields[t] : t \in tools}

(* Only whole kinds are missing, and unused tools may yield each *)
WorthReplanning ==
  /\ work.missing = {<<k>> : k \in MissingKinds}
  /\ YieldAll(Unused)

FewestCalls ==
  LET sizes == {Cardinality(tools) : tools \in {tools \in SUBSET Unused : YieldAll(tools)}}
  IN CHOOSE n \in sizes : \A m \in sizes : n <= m

Capacity ==
  LET room == PlanCapacity - Len(work.plan.calls)
  IN IF room < Remaining("tools") THEN room ELSE Remaining("tools")

ReplanAffordable ==
  /\ ~Exhausted("replans") /\ ~Exhausted("controller") /\ ~Exhausted("tools")
  /\ Capacity >= FewestCalls

StopRecovery(next) ==
  /\ node = "recovery" /\ node' = "run_finalize" /\ action' = "terminal" /\ work' = next
  /\ UNCHANGED <<overdue, tries, spent, attempts, executed, lookedUp, replan, entered>>

NothingToRecover == work.missing = {} /\ StopRecovery(work)
RecoveryTooLate == work.missing # {} /\ overdue /\ StopRecovery(GateFailed("execution_timeout"))
ReplanExhausted ==
  /\ work.missing # {} /\ ~overdue
  /\ work.index = 1 \/ (WorthReplanning /\ ~ReplanAffordable)
  /\ StopRecovery([work EXCEPT !.status = "insufficient_evidence", !.type = "replan_exhausted"])
NotRecoverable ==
  work.missing # {} /\ ~overdue /\ work.index = 0 /\ ~WorthReplanning /\ StopRecovery(work)

Replan ==
  /\ node = "recovery" /\ work.missing # {} /\ ~overdue /\ work.index = 0
  /\ WorthReplanning /\ ReplanAffordable
  /\ replan' = [plan |-> work.plan, missing |-> MissingKinds, capacity |-> Capacity]
  /\ spent' = [spent EXCEPT !.replans = @ + 1]
  /\ action' = "replan" /\ node' = "attempt_reset"
  /\ UNCHANGED <<overdue, tries, work, attempts, executed, lookedUp, entered>>

(* Broken: the new attempt starts without what the first one has cached *)
AttemptResetForgets ==
  /\ node = "attempt_reset" /\ Len(attempts) = 1 /\ ~overdue
  /\ work' = [Fresh EXCEPT !.index = 1] /\ executed' = <<>> /\ action' = "none"
  /\ node' = "controller"
  /\ UNCHANGED <<overdue, tries, spent, attempts, lookedUp, replan, entered>>

AttemptReset ==
  /\ node = "attempt_reset" /\ Len(attempts) = 1
  /\ IF overdue
     THEN work' = GateFailed("execution_timeout") /\ action' = "terminal" /\ node' = "run_finalize"
     ELSE work' = [Fresh EXCEPT !.index = 1] /\ action' = "none" /\ node' = "controller"
  /\ UNCHANGED <<overdue, tries, spent, attempts, executed, lookedUp, replan, entered>>

RunFinalize ==
  /\ node = "run_finalize" /\ Len(attempts) = work.index + 1
  /\ Settle(TerminalOutcome) /\ node' = "response"
  /\ Silent

Response ==
  /\ node = "response" /\ node' = "answered"
  /\ UNCHANGED <<overdue, tries, spent, work, attempts, executed, lookedUp, replan, action, entered>>

----------------------------------------------------------------------------

Passes ==
  /\ node \notin {"run_init", "answered", "interrupted"} /\ ~overdue /\ overdue' = TRUE
  /\ UNCHANGED <<node, tries, spent, work, attempts, executed, lookedUp, replan, action, entered>>

(* The task is cancelled while it awaits, or a publication raises *)
Interrupted ==
  /\ node \in {"asking", "handler", "answering"} /\ node' = "interrupted"
  /\ UNCHANGED <<overdue, tries, spent, work, attempts, executed, lookedUp, replan, action, entered>>

GraphStep ==
  \/ GateStops \/ AskController \/ ControllerRefuses \/ ControllerBreaks \/ DecideReply
  \/ DecidePlan \/ DecisionValidate \/ ConversationAnswer \/ Validate
  \/ StartTools \/ ReferenceFails \/ Reuse \/ Duplicate \/ InvalidArgs \/ HandlerStopped
  \/ EnterHandler \/ HandlerReturns \/ EndTools \/ ControllerContext \/ ContextUnreadable
  \/ Evidence \/ Synthesize \/ SynthesisReturns \/ Critic
  \/ AttemptFinalize \/ NothingToRecover \/ RecoveryTooLate \/ ReplanExhausted
  \/ NotRecoverable \/ Replan \/ AttemptReset \/ RunFinalize \/ Response

GraphNext == RunInit \/ GraphStep \/ Passes \/ Interrupted

GraphSpec == GraphInit /\ [][GraphNext]_graphVars

(* The model, the tools and the event loop answer; nothing is assumed of   *)
(* who begins a run.                                                       *)
GraphFairness == WF_graphVars(GraphStep)

----------------------------------------------------------------------------
(* Properties                                                              *)

(* Over both attempts no handler runs twice for the same call, and each    *)
(* run is paid for (tools.py 134).                                         *)
CallsRunOnce ==
  /\ \A i, j \in 1..Len(entered) : entered[i] = entered[j] => i = j
  /\ spent.tools = Len(entered)

(* No budget is overdrawn, lookups included, however the attempts split it *)
(* (guards.py 11, graph.py 327).                                           *)
BudgetsHold ==
  /\ \A resource \in DOMAIN Limit : spent[resource] <= Limit[resource]
  /\ lookedUp <= LookupsPerRun

(* The assertions of the nodes hold: attempts are finalized in order, once *)
(* each, and only an attempt without its evidence is repeated              *)
(* (finalization.py 9, response.py 16).                                    *)
AttemptsInOrder ==
  /\ node = "attempt_finalize" => Len(attempts) = work.index
  /\ node \in {"recovery", "attempt_reset", "run_finalize", "response", "answered"} =>
       Len(attempts) = work.index + 1
  /\ Len(attempts) = 2 => attempts[1].status = "insufficient_evidence"

(* An answer from tools rests on results of every planned call, with every *)
(* kind the plan of the first attempt asked for, none of them from a mock. *)
AnswersAreGrounded ==
  node = "answered" /\ work.status = "ok" /\ work.kind = "tool_plan" =>
    /\ work.answer = "ok" /\ work.review = "passed" /\ attempts[Len(attempts)].status = "ok"
    /\ [i \in 1..Len(work.results) |-> work.results[i].id]
         = [i \in 1..Len(work.plan.calls) |-> work.plan.calls[i].id]
    /\ ~AnyFailed /\ ToolsOf(work.plan.calls) \cap Mocked = {}
    /\ replan.plan.required \cup work.plan.required \subseteq UNION {r.yield : r \in ResultSet}

(* What the caller is told is what the last attempt came to, unless time   *)
(* ran out between the two (summaries.py 15).                              *)
OutcomeIsTrue ==
  node = "answered" =>
    \/ work.status = attempts[Len(attempts)].status
    \/ work.status = "error" /\ work.type = "execution_timeout" /\ overdue

(* What one run of the graph promises its caller, from agentic/graph.py and *)
(* its nodes: calls, budgets, attempts, grounding and outcome together.    *)
RunIsSound ==
  CallsRunOnce /\ BudgetsHold /\ AttemptsInOrder /\ AnswersAreGrounded /\ OutcomeIsTrue

(* Every run that begins comes to a response, whatever it plans, repeats   *)
(* and waits for.                                                          *)
GraphRunsEnd == node # "run_init" ~> node \in {"answered", "interrupted"}
=============================================================================
