---------------------------- MODULE AgentProtocol ----------------------------
(***************************************************************************)
(* What a consumer of AgentRuntime.run_stream may rely on: the order of    *)
(* the events of one stream (agent/events.py), as the product's projector  *)
(* (product/runtime_projection.py) and its persistence read them.          *)
(***************************************************************************)
EXTENDS Naturals

VARIABLES
  stage,     \* none, execution, answer, or how the stream ended
  attempt,   \* identity of the last answer attempt, 0 before the first
  open,      \* that attempt may still receive text or complete
  spoken     \* it has published provisional text

protocolVars == <<stage, attempt, open, spoken>>

Running == {"execution", "answer"}
Endings == {"completed", "failed", "cancelled", "closed"}

ProtocolInit == stage = "none" /\ attempt = 0 /\ open = FALSE /\ spoken = FALSE

(* AgentStarted: a stream begins, after the one before it has ended *)
AgentStarted ==
  /\ stage \notin Running
  /\ stage' = "execution" /\ attempt' = 0 /\ open' = FALSE /\ spoken' = FALSE

AnswerStageStarted ==
  /\ stage = "execution"
  /\ stage' = "answer"
  /\ UNCHANGED <<attempt, open, spoken>>

(* A new attempt has a new identity, and replaces the provisional text of  *)
(* the one before it.                                                      *)
AnswerAttemptStarted ==
  /\ stage = "answer"
  /\ attempt' \in Nat \ {0} /\ attempt' # attempt /\ open' = TRUE /\ spoken' = FALSE
  /\ UNCHANGED stage

TextDelta == open /\ spoken' = TRUE /\ UNCHANGED <<stage, attempt, open>>

(* An attempt fails at most once, and says nothing more *)
AnswerAttemptFailed ==
  /\ open
  /\ open' = FALSE
  /\ UNCHANGED <<stage, attempt, spoken>>

(* Only an attempt that has not failed can be the answer *)
AgentCompleted ==
  /\ stage = "answer" /\ open
  /\ stage' = "completed" /\ open' = FALSE /\ attempt' = 0 /\ spoken' = FALSE

(* AgentFailed, AgentCancelled, or a consumer that closes the stream.      *)
Broken(how) ==
  /\ stage \in Running
  /\ stage' = how /\ open' = FALSE /\ attempt' = 0 /\ spoken' = FALSE

ProtocolNext ==
  \/ AgentStarted \/ AnswerStageStarted \/ AnswerAttemptStarted \/ TextDelta
  \/ AnswerAttemptFailed \/ AgentCompleted
  \/ \E how \in {"failed", "cancelled", "closed"} : Broken(how)

ProtocolSpec == ProtocolInit /\ [][ProtocolNext]_protocolVars
=============================================================================
