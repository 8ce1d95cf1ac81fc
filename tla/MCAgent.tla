------------------------------- MODULE MCAgent -------------------------------
(***************************************************************************)
(* What an answer is made from, one part at a time: the agent's stream,    *)
(* its task state, the dialogue window, the provider's stream, the stored  *)
(* tool results.  A behaviour explores the part it begins with, and the    *)
(* others rest in an initial state.                                        *)
(***************************************************************************)
EXTENDS AgentRuntime, TaskState, RecentWindow, ModelStream, ArtifactReads, TLC

VARIABLE part

AllParts == {"runtime", "tasks", "window", "model", "artifacts"}

Init ==
  /\ part \in AllParts
  /\ RuntimeInit /\ TaskInit /\ WindowInit /\ ModelInit /\ ArtifactInit
  (* The part that begins in one of several states does so when explored *)
  /\ part # "model" => said = [text |-> 0, calls |-> <<>>]

Next ==
  /\ UNCHANGED part
  /\ \/ /\ part = "runtime" /\ RuntimeNext
        /\ UNCHANGED <<taskVars, vars, modelVars, artifactVars>>
     \/ /\ part = "tasks" /\ TaskNext
        /\ UNCHANGED <<runtimeVars, vars, modelVars, artifactVars>>
     \/ /\ part = "window" /\ WindowNext
        /\ UNCHANGED <<runtimeVars, taskVars, modelVars, artifactVars>>
     \/ /\ part = "model" /\ ModelNext
        /\ UNCHANGED <<runtimeVars, taskVars, vars, artifactVars>>
     \/ /\ part = "artifacts" /\ ArtifactNext
        /\ UNCHANGED <<runtimeVars, taskVars, vars, modelVars>>

Spec == Init /\ [][Next]_<<part, runtimeVars, taskVars, vars, modelVars, artifactVars>>

(* A short turn, a turn of half the budget, a turn with a user message that *)
(* alone exceeds it.                                                       *)
MCSizes == {[user |-> 1, assistant |-> 1], [user |-> 1, assistant |-> 2],
            [user |-> 7, assistant |-> 1]}

(* Two tools that look alike once their names are made safe *)
MCToolset == <<"a.b", "a_b">>
MCSafeName == "a.b" :> <<"a_b">> @@ "a_b" :> <<"a_b">> @@ "a_b_2" :> <<"a_b", 2>>

(* A document that fits the budget, and one that does not *)
MCDocuments == {<<1, 1, 1>>, <<2, 1, 2>>}

Symmetry == Permutations(Executions)
=============================================================================
