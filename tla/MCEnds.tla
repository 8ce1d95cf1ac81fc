-------------------------------- MODULE MCEnds --------------------------------
(***************************************************************************)
(* Everything a client or an operator waits for ends, one part at a time:  *)
(* a behaviour explores the part it begins with; nothing is fair in a part *)
(* that rests, since nothing of it is enabled.                             *)
(***************************************************************************)
EXTENDS AgentRuntime, ProductChat, RecentSeries, SeriesLoad, DataUpdates, LegacyGraph

VARIABLE part

Init ==
  /\ part \in {"runtime", "chat", "series", "load", "updates", "graph"}
  /\ RuntimeInit /\ ProductInit /\ SeriesInit /\ LoadInit /\ UpdatesInit /\ GraphInit
  (* The part that begins in one of several states does so when explored *)
  /\ part # "updates" => pointer = Unset

Next ==
  /\ UNCHANGED part
  /\ \/ /\ part = "runtime" /\ RuntimeNext
        /\ UNCHANGED <<productVars, seriesVars, loadVars, updateVars, graphVars>>
     \/ /\ part = "chat" /\ ProductNext
        /\ UNCHANGED <<runtimeVars, seriesVars, loadVars, updateVars, graphVars>>
     \/ /\ part = "series" /\ SeriesNext
        /\ UNCHANGED <<runtimeVars, productVars, loadVars, updateVars, graphVars>>
     \/ /\ part = "load" /\ LoadNext
        /\ UNCHANGED <<runtimeVars, productVars, seriesVars, updateVars, graphVars>>
     \/ /\ part = "updates" /\ UpdatesNext
        /\ UNCHANGED <<runtimeVars, productVars, seriesVars, loadVars, graphVars>>
     \/ /\ part = "graph" /\ GraphNext
        /\ UNCHANGED <<runtimeVars, productVars, seriesVars, loadVars, updateVars>>

FairSpec ==
  /\ Init
  /\ [][Next]_<<part, runtimeVars, productVars, seriesVars, loadVars, updateVars, graphVars>>
  /\ RuntimeFairness /\ ProductFairness /\ SeriesFairness /\ LoadFairness /\ UpdatesFairness
  /\ GraphFairness

(* Two tools that may yield the evidence *)
MCYields == [t \in Toolbox |-> {"k1"}]
MCMandatory == [t \in Toolbox |-> {}]

(* Every stream ends, at the agent and at the client behind the lock, and  *)
(* every run of the agent graph.                                           *)
StreamsAllEnd == StreamsEnd /\ ChatStreamsEnd /\ GraphRunsEnd

(* Every homepage request is answered, every refresh reaps its tasks, and  *)
(* a published catalog is served.                                          *)
RefreshesEnd == RequestsAnswered /\ LoadEnds /\ NewestIsServed
=============================================================================
