------------------------------ MODULE MCServed ------------------------------
(***************************************************************************)
(* What serves a chat run, one part at a time: the events its clients      *)
(* follow, the run of the agent graph behind it, the match resolution its  *)
(* tools ask for, the process that holds them.  A behaviour explores the   *)
(* part it begins with; the others rest.                                   *)
(***************************************************************************)
EXTENDS RunEvents, LegacyGraph, GameResolution, Lifespan, TLC

VARIABLE part

allVars == <<part, vars, graphVars, resolutionVars, lifespanVars>>

Init ==
  /\ part \in {"events", "graph", "resolution", "process"}
  /\ EventInit /\ GraphInit /\ ResolutionInit /\ LifespanInit
  /\ part # "process" => settings = {}

Next ==
  /\ UNCHANGED part
  /\ \/ part = "events" /\ EventNext /\ UNCHANGED <<graphVars, resolutionVars, lifespanVars>>
     \/ part = "graph" /\ GraphNext /\ UNCHANGED <<vars, resolutionVars, lifespanVars>>
     \/ part = "resolution" /\ ResolutionNext /\ UNCHANGED <<vars, graphVars, lifespanVars>>
     \/ part = "process" /\ LifespanNext /\ UNCHANGED <<vars, graphVars, resolutionVars>>

Spec == Init /\ [][Next]_allVars

(* A search that yields one kind, statistics that owe another, a mock, a    *)
(* lookup of the history; statistics may refer to what the search found.   *)
MCYields == "find" :> {"k1"} @@ "stat" :> {"k1", "k2"} @@ "mock" :> {"k1"} @@ "history" :> {}
MCMandatory == "find" :> {} @@ "stat" :> {"k2"} @@ "mock" :> {} @@ "history" :> {}
MCRefers == {<<"stat", "find">>}

(* A match with or without a search term, known identities and a winner;   *)
(* games that agree, disagree in one point, or say too little.             *)
MCMatches ==
  {[target |-> "target_not_ready"],
   [target |-> "ready", searchable |-> FALSE, identified |-> TRUE, winner |-> TRUE]}
  \cup {[target |-> "ready", searchable |-> TRUE, identified |-> i, winner |-> w]
          : i \in BOOLEAN, w \in BOOLEAN}
GameRecord(timing, aligned, winner) == [timing |-> timing, aligned |-> aligned, winner |-> winner]
MCRecords ==
  {GameRecord("inside", TRUE, "same"), GameRecord("inside", TRUE, "other"),
   GameRecord("inside", FALSE, "same"), GameRecord("outside", TRUE, "same"),
   GameRecord("unusable", TRUE, "same")}

(* Every setting a process may start with                                  *)
MCSettings == {on \in SUBSET Switches : ValidSettings(on)}

(* Games are resolved soundly (ResolutionIsSound of GameResolution), by a   *)
(* process that starts, works and ends soundly (ProcessIsSound of Lifespan) *)
ServedSoundly == ResolutionIsSound /\ ProcessIsSound
=============================================================================
