---------------------------- MODULE GameResolution ----------------------------
(***************************************************************************)
(* Which Valve game is a game of a PandaScore match: the calls of one      *)
(* agent run (providers/match_resolution).  A call reads the match, the    *)
(* leagues, the lists of the leagues whose names fit, and the details of   *)
(* every game that fits in time, with a few workers side by side, then     *)
(* decides.  Reads of a run share a cache (providers/source_reads.py).     *)
(*                                                                         *)
(* A source may answer anything the adapters let pass; names, times and    *)
(* durations are reduced to how they compare.  No caller confirms mappings. *)
(***************************************************************************)
EXTENDS Integers, Sequences, FiniteSets, SequencesExt

CONSTANTS
  Matches,          \* what PandaScore may say of the match
  Leagues, Games,
  Records,          \* what a game's detail may say beside the target
  MaxLeagues, MaxDetails, MaxRequests, MaxConcurrency,   \* the read policy
  MaxResolves       \* calls of the run

(* What the check of the target game may come to                           *)
TargetChecks ==
  {"ready", "insufficient_signals", "target_game_not_found", "ambiguous_target_game",
   "target_not_ready"}

ASSUME ResolutionAssumption ==
  /\ {MaxLeagues, MaxDetails, MaxRequests, MaxConcurrency, MaxResolves} \subseteq Nat \ {0}
  /\ IsFiniteSet(Leagues) /\ IsFiniteSet(Games)
  /\ \A match \in Matches :
       /\ match.target \in TargetChecks
       /\ match.target = "ready" =>
            {match.searchable, match.identified, match.winner} \subseteq BOOLEAN
  /\ Records \subseteq [timing : {"inside", "outside", "unusable"}, aligned : BOOLEAN,
                        winner : {"same", "other", "missing"}]

VARIABLES
  stage,       \* what the call awaits, or how it rests
  scope,       \* the identities of the current phase
  todo,        \* ... which no worker has taken
  resting,     \* workers that have not started
  reading,     \* ... and those that read
  broken,      \* a worker has failed
  started,     \* requests_started
  values,      \* the cache: what was read, by key
  replies      \* what the calls of the run came to

resolutionVars == <<stage, scope, todo, resting, reading, broken, started, values, replies>>

Absent == [target |-> "match_not_found"]
NoScope == <<>>

ResolutionInit ==
  /\ stage = "idle" /\ scope = NoScope /\ todo = <<>> /\ resting = 0 /\ reading = {}
  /\ broken = FALSE /\ started = 0 /\ values = <<>> /\ replies = <<>>

----------------------------------------------------------------------------
(* One read: the cache is asked first, only successes are kept             *)

IsKept(key) == key \in DOMAIN values
SourceSays(key, answers) == IF IsKept(key) THEN {values[key]} ELSE answers
Keep(key, value) ==
  values' = [k \in DOMAIN values \cup {key} |-> IF k = key THEN value ELSE values[k]]

Rest == scope' = NoScope /\ todo' = <<>> /\ resting' = 0 /\ reading' = {} /\ broken' = FALSE
Reply(reason) ==
  /\ stage' = "idle" /\ Rest
  /\ replies' = Append(replies, [reason |-> reason, game |-> {}])

(* A phase begins only if all of it fits what is left of the budget *)
BeginPhase(name, identities, requests) ==
  IF Len(identities) > MaxRequests - requests
  THEN Reply("budget_exhausted")
  ELSE /\ stage' = name /\ scope' = identities /\ todo' = identities
       /\ resting' = IF Len(identities) < MaxConcurrency THEN Len(identities) ELSE MaxConcurrency
       /\ reading' = {} /\ UNCHANGED <<broken, replies>>

Resolve ==
  /\ stage = "idle" /\ Len(replies) < MaxResolves
  /\ stage' = "match" /\ started' = 0
  /\ UNCHANGED <<scope, todo, resting, reading, broken, values, replies>>

Match == values[<<"match">>]

ReadMatch ==
  /\ stage = "match" /\ started' = started + 1
  /\ \E match \in SourceSays(<<"match">>, Matches \cup {Absent}) :
       /\ Keep(<<"match">>, match)
       /\ IF match.target # "ready"
          THEN Reply(match.target)
          ELSE stage' = "leagues" /\ UNCHANGED <<scope, todo, resting, reading, broken, replies>>

(* The leagues whose names hold the brand and contradict no season or year *)
Fitting == SUBSET Leagues

ReadLeagues ==
  /\ stage = "leagues"
  /\ IF started = MaxRequests
     THEN Reply("budget_exhausted") /\ UNCHANGED <<started, values>>
     ELSE /\ started' = started + 1
          /\ \E fitting \in SourceSays(<<"leagues">>, Fitting) :
               /\ Keep(<<"leagues">>, fitting)
               /\ CASE ~Match.searchable -> Reply("insufficient_context")
                    [] Match.searchable /\ fitting = {} -> Reply("no_league_candidates")
                    [] Match.searchable /\ Cardinality(fitting) > MaxLeagues ->
                         Reply("budget_exhausted")
                    [] OTHER -> BeginPhase("lists", SetToSeq(fitting), started + 1)

----------------------------------------------------------------------------
(* The workers of a phase share what is left to read                       *)

Key(identity) == <<stage, identity>>
InWindow == SUBSET Games   \* rows of a list within both tolerances
Answers == IF stage = "lists" THEN InWindow ELSE Records
InPhase == stage \in {"lists", "details"}

(* A worker goes through what is cached until it must wait or has no more *)
Hits == CHOOSE n \in 0..Len(todo) :
          /\ \A i \in 1..n : IsKept(Key(todo[i]))
          /\ n < Len(todo) => ~IsKept(Key(todo[n + 1]))

GoOn(others) ==
  IF broken \/ Hits = Len(todo)
  THEN todo' = <<>> /\ reading' = others /\ started' = started + (IF broken THEN 0 ELSE Hits)
  ELSE /\ todo' = SubSeq(todo, Hits + 2, Len(todo)) /\ reading' = others \cup {todo[Hits + 1]}
       /\ started' = started + Hits + 1

WorkerStarts ==
  /\ InPhase /\ resting > 0 /\ resting' = resting - 1 /\ GoOn(reading)
  /\ UNCHANGED <<stage, scope, broken, values, replies>>

ReadReturns ==
  /\ InPhase /\ \E id \in reading, value \in Answers : Keep(Key(id), value) /\ GoOn(reading \ {id})
  /\ UNCHANGED <<stage, scope, resting, broken, replies>>

ReadFails ==
  /\ InPhase /\ \E id \in reading : reading' = reading \ {id}
  /\ broken' = TRUE
  /\ UNCHANGED <<stage, scope, todo, resting, started, values, replies>>

(* The call sees the failure, cancels the other workers and joins them *)
Join ==
  /\ InPhase /\ broken /\ Reply("failed") /\ UNCHANGED <<started, values>>

PhaseIsRead == ~broken /\ resting = 0 /\ reading = {} /\ todo = <<>>

Listed == UNION {values[<<"lists", scope[i]>>] : i \in 1..Len(scope)}

EndLists ==
  /\ stage = "lists" /\ PhaseIsRead
  /\ IF Cardinality(Listed) > MaxDetails
     THEN Reply("budget_exhausted")
     ELSE BeginPhase("details", SetToSeq(Listed), started)
  /\ UNCHANGED <<started, values>>

----------------------------------------------------------------------------
(* The decision                                                            *)

(* Teams and winner of a record against those of the match *)
WinnerIs(record, winner) == Match.winner /\ record.winner = winner
Supported(record) == record.aligned /\ WinnerIs(record, "same")
Conflicting(record) == record.aligned /\ WinnerIs(record, "other")

(* Of one candidate, the same in every league that lists it *)
Assessment(game) ==
  LET record == values[<<"details", game>>] IN
  CASE record.timing = "unusable" -> "unresolved"
    [] record.timing = "outside" -> "excluded"
    [] record.timing = "inside" /\ Conflicting(record) -> "excluded"
    [] record.timing = "inside" /\ Supported(record) -> "accepted"
    [] OTHER -> "unresolved"

Assessed(status) == {scope[i] : i \in {i \in 1..Len(scope) : Assessment(scope[i]) = status}}

(* Broken: a candidate without evidence does not stand in the way *)
VerdictDespiteUnresolved ==
  IF Cardinality(Assessed("accepted")) > 1 THEN "ambiguous"
  ELSE IF scope = <<>> THEN "no_candidates"
  ELSE IF Assessed("accepted") = {} THEN "no_acceptable_candidate"
  ELSE "resolved"

(* The first rule that fits *)
Verdict ==
  IF Cardinality(Assessed("accepted")) > 1 THEN "ambiguous"
  ELSE IF Assessed("unresolved") # {} THEN "evidence_insufficient"
  ELSE IF scope = <<>> THEN "no_candidates"
  ELSE IF Assessed("accepted") = {} THEN "no_acceptable_candidate"
  ELSE IF ~Match.identified THEN "evidence_insufficient"
  ELSE "resolved"

EndDetails ==
  /\ stage = "details" /\ PhaseIsRead
  /\ replies' = Append(replies,
       [reason |-> Verdict, game |-> IF Verdict = "resolved" THEN Assessed("accepted") ELSE {}])
  /\ stage' = "idle" /\ Rest
  /\ UNCHANGED <<started, values>>

----------------------------------------------------------------------------

(* The tool's time is up, or its run is cancelled *)
ResolveCancelled ==
  /\ stage # "idle" /\ Reply("failed") /\ UNCHANGED <<started, values>>

SequentialReadFails ==
  /\ stage \in {"match", "leagues"} /\ Reply("failed") /\ UNCHANGED <<started, values>>

ResolutionNext ==
  \/ Resolve \/ ReadMatch \/ ReadLeagues \/ SequentialReadFails
  \/ WorkerStarts \/ ReadReturns \/ ReadFails \/ Join \/ EndLists \/ EndDetails
  \/ ResolveCancelled

ResolutionSpec == ResolutionInit /\ [][ResolutionNext]_resolutionVars

----------------------------------------------------------------------------
(* Properties                                                              *)

Given == {i \in 1..Len(replies) : replies[i].reason # "failed"}
Contradicted(record) ==
  record.timing = "outside" \/ (record.timing = "inside" /\ record.aligned /\ record.winner = "other")

(* A game is named only when every list whose league fits was read whole,  *)
(* it agrees with the target in time, teams and winner, and every other    *)
(* listed game is contradicted by its own record (resolver.py 148, 251).   *)
NamedIsTheOnly ==
  \A i \in Given : replies[i].reason = "resolved" =>
    LET all == UNION {values[<<"lists", l>>] : l \in values[<<"leagues">>]} IN
    /\ Match.identified /\ Match.winner /\ Cardinality(replies[i].game) = 1
    /\ \A game \in replies[i].game :
         game \in all /\ values[<<"details", game>>]
                           = [timing |-> "inside", aligned |-> TRUE, winner |-> "same"]
    /\ \A other \in all \ replies[i].game : Contradicted(values[<<"details", other>>])

(* No game is denied before every list was seen to be empty.               *)
NoneMeansNone ==
  \A i \in Given : replies[i].reason = "no_candidates" =>
    \A l \in values[<<"leagues">>] : values[<<"lists", l>>] = {}

(* The check inside a read never stops a phase half way: what a phase has  *)
(* left always fits, and workers keep to their number (request_flow.py     *)
(* 235, 283, 308).                                                         *)
PhasesFit ==
  /\ started + Len(todo) <= MaxRequests
  /\ Cardinality(reading) + resting <= MaxConcurrency

(* When a call has ended no worker of it reads on.                         *)
NothingReadsOn == stage = "idle" => reading = {} /\ resting = 0

(* All calls of a run that get an answer get the same, although the        *)
(* sources move on and calls between them fail (source_reads.py 30).       *)
OneRunOneAnswer == \A i, j \in Given : replies[i] = replies[j]

ResolutionIsSound ==
  NamedIsTheOnly /\ NoneMeansNone /\ PhasesFit /\ NothingReadsOn /\ OneRunOneAnswer
=============================================================================
