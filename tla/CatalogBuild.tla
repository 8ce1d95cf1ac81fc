----------------------------- MODULE CatalogBuild -----------------------------
(***************************************************************************)
(* How one refresh makes a catalog and patch notes of Valve's data feed:   *)
(* the fetch session that shares every answer (fetch_session.py), its      *)
(* retries (datafeed.py), and the threads that ask it (game_data_sync.py): *)
(* the catalog's lists, then its hero and item branches with their pools   *)
(* of detail requests, and the patch notes beside them.  Valve publishes   *)
(* while they ask, so that answers may describe different versions.        *)
(***************************************************************************)
EXTENDS Integers, FiniteSets

CONSTANTS
  Heroes, Items,
  MaxVersion,      \* bound: versions of Valve's data, each with a patch
  Owned,           \* [1..MaxVersion -> [Heroes -> sets of abilities]]
  Listed,          \* [1..MaxVersion -> abilities of the ability list]
  Reviewed,        \* the versions whose items pass the exclusion's review
  PoolSize,        \* max_workers of a pool of detail requests
  MaxConcurrency,  \* calls of the session at a time
  Attempts,        \* max_attempts of the client
  MaxErrors        \* bound: failing attempts

ASSUME BuildAssumption ==
  /\ {MaxVersion, PoolSize, MaxConcurrency, Attempts} \subseteq Nat \ {0} /\ MaxErrors \in Nat
  /\ Reviewed \subseteq 1..MaxVersion

Abilities == UNION {Listed[v] \cup UNION {Owned[v][h] : h \in Heroes} : v \in 1..MaxVersion}
Languages == {"english", "schinese"}
Lists == {"herolist", "abilitylist", "itemlist"}
FeedRequests == {<<"patchnoteslist">>, <<"patchnotes">>} \cup (Lists \X Languages)
  \cup ({"herodata"} \X Heroes \X Languages) \cup ({"abilitydata"} \X Abilities \X Languages)
  \cup ({"itemdata"} \X Items \X Languages)

FeedJobs == {"catalog", "patches"}
Branches == {"heroes", "items"}
Askers == FeedJobs \cup Branches

VARIABLES
  valve,     \* the version Valve serves
  answers,   \* the session's futures
  stage,     \* how far each thread is
  asked,     \* the requests of its stage a thread has made
  errors     \* failing attempts

buildVars == <<valve, answers, stage, asked, errors>>

Unasked == [state |-> "none", at |-> 0]
Over == 9
Broken == 10
Ended == {Over, Broken}

BuildInit ==
  /\ valve = 1 /\ answers = [k \in FeedRequests |-> Unasked] /\ errors = 0
  /\ stage = [t \in Askers |-> IF t \in FeedJobs THEN 1 ELSE 0]
  /\ asked = [t \in Askers |-> {}]
-----------------------------------------------------------------------------
Resolved(k) == answers[k].state \in {"done", "failed"}
Version(k) == answers[k].at
Calling == {k \in FeedRequests : answers[k].state = "calling"}

(* The abilities of the heroes' details, which name their owners *)
HeroAbilities(lang) == UNION {Owned[Version(<<"herodata", h, lang>>)][h] : h \in Heroes}

ListedAbilities == Listed[Version(<<"abilitylist", "english">>)]

(* _auxiliary_ability_ids: listed abilities no hero's details describe *)
Supplemental == ListedAbilities \ HeroAbilities("english")

ListStages == << <<"herolist", "english">>, <<"herolist", "schinese">>,
  <<"abilitylist", "english">>, <<"abilitylist", "schinese">>,
  <<"itemlist", "english">>, <<"itemlist", "schinese">> >>
NoteStages == << <<"patchnoteslist">>, <<"patchnotes">>,
  <<"herolist", "english">>, <<"itemlist", "english">>, <<"abilitylist", "english">> >>

Details(what, ids, n) == {<<what, i, IF n = 1 THEN "english" ELSE "schinese">> : i \in ids}

(* What a thread asks for in its stage: one list after the other, or the   *)
(* details of _parallel_details, a language at a time.                     *)
Needs(t) ==
  CASE t = "patches" -> {NoteStages[stage[t]]}
    [] t = "catalog" -> IF stage[t] = 1 THEN {<<"patchnoteslist">>}
                        ELSE IF stage[t] < 8 THEN {ListStages[stage[t] - 1]} ELSE {}
    [] t = "items" -> Details("itemdata", Items, stage[t])
    [] OTHER -> IF stage[t] < 3 THEN Details("herodata", Heroes, stage[t])
                ELSE Details("abilitydata", Supplemental, stage[t] - 2)

Busy(t) == stage[t] \in 1..8

(* What the thread has submitted and waits for leaves its pool a worker *)
Pending(t) == {k \in asked[t] : ~Resolved(k)}
MayAsk(t, k) == Busy(t) /\ k \in Needs(t) \ asked[t] /\ Cardinality(Pending(t)) < PoolSize

(* _request: the first to ask for a key owns its call, the others wait for *)
(* the owner's answer, which is never asked for again.                     *)
AskFor(t, k) ==
  /\ MayAsk(t, k)
  /\ asked' = [asked EXCEPT ![t] = @ \cup {k}]
  /\ answers' = IF answers[k] = Unasked THEN [answers EXCEPT ![k].state = "queued"] ELSE answers
  /\ UNCHANGED <<valve, stage, errors>>

(* The owner calls when the semaphore lets it *)
MayCall(k) == answers[k].state = "queued" /\ Cardinality(Calling) < MaxConcurrency

StartCall(k) ==
  /\ MayCall(k)
  /\ answers' = [answers EXCEPT ![k] = [state |-> "calling", at |-> 1]]
  /\ UNCHANGED <<valve, stage, asked, errors>>

(* An ability whose details Valve no longer serves *)
Served(k) == k[1] = "abilitydata" => k[2] \in Listed[valve]

Answer(k) ==
  /\ answers[k].state = "calling"
  /\ answers' = [answers EXCEPT ![k] = IF Served(k) THEN [state |-> "done", at |-> valve]
                                       ELSE [state |-> "failed", at |-> 0]]
  /\ UNCHANGED <<valve, stage, asked, errors>>

(* fetch: an error of the connection is retried, the call still counting;  *)
(* the last one, or an answer of the wrong shape, is everybody's failure.  *)
FailCall(k, again) ==
  /\ answers[k].state = "calling" /\ errors < MaxErrors
  /\ errors' = errors + 1 /\ (again => answers[k].at < Attempts)
  /\ answers' = [answers EXCEPT ![k] = IF again THEN [@ EXCEPT !.at = answers[k].at + 1]
                                       ELSE [state |-> "failed", at |-> 0]]
  /\ UNCHANGED <<valve, stage, asked>>
-----------------------------------------------------------------------------
(* _validate_summary_identity: the lists of both languages name the same *)
ListsAgree == Listed[Version(<<"abilitylist", "schinese">>)] = ListedAbilities

(* _build_ability_records: every ability of a hero has its Chinese record  *)
(* and is listed.                                                          *)
HeroesAgree ==
  /\ \A h \in Heroes : Owned[Version(<<"herodata", h, "english">>)][h]
                         \subseteq Owned[Version(<<"herodata", h, "schinese">>)][h]
  /\ HeroAbilities("english") \subseteq ListedAbilities

(* _reviewed_catalog_exclusions and _recipe_relations *)
ItemsAgree == Version(<<"itemlist", "english">>) \in Reviewed

Agrees(t) ==
  CASE t = "catalog" -> stage[t] = 7 => ListsAgree
    [] t = "heroes" -> stage[t] = 2 => HeroesAgree
    [] t = "items" -> stage[t] = 2 => ItemsAgree
    [] OTHER -> TRUE

LastStage(t) == CASE t = "catalog" -> 8 [] t = "patches" -> 5 [] t = "heroes" -> 4 [] OTHER -> 2

StageFails(t) == (\E k \in asked[t] : answers[k].state = "failed") \/ ~Agrees(t)

(* A stage ends when all of it was answered, also when some of it failed:  *)
(* the pool waits for what was submitted.                                  *)
MayEnd(t) ==
  /\ Busy(t) /\ (t = "catalog" => stage[t] < 8)
  /\ asked[t] = Needs(t) /\ Pending(t) = {}

EndStage(t) ==
  /\ MayEnd(t)
  /\ asked' = [asked EXCEPT ![t] = {}]
  /\ stage' = IF StageFails(t) THEN [stage EXCEPT ![t] = Broken]
              ELSE IF stage[t] = LastStage(t) THEN [stage EXCEPT ![t] = Over]
              ELSE IF t = "catalog" /\ stage[t] = 7
                   THEN [stage EXCEPT ![t] = 8, !["heroes"] = 1, !["items"] = 1]
              ELSE [stage EXCEPT ![t] = @ + 1]
  /\ UNCHANGED <<valve, answers, errors>>

(* A branch that fails cancels nothing that runs: both are waited for *)
MayJoin == stage["catalog"] = 8 /\ \A b \in Branches : stage[b] \in Ended

JoinBranches ==
  /\ MayJoin
  /\ stage' = [stage EXCEPT !["catalog"] =
                 IF \A b \in Branches : stage[b] = Over THEN Over ELSE Broken]
  /\ UNCHANGED <<valve, answers, asked, errors>>

(* Valve publishes while the refresh asks *)
Publishes ==
  /\ valve < MaxVersion /\ valve' = valve + 1
  /\ UNCHANGED <<answers, stage, asked, errors>>

BuildStep ==
  \/ \E k \in FeedRequests : StartCall(k) \/ Answer(k)
                          \/ (\E t \in Askers : AskFor(t, k)) \/ \E b \in BOOLEAN : FailCall(k, b)
  \/ (\E t \in Askers : EndStage(t)) \/ JoinBranches

BuildNext == BuildStep \/ Publishes

BuildSpec == BuildInit /\ [][BuildNext]_buildVars
-----------------------------------------------------------------------------
(* No more calls run than the session allows, and a refresh that is not    *)
(* over never waits for itself: pools, shared answers and the semaphore    *)
(* are waited for in one order (fetch_session.py 28).                      *)
CallsAreBounded ==
  /\ Cardinality(Calling) <= MaxConcurrency
  /\ (\E j \in FeedJobs : stage[j] \notin Ended) =>
       \/ Calling # {} \/ MayJoin
       \/ \E k \in FeedRequests : MayCall(k) \/ \E t \in Askers : MayAsk(t, k)
       \/ \E t \in Askers : MayEnd(t)

(* A build that has ended, well or not, has no request of its own under    *)
(* way: its directory and its session may go (game_data_sync.py 638).      *)
BuildLeavesNothing ==
  stage["catalog"] \in Ended => \A b \in Branches : ~Busy(b) /\ asked[b] = {}

(* A bundle has the records of every ability its list names and of no      *)
(* other, each from answers in both languages, although Valve published    *)
(* in between (game_data_sync.py 452, catalog.py 603).                     *)
BundleIsWhole ==
  stage["catalog"] = Over =>
    /\ HeroAbilities("english") \cup Supplemental = ListedAbilities
    /\ \A a \in ListedAbilities :
         \/ \E h \in Heroes : \A l \in Languages : a \in Owned[Version(<<"herodata", h, l>>)][h]
         \/ \A l \in Languages : answers[<<"abilitydata", a, l>>].state = "done"

(* A catalog and the notes of one refresh are of one patch and name things *)
(* from the same lists (game_data_sync.py 329).                            *)
NotesFitBundle ==
  \A j \in FeedJobs : stage[j] = Over =>
    \A k \in {<<"patchnoteslist">>} \cup (Lists \X {"english"}) : answers[k].state = "done"

BuildIsSound == CallsAreBounded /\ BuildLeavesNothing /\ BundleIsWhole /\ NotesFitBundle
=============================================================================
