------------------------------ MODULE SeriesLoad ------------------------------
(***************************************************************************)
(* HomepageRecentSeriesService._load_candidates (homepage/recent_series.py)*)
(* the tasks of one refresh: two lifecycle reads, a task per selected      *)
(* candidate, team lookups the candidates share behind a shield, all       *)
(* through one semaphore; errors, and a cancellation of the refresh.       *)
(***************************************************************************)
EXTENDS Naturals, FiniteSets

CONSTANTS
  Series,      \* series a lifecycle read may return
  Winners,     \* teams that may have won one
  NoTeam,      \* no team, or none known yet
  Slots        \* _HOMEPAGE_REFRESH_CONCURRENCY

Lifecycles == {"running", "past"}

ASSUME LoadAssumption ==
  /\ NoTeam \notin Winners /\ Slots \in Nat \ {0}
  /\ Series \cap Winners = {} /\ Lifecycles \cap (Series \cup Winners) = {}

LoadTasks == Lifecycles \cup Series \cup Winners

VARIABLES
  jobs,     \* each task: none, queued at the semaphore, reading, parked on a team, or over
  source,   \* of a candidate: where its champion comes from
  winner,   \* of a candidate: the team it asks for
  asked,    \* how often a team was looked up
  refresh,  \* the refresh: none, lifecycles, candidates, reaping, and how it ended
  outcome   \* why it reaps

loadVars == <<jobs, source, winner, asked, refresh, outcome>>

Over == {"done", "failed", "cancelled"}
Live(t) == jobs[t] \notin Over \cup {"none"}
(* Broken variant: a candidate keeps its slot while it waits for a team *)
ReadingOrParked == {t \in LoadTasks : jobs[t] \in {"reading", "parked"}}

Reading == {t \in LoadTasks : jobs[t] = "reading"}
To(t, how) == jobs' = [jobs EXCEPT ![t] = how]

LoadInit ==
  /\ jobs = [t \in LoadTasks |-> "none"]
  /\ source = [s \in Series |-> "none"] /\ winner = [s \in Series |-> NoTeam]
  /\ asked = [w \in Winners |-> 0] /\ refresh = "none" /\ outcome = "none"
-----------------------------------------------------------------------------
StartLoad ==
  /\ refresh = "none" /\ refresh' = "lifecycles"
  /\ jobs' = [t \in LoadTasks |-> IF t \in Lifecycles THEN "queued" ELSE "none"]
  /\ UNCHANGED <<source, winner, asked, outcome>>

(* async with semaphore.  A cancelled task does nothing more; the team     *)
(* lookups go on until the candidates have ended.                          *)
MayRun(t) == refresh # "reaping" \/ t \in Winners

Read(t) ==
  /\ jobs[t] = "queued" /\ Cardinality(Reading) < Slots /\ MayRun(t)
  /\ To(t, "reading")
  /\ UNCHANGED <<source, winner, asked, refresh, outcome>>

(* A lifecycle read returns, or raises a provider error *)
LifecycleReturns(l, ok) ==
  /\ l \in Lifecycles /\ jobs[l] = "reading" /\ MayRun(l)
  /\ To(l, IF ok THEN "done" ELSE "failed")
  /\ UNCHANGED <<source, winner, asked, refresh, outcome>>

(* Both are there: _select_candidates, and a task per candidate.  A past   *)
(* series names its winner or leaves it to its tournaments; the others     *)
(* are complete as they are.                                               *)
Select(chosen, from) ==
  /\ refresh = "lifecycles" /\ \A l \in Lifecycles : jobs[l] = "done"
  /\ refresh' = "candidates"
  /\ source' = [s \in Series |-> IF s \in chosen THEN from[s] ELSE "none"]
  /\ jobs' = [t \in LoadTasks |-> IF t \in chosen THEN "fresh" ELSE jobs[t]]
  /\ UNCHANGED <<winner, asked, outcome>>

(* team_name: the first candidate that asks starts the lookup, and every   *)
(* one of them waits for it.                                               *)
Ask(s, w) ==
  /\ winner' = [winner EXCEPT ![s] = w]
  /\ asked' = [asked EXCEPT ![w] = IF jobs[w] = "none" THEN @ + 1 ELSE @]
  /\ jobs' = [jobs EXCEPT ![s] = "parked", ![w] = IF @ = "none" THEN "queued" ELSE @]

StartCandidate(s) ==
  /\ jobs[s] = "fresh" /\ MayRun(s)
  /\ \/ source[s] = "plain" /\ To(s, "done") /\ UNCHANGED <<winner, asked>>
     \/ source[s] = "tournament" /\ To(s, "queued") /\ UNCHANGED <<winner, asked>>
     \/ source[s] = "series" /\ \E w \in Winners : Ask(s, w)
  /\ UNCHANGED <<source, refresh, outcome>>

(* The tournaments of a series: their playoffs name a team, or nothing;    *)
(* a provider error means nothing, any other error fails the candidate.    *)
TournamentsReturn(s) ==
  /\ s \in Series /\ jobs[s] = "reading" /\ MayRun(s)
  /\ \/ (\E w \in Winners : Ask(s, w))
     \/ To(s, "done") /\ UNCHANGED <<winner, asked>>
     \/ To(s, "failed") /\ UNCHANGED <<winner, asked>>
  /\ UNCHANGED <<source, refresh, outcome>>

(* _resolve_team_name: an optional error is a missing name *)
TeamReturns(w, ok) ==
  /\ w \in Winners /\ jobs[w] = "reading"
  /\ To(w, IF ok THEN "done" ELSE "failed")
  /\ UNCHANGED <<source, winner, asked, refresh, outcome>>

TeamAnswers(s) ==
  /\ jobs[s] = "parked" /\ jobs[winner[s]] \in Over /\ MayRun(s)
  /\ To(s, jobs[winner[s]])
  /\ UNCHANGED <<source, winner, asked, refresh, outcome>>

(* _gather_ordered returns, or the first failure ends it (a lifecycle that *)
(* has no mappable row fails the refresh too); either way, and when the    *)
(* refresh is cancelled, _cancel_and_wait cancels what is left.            *)
Gathered == IF refresh = "lifecycles" THEN Lifecycles ELSE {s \in Series : jobs[s] # "none"}

StartReaping(why) == refresh' = "reaping" /\ outcome' = why

GatherEnds ==
  /\ \/ refresh = "candidates" /\ (\A s \in Gathered : jobs[s] = "done") /\ StartReaping("done")
     \/ /\ refresh \in {"lifecycles", "candidates"}
        /\ \E t \in Gathered : jobs[t] = "failed"
        /\ StartReaping("failed")
     \/ /\ refresh = "lifecycles" /\ \A l \in Lifecycles : jobs[l] = "done"
        /\ StartReaping("failed")
  /\ UNCHANGED <<jobs, source, winner, asked>>

CancelRefresh ==
  /\ refresh \in {"lifecycles", "candidates"} /\ StartReaping("cancelled")
  /\ UNCHANGED <<jobs, source, winner, asked>>

(* A cancelled task ends wherever it waits, the shared lookups last *)
Reap(t) ==
  /\ refresh = "reaping" /\ Live(t) /\ To(t, "cancelled")
  /\ t \in Winners => \A g \in Lifecycles \cup Series : ~Live(g)
  /\ UNCHANGED <<source, winner, asked, refresh, outcome>>

EndLoad ==
  /\ refresh = "reaping" /\ \A t \in LoadTasks : ~Live(t)
  /\ refresh' = "ended"
  /\ UNCHANGED <<jobs, source, winner, asked, outcome>>

Sources == {"plain", "series", "tournament"}

JobStep(t) ==
  \/ Read(t)
  \/ \E ok \in BOOLEAN : LifecycleReturns(t, ok) \/ TeamReturns(t, ok)
  \/ t \in Series /\ (StartCandidate(t) \/ TournamentsReturn(t) \/ TeamAnswers(t))

LoadNext ==
  \/ \E t \in LoadTasks : JobStep(t) \/ Reap(t)
  \/ \E chosen \in SUBSET Series : \E from \in [chosen -> Sources] : Select(chosen, from)
  \/ StartLoad \/ GatherEnds \/ CancelRefresh \/ EndLoad

LoadSpec == LoadInit /\ [][LoadNext]_loadVars

(* Every task is scheduled and every provider call returns *)
LoadFairness ==
  /\ \A t \in LoadTasks : SF_loadVars(Read(t)) /\ WF_loadVars(JobStep(t) \/ Reap(t))
  /\ WF_loadVars(GatherEnds \/ EndLoad \/ \E from \in [Series -> Sources] : Select(Series, from))

FairLoadSpec == LoadSpec /\ LoadFairness
-----------------------------------------------------------------------------
(* When a refresh is over, every task it made is over: a candidate that    *)
(* failed leaves no shared lookup behind, and a cancelled one takes no     *)
(* lookup from the others before the refresh ends (team_name's shield).    *)
RefreshOwnsItsTasks ==
  /\ refresh = "ended" => \A t \in LoadTasks : ~Live(t)
  /\ refresh \in {"lifecycles", "candidates"} => \A t \in LoadTasks : jobs[t] # "cancelled"

(* A team is looked up once, and no more calls run than there are slots *)
LookupsAreShared == (\A w \in Winners : asked[w] <= 1) /\ Cardinality(Reading) <= Slots

(* A refresh shares its lookups while it runs and leaves no task behind *)
LoadIsClean == RefreshOwnsItsTasks /\ LookupsAreShared

(* No slot is held while waiting for a team: every refresh ends *)
LoadEnds == refresh = "lifecycles" ~> refresh = "ended"
=============================================================================
