----------------------------- MODULE RecentSeries -----------------------------
(***************************************************************************)
(* HomepageRecentSeriesService (homepage/recent_series.py): a snapshot in  *)
(* Redis that is served while stale, one refresh in flight per process,    *)
(* cooldowns after failures and manual refreshes, and requests that may be *)
(* cancelled while the refresh they wait for goes on.  Every await of the  *)
(* cache is a step of its own, and a failed write may have been applied.   *)
(***************************************************************************)
EXTENDS Integers, FiniteSets

CONSTANTS
  Readers,        \* requests of get_recent_series
  Refreshers,     \* requests of refresh_recent_series
  Nobody,         \* the lock is free
  RefreshAge,     \* _REFRESH_SECONDS, in ticks
  Cooldown,       \* _MANUAL_REFRESH_COOLDOWN_SECONDS
  MaxTime         \* bound: the clock

ASSUME SeriesAssumption ==
  /\ RefreshAge \in Nat \ {0} /\ Cooldown \in 1..RefreshAge /\ MaxTime \in Nat
  /\ Readers \cap Refreshers = {} /\ Nobody \notin Readers \cup Refreshers

Never == -1
Callers == Readers \cup Refreshers

VARIABLES
  now,       \* the clock
  entry,     \* the Redis hash
  lock,      \* _refresh_lock
  task,      \* _refresh_task, and where it is
  failed,    \* _local_failure, its time
  closed,    \* _closed
  callers,   \* the requests
  lastFail   \* the time of the last failed refresh that nothing succeeded after

seriesVars == <<now, entry, lock, task, failed, closed, callers, lastFail>>

NoEntry == [snap |-> Never, tried |-> Never, err |-> FALSE, manual |-> Never]
NoRefresh == [pc |-> "none", started |-> Never, at |-> Never]
NewCaller == [pc |-> "idle", since |-> Never, seen |-> NoEntry, joined |-> "no"]

SeriesInit ==
  /\ now = 0 /\ entry = NoEntry /\ lock = Nobody /\ task = NoRefresh /\ failed = Never
  /\ closed = FALSE /\ callers = [c \in Callers |-> NewCaller] /\ lastFail = Never
-----------------------------------------------------------------------------
IsFresh(e) == e.snap # Never /\ now - e.snap < RefreshAge

(* Broken variant: only the recorded failure counts *)
FailureTimesRecorded(e) == IF e.err THEN {e.tried} ELSE {}

(* The failures that hold refreshes back: the recorded one, and the local  *)
(* one unless a later attempt is recorded.                                 *)
FailureTimes(e) ==
  (IF e.err THEN {e.tried} ELSE {})
  \cup (IF failed # Never /\ failed >= e.tried THEN {failed} ELSE {})

FailureCooldownActive(e) == \E t \in FailureTimes(e) : now - t < RefreshAge
ManualRefreshBlocked(e) == e.manual > now \/ \E t \in FailureTimes(e) : t + RefreshAge > now

Refreshing == task.pc # "none"
StartRefresh(started) == task' = [NoRefresh EXCEPT !.pc = "load", !.started = started]

(* The refresh is over: whoever joined it has its result *)
EndRefresh ==
  /\ task' = NoRefresh
  /\ callers' = [c \in Callers |-> IF callers[c].joined = "yes"
                                   THEN [callers[c] EXCEPT !.joined = "over"] ELSE callers[c]]

Answer(c) == callers' = [callers EXCEPT ![c] = NewCaller]
-----------------------------------------------------------------------------
(* A request comes in; get_recent_series reads the cache without the lock, *)
(* and a fresh snapshot or a failed read is its answer.                    *)
Arrive(c) ==
  /\ callers[c].pc = "idle" /\ ~closed
  /\ c \in Readers => ~IsFresh(entry)
  /\ callers' = [callers EXCEPT ![c].pc = "enter"]
  /\ UNCHANGED <<now, entry, lock, task, failed, closed, lastFail>>

(* The lock; a manual refresh looks at the task before it reads the cache *)
Enter(c) ==
  /\ callers[c].pc = "enter" /\ lock = Nobody
  /\ lock' = c
  /\ callers' = [callers EXCEPT ![c].pc = "read",
                    ![c].joined = IF c \in Refreshers /\ Refreshing THEN "yes" ELSE "no"]
  /\ UNCHANGED <<now, entry, task, failed, closed, lastFail>>

(* A cooldown whose write reports an error, or whose request is cancelled, *)
(* may be stored all the same.                                             *)
WithCooldown(c) ==
  LET until == callers[c].since + Cooldown
  IN  IF callers[c].pc = "cooldown" /\ callers[c].seen.manual < until
      THEN [entry EXCEPT !.manual = until] ELSE entry

CacheFails(c) ==
  /\ callers[c].pc \in {"read", "cooldown"}
  /\ entry' \in {entry, WithCooldown(c)} /\ lock' = Nobody /\ Answer(c)
  /\ UNCHANGED <<now, task, failed, closed, lastFail>>

(* The holder of the lock gets the entry; what it does next it decides on *)
(* this copy, while a refresh may have gone on.                            *)
ReadEntry(c) ==
  /\ callers[c].pc = "read"
  /\ callers' = [callers EXCEPT ![c].pc = "decide", ![c].seen = entry]
  /\ UNCHANGED <<now, entry, lock, task, failed, closed, lastFail>>

(* get_recent_series after its second look at the cache: answer, join the  *)
(* refresh, or start one.  A stale snapshot is answered at once.           *)
MustNotStart(e) == IsFresh(e) \/ closed \/ (~Refreshing /\ FailureCooldownActive(e))

DecideOnRead(c) ==
  /\ c \in Readers /\ callers[c].pc = "decide"
  /\ lock' = Nobody
  /\ IF MustNotStart(callers[c].seen) THEN Answer(c) /\ UNCHANGED task
     ELSE /\ IF Refreshing THEN UNCHANGED task ELSE StartRefresh(now)
          /\ IF callers[c].seen.snap # Never THEN Answer(c)
             ELSE callers' = [callers EXCEPT ![c] = [NewCaller EXCEPT !.pc = "wait", !.joined = "yes"]]
  /\ UNCHANGED <<now, entry, failed, closed, lastFail>>

(* refresh_recent_series: a cooldown is the answer, or the next cooldown   *)
(* is written first, from the start of the refresh that is joined.         *)
DecideOnRefresh(c) ==
  /\ c \in Refreshers /\ callers[c].pc = "decide"
  /\ IF closed \/ (callers[c].joined = "no" /\ ManualRefreshBlocked(callers[c].seen))
     THEN lock' = Nobody /\ Answer(c)
     ELSE /\ callers' = [callers EXCEPT ![c].pc = "cooldown",
                           ![c].since = IF Refreshing THEN task.started ELSE now]
          /\ UNCHANGED lock
  /\ UNCHANGED <<now, entry, task, failed, closed, lastFail>>

(* The cooldown is stored and the refresh started or joined.  The task     *)
(* joined may have ended since the look at it: its result is there at once. *)
StoreCooldown(c) ==
  /\ callers[c].pc = "cooldown" /\ entry' = WithCooldown(c)
  /\ lock' = Nobody
  /\ IF callers[c].joined = "no" THEN StartRefresh(callers[c].since) ELSE UNCHANGED task
  /\ callers' = [callers EXCEPT ![c] = [NewCaller EXCEPT
                   !.pc = "wait", !.joined = IF callers[c].joined = "no" THEN "yes" ELSE callers[c].joined]]
  /\ UNCHANGED <<now, failed, closed, lastFail>>

(* The refresh is over: with a result, an error, or a cancellation *)
Awaited(c) ==
  /\ callers[c].pc = "wait" /\ callers[c].joined = "over"
  /\ Answer(c)
  /\ UNCHANGED <<now, entry, lock, task, failed, closed, lastFail>>

(* The request is cancelled at an await; the refresh is shielded from it *)
Leave(c) ==
  /\ callers[c].pc # "idle"
  /\ lock' = IF lock = c THEN Nobody ELSE lock
  /\ entry' \in {entry, WithCooldown(c)} /\ Answer(c)
  /\ UNCHANGED <<now, task, failed, closed, lastFail>>
-----------------------------------------------------------------------------
(* _perform_refresh: the candidates are loaded, or the provider fails      *)
Load(ok) ==
  /\ task.pc = "load"
  /\ task' = [task EXCEPT !.pc = IF ok THEN "publish" ELSE "record", !.at = now]
  /\ lastFail' = IF ok THEN lastFail ELSE now
  /\ UNCHANGED <<now, entry, lock, failed, closed, callers>>

(* Any other error ends the refresh and leaves no trace *)
LoadCrashes ==
  /\ task.pc = "load" /\ EndRefresh
  /\ UNCHANGED <<now, entry, lock, failed, closed, lastFail>>

Published == [entry EXCEPT !.snap = task.at, !.tried = task.at, !.err = FALSE]
Recorded  == [entry EXCEPT !.tried = task.at, !.err = TRUE]

(* publish; a write that reports an error is a local failure, applied or not *)
Publish(applied, acked) ==
  /\ task.pc = "publish" /\ (acked => applied)
  /\ entry' = IF applied THEN Published ELSE entry
  /\ failed' = IF acked THEN Never ELSE task.at
  /\ lastFail' = IF applied THEN Never ELSE task.at
  /\ IF acked THEN task' = [task EXCEPT !.pc = "reread"] /\ UNCHANGED callers ELSE EndRefresh
  /\ UNCHANGED <<now, lock, closed>>

(* Broken variant: a failure is stored as a new hash *)
RecordFailureAlone(applied, acked) ==
  /\ task.pc = "record" /\ (acked => applied)
  /\ entry' = IF applied THEN [NoEntry EXCEPT !.tried = task.at, !.err = TRUE] ELSE entry
  /\ failed' = IF acked THEN failed ELSE task.at
  /\ IF acked THEN task' = [task EXCEPT !.pc = "reread"] /\ UNCHANGED callers ELSE EndRefresh
  /\ UNCHANGED <<now, lock, closed, lastFail>>

(* record_failure leaves the snapshot alone *)
RecordFailure(applied, acked) ==
  /\ task.pc = "record" /\ (acked => applied)
  /\ entry' = IF applied THEN Recorded ELSE entry
  /\ failed' = IF acked THEN failed ELSE task.at
  /\ IF acked THEN task' = [task EXCEPT !.pc = "reread"] /\ UNCHANGED callers ELSE EndRefresh
  /\ UNCHANGED <<now, lock, closed, lastFail>>

(* The entry is read back for the result, or the read fails *)
Reread ==
  /\ task.pc = "reread" /\ EndRefresh
  /\ UNCHANGED <<now, entry, lock, failed, closed, lastFail>>

(* aclose cancels the refresh; a write under way may be applied *)
AClose(applied) ==
  /\ lock = Nobody /\ ~closed
  /\ closed' = TRUE
  /\ entry' = CASE applied /\ task.pc = "publish" -> Published
                [] applied /\ task.pc = "record"  -> Recorded
                [] OTHER                          -> entry
  /\ EndRefresh
  /\ UNCHANGED <<now, lock, failed, lastFail>>

Tick ==
  /\ now < MaxTime /\ now' = now + 1
  /\ UNCHANGED <<entry, lock, task, failed, closed, callers, lastFail>>

Serve(c) ==
  \/ Enter(c) \/ CacheFails(c) \/ ReadEntry(c) \/ DecideOnRead(c) \/ DecideOnRefresh(c)
  \/ StoreCooldown(c) \/ Awaited(c)

RefreshStep ==
  \/ Reread \/ LoadCrashes \/ \E ok \in BOOLEAN : Load(ok)
  \/ \E applied, acked \in BOOLEAN : Publish(applied, acked) \/ RecordFailure(applied, acked)

SeriesNext ==
  \/ \E c \in Callers : Arrive(c) \/ Serve(c) \/ Leave(c)
  \/ RefreshStep
  \/ \E applied \in BOOLEAN : AClose(applied)
  \/ Tick

SeriesSpec == SeriesInit /\ [][SeriesNext]_seriesVars
(* Tasks are scheduled, provider and cache calls return, and asyncio.Lock  *)
(* serves its waiters in turn.                                             *)
SeriesFairness ==
  /\ WF_seriesVars(RefreshStep)
  /\ \A c \in Callers : WF_seriesVars(Serve(c)) /\ SF_seriesVars(Enter(c))

FairSeriesSpec == SeriesSpec /\ SeriesFairness
-----------------------------------------------------------------------------
SeriesTypeOK ==
  /\ now \in 0..MaxTime /\ lock \in Callers \cup {Nobody}
  /\ \A f \in {"snap", "tried"} : entry[f] \in Never..MaxTime

(* The lock's holder is a page whose copy of the entry is older than the   *)
(* last failure, and the failure is not a local one either.                *)
ReadTooEarly == lock \in Readers /\ callers[lock].seen.tried < lastFail /\ failed # lastFail

(* No refresh begins beside another one of the process.  After a failed one *)
(* none begins before the cooldown is over unless a snapshot was stored    *)
(* since, with one exception: a page that had read the entry when the      *)
(* failure was recorded.  A local failure, and a manual refresh, know no   *)
(* exception (recent_series.py _failure_cooldown_active).                  *)
RefreshesBackOff ==
  [][/\ SeriesTypeOK
     /\ task.pc # "load" /\ task'.pc = "load" =>
          /\ ~Refreshing
          /\ lastFail # Never => now - lastFail >= RefreshAge \/ ReadTooEarly]_seriesVars

(* Failed refreshes, late writes and shutdown never take the snapshot away *)
(* or replace it by an older one (RedisRecentSeriesCache: "retaining the   *)
(* last good snapshot across failed refreshes").                           *)
SnapshotsMoveForward == [][entry'.snap >= entry.snap]_seriesVars

(* Every request is answered although others leave or the service closes *)
RequestsAnswered == \A c \in Callers : callers[c].pc # "idle" ~> callers[c].pc = "idle"
=============================================================================
