---------------------------- MODULE MemorySessions ----------------------------
(***************************************************************************)
(* The sessions of one process without Redis (application/session_store.py *)
(* InMemorySessionStore): locks made on demand, leases of holders and      *)
(* waiters, the eviction of the least recently used, request records with  *)
(* their own limit.  Only the wait for a lock gives way to other tasks.    *)
(*                                                                         *)
(* delete_session has no caller; the route clears within a transaction.    *)
(***************************************************************************)
EXTENDS Integers, Sequences, FiniteSets, SequencesExt

CONSTANTS
  Tasks, Rooms, Ids,       \* sessions and requests
  MaxSessions, MaxKept,    \* max_sessions, max_request_records_per_session
  KeepFor,                 \* request_record_ttl_seconds
  MaxTime, MaxDraws, MaxLocks, MaxAppends,
  MaxTokens

ASSUME MemoryAssumption ==
  {MaxSessions, MaxKept, KeepFor, MaxTime, MaxDraws, MaxLocks, MaxAppends, MaxTokens} \subseteq Nat \ {0}

VARIABLES
  order,       \* the sessions kept, least recently used first
  data,        \* ... and what is kept of each
  locks,       \* per session, its lock; 0: none
  leases,      \* per session, holders and waiters
  waiters,     \* per lock, its queue
  holders,     \* per session, the task that may write
  counters,    \* fencing_counters
  tasks,       \* what each task is in
  drawn, time

memoryVars == <<order, data, locks, leases, waiters, holders, counters, tasks, drawn, time>>

Nobody == "nobody"
NotIn == [at |-> "out", claim |-> <<>>]
NewSession == [next |-> 1, entries |-> <<>>]

MemoryInit ==
  /\ order = <<>> /\ data = [s \in Rooms |-> NewSession] /\ locks = [s \in Rooms |-> 0] /\ leases = [s \in Rooms |-> 0]
  /\ waiters = [l \in 1..MaxLocks |-> <<>>]
  /\ holders = [s \in Rooms |-> Nobody] /\ counters = [s \in Rooms |-> 0]
  /\ tasks = [t \in Tasks |-> NotIn] /\ drawn = 0 /\ time = 0

----------------------------------------------------------------------------
(* Least recently used                                                     *)

(* What a list has of some, in its order *)
Those(list, some) ==
  LET those[n \in 0..Len(list)] ==
        IF n = 0 THEN <<>>
        ELSE IF list[n] \in some THEN Append(those[n - 1], list[n]) ELSE those[n - 1]
  IN  those[Len(list)]

Known(s) == s \in ToSet(order)
Touched(list, s) == Append(Those(list, Rooms \ {s}), s)

(* The first that nobody leases go, until the rest fit or all are leased *)
Evicted(list, leased) ==
  LET idle == Those(list, {s \in Rooms : leased[s] = 0}) IN
  {idle[i] : i \in {i \in 1..Len(idle) : i <= Len(list) - MaxSessions}}

Keep(list, gone) == Those(list, Rooms \ gone)
Emptied(gone) == [s \in Rooms |-> IF s \in gone THEN NewSession ELSE data[s]]
LocksWithout(map, gone) == [s \in Rooms |-> IF s \in gone THEN 0 ELSE map[s]]

----------------------------------------------------------------------------
(* The transaction                                                         *)

InSession(t, s) == tasks[t].at = "in" /\ tasks[t].session = s

(* A lock nobody refers to stands for a new one *)
Unreferenced == {l \in 1..MaxLocks : waiters[l] = <<>> /\ \A s \in Rooms : locks[s] # l}

Enter(t, s) ==
  /\ tasks[t].at = "out"
  /\ leases' = [leases EXCEPT ![s] = @ + 1]
  /\ locks[s] = 0 => Unreferenced # {}
  /\ locks' = [locks EXCEPT ![s] = IF @ = 0 THEN CHOOSE l \in Unreferenced : TRUE ELSE @]
  /\ waiters' = [waiters EXCEPT ![locks'[s]] = Append(@, t)]
  /\ tasks' = [tasks EXCEPT ![t] = [at |-> "waiting", session |-> s, lock |-> locks'[s], claim |-> <<>>]]
  /\ UNCHANGED <<order, data, holders, counters, drawn, time>>

(* The queue's head holds the lock once it has come to run *)
Acquired(t) ==
  LET s == tasks[t].session IN
  /\ tasks[t].at = "waiting" /\ Head(waiters[tasks[t].lock]) = t /\ counters[s] < MaxTokens
  /\ tasks' = [tasks EXCEPT ![t].at = "in"]
  /\ holders' = [holders EXCEPT ![s] = t] /\ counters' = [counters EXCEPT ![s] = @ + 1]
  /\ UNCHANGED <<order, data, locks, leases, waiters, drawn, time>>

(* Left by return, error or cancellation, also of the wait *)
Left(t) ==
  LET s == tasks[t].session
      leased == [leases EXCEPT ![s] = @ - 1]
      rest == leased[s] = 0 /\ ~Known(s)
      gone == Evicted(order, leased) IN
  /\ tasks[t].at \in {"waiting", "in"}
  /\ tasks' = [tasks EXCEPT ![t] = NotIn]
  /\ waiters' = [waiters EXCEPT ![tasks[t].lock] = Those(@, Tasks \ {t})]
  /\ holders' = IF tasks[t].at = "in" THEN [holders EXCEPT ![s] = Nobody] ELSE holders
  /\ leases' = leased
  /\ counters' = IF rest THEN [counters EXCEPT ![s] = 0] ELSE counters
  /\ order' = Keep(order, gone) /\ data' = Emptied(gone)
  /\ locks' = LocksWithout(locks, gone \cup IF rest THEN {s} ELSE {})
  /\ UNCHANGED <<drawn, time>>

----------------------------------------------------------------------------
(* What the holder does                                                    *)

(* Created if need be, which may evict another *)
Store(s, value) ==
  LET gone == IF Known(s) THEN {} ELSE Evicted(Append(order, s), leases) IN
  /\ order' = Touched(Keep(order, gone), s)
  /\ data' = [Emptied(gone) EXCEPT ![s] = value]
  /\ locks' = LocksWithout(locks, gone)

Closed(entry) == entry.status \in {"completed", "failed"}
OfKey(entries, k) == {entry \in ToSet(entries) : entry.key = k}
ButKey(entries, k) == Those(entries, ToSet(entries) \ OfKey(entries, k))

(* The oldest that have ended make room, as far as there are any *)
Trimmed(entries) ==
  LET ended == {i \in DOMAIN entries : Closed(entries[i])}
      dropped == {i \in ended : Cardinality({j \in ended : j < i}) < Len(entries) - MaxKept} IN
  Those(entries, ToSet(entries) \ {entries[i] : i \in dropped})

Recorded(value, entry) ==
  [value EXCEPT !.entries = Trimmed(Append(ButKey(value.entries, entry.key), entry))]

(* Expired records go first; a completed one, or one of another payload, is *)
(* only answered                                                           *)
BeginRequestOf(t, s, k) ==
  LET live == Those(data[s].entries, {entry \in ToSet(data[s].entries) : ~Closed(entry) \/ entry.expires > time})
      purged == [data[s] EXCEPT !.entries = live] IN
  /\ InSession(t, s) /\ holders[s] = t /\ tasks[t].claim = <<>>
  /\ \/ /\ \E found \in OfKey(live, k) : Store(s, [purged EXCEPT !.entries = Append(ButKey(live, k), found)])
        /\ UNCHANGED <<tasks, drawn>>
     \/ /\ \A found \in OfKey(live, k) : found.status # "completed"
        /\ drawn < MaxDraws /\ drawn' = drawn + 1
        /\ Store(s, Recorded(purged, [key |-> k, status |-> "in_progress", owner |-> drawn + 1,
                                      expires |-> time + KeepFor]))
        /\ tasks' = [tasks EXCEPT ![t].claim = <<k, drawn + 1>>]
  /\ UNCHANGED <<leases, waiters, holders, counters, time>>

(* The claim's record, while it still is its own *)
OwnRecord(t, s) ==
  {found \in OfKey(data[s].entries, tasks[t].claim[1]) :
     found.status = "in_progress" /\ found.owner = tasks[t].claim[2]}

Claimed(t, s) == InSession(t, s) /\ holders[s] = t /\ tasks[t].claim # <<>>
Unclaims(t) == tasks' = [tasks EXCEPT ![t].claim = <<>>]

CompleteRequestOf(t, s) ==
  /\ Claimed(t, s) /\ Unclaims(t)
  /\ \E found \in OwnRecord(t, s) :
       Store(s, Recorded([data[s] EXCEPT !.next = @ + 1], [found EXCEPT !.status = "completed"]))
  /\ UNCHANGED <<leases, waiters, holders, counters, drawn, time>>

(* A failure does not count as a use of the session *)
FailRequestOf(t, s) ==
  /\ Claimed(t, s) /\ Unclaims(t)
  /\ \E found \in OwnRecord(t, s) :
       data' = [data EXCEPT ![s] = Recorded(data[s], [found EXCEPT !.status = "failed"])]
  /\ UNCHANGED <<order, locks, leases, waiters, holders, counters, drawn, time>>

AppendOf(t, s) ==
  /\ InSession(t, s) /\ holders[s] = t /\ data[s].next <= MaxAppends
  /\ Store(s, [data[s] EXCEPT !.next = @ + 1])
  /\ UNCHANGED <<leases, waiters, holders, counters, tasks, drawn, time>>

(* The dialogue kept beside the turns is left out, not what keeping it does *)
CacheDialogueOf(t, s) ==
  /\ InSession(t, s) /\ holders[s] = t /\ Store(s, data[s])
  /\ UNCHANGED <<leases, waiters, holders, counters, tasks, drawn, time>>

ClearOf(t, s) ==
  /\ InSession(t, s) /\ holders[s] = t /\ order' = Those(order, Rooms \ {s}) /\ data' = Emptied({s})
  /\ UNCHANGED <<locks, leases, waiters, holders, counters, tasks, drawn, time>>

(* Reading asks for no lock *)
ReadTurns(s) ==
  /\ Known(s) /\ order' = Touched(order, s)
  /\ UNCHANGED <<data, locks, leases, waiters, holders, counters, tasks, drawn, time>>

MemoryTick ==
  /\ time < MaxTime /\ time' = time + 1
  /\ UNCHANGED <<order, data, locks, leases, waiters, holders, counters, tasks, drawn>>

MemoryNext ==
  \/ \E t \in Tasks, s \in Rooms :
       \/ Enter(t, s) \/ AppendOf(t, s) \/ CacheDialogueOf(t, s) \/ ClearOf(t, s)
       \/ \E k \in Ids : BeginRequestOf(t, s, k)
       \/ CompleteRequestOf(t, s) \/ FailRequestOf(t, s)
  \/ \E t \in Tasks : Acquired(t) \/ Left(t)
  \/ \E s \in Rooms : ReadTurns(s)
  \/ MemoryTick

MemorySpec == MemoryInit /\ [][MemoryNext]_memoryVars

----------------------------------------------------------------------------
(* Properties                                                              *)

Busy(s) == {t \in Tasks : tasks[t].at \in {"waiting", "in"} /\ tasks[t].session = s}

(* A session is one task's at a time, though locks come and go with it     *)
(* (session_store.py 334, 371, 487).                                       *)
OneInside ==
  \A s \in Rooms :
    /\ Cardinality({t \in Tasks : InSession(t, s)}) <= 1
    /\ leases[s] = Cardinality(Busy(s))
    /\ \A t \in Busy(s) : locks[s] = tasks[t].lock
    /\ \A t \in Tasks : InSession(t, s) => holders[s] = t

(* More sessions than allowed are kept only while all of them are leased,  *)
(* and a lock no longer than its session or its users.                     *)
NothingIsHoarded ==
  /\ Len(order) > MaxSessions => \A s \in ToSet(order) : leases[s] > 0
  /\ \A s \in Rooms : locks[s] # 0 => leases[s] > 0 \/ Known(s)

(* What somebody holds or waits for does not vanish, short of its holder   *)
(* clearing it; and its tokens only grow.                                  *)
LeasedStays ==
  \A s \in Rooms : leases[s] > 0 /\ leases'[s] > 0 =>
    /\ Known(s) /\ s \notin ToSet(order') => \E t \in Tasks : ClearOf(t, s)
    /\ counters'[s] >= counters[s]

(* What records say of a request *)
SaidOf(entries, k) ==
  LET found == OfKey(entries, k) IN
  IF found = {} THEN [status |-> "none", owner |-> 0]
  ELSE LET entry == CHOOSE entry \in found : TRUE IN [status |-> entry.status, owner |-> entry.owner]

Promised == INSTANCE RequestContract WITH
  Keys <- Ids,
  ledger <- [s \in Rooms |-> [k \in Ids |-> SaidOf(data[s].entries, k)]],
  told <- [s \in Rooms |-> data[s].next - 1],
  overdue <- [s \in Rooms |-> {k \in Ids :
    \E i \in DOMAIN data[s].entries : data[s].entries[i].key = k /\ data[s].entries[i].expires <= time}]

MemoryKeepsPromise == Promised!ContractSpec /\ [](OneInside /\ NothingIsHoarded) /\ [][LeasedStays]_memoryVars
=============================================================================
