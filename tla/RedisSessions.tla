----------------------------- MODULE RedisSessions -----------------------------
(***************************************************************************)
(* A session in Redis (application/redis_session_store.py): its lock with  *)
(* lease and renewal, its turns and its request records.  Every script     *)
(* runs whole; between a script and what the caller read before it, the    *)
(* lease may expire and others may work.                                   *)
(*                                                                         *)
(* The Redis sorted set of ended records holds exactly their times and is  *)
(* read off the records; schema versions never differ.                     *)
(***************************************************************************)
EXTENDS Integers, FiniteSets

CONSTANTS
  Callers,      \* tasks of all processes
  Keys,         \* requests, each of one payload
  MaxUuids,     \* owner tokens drawn
  MaxRecords,   \* max_request_records_per_session
  RecordTtl, MaxClock,
  MaxTurns,     \* turns of the session
  MaxLapses     \* lost replies, expiries, deaths

ASSUME RedisAssumption ==
  {MaxUuids, MaxRecords, RecordTtl, MaxClock, MaxTurns, MaxLapses} \subseteq Nat \ {0}

VARIABLES
  lockValue,    \* the token in the lock key; 0: none
  fencing,      \* meta: fencing_counter
  turnCounter,  \* meta: turn_counter
  records,      \* per request, its record
  callers,      \* the tasks
  uuids, clock, lapses

dataVars == <<fencing, turnCounter, records>>
redisVars == <<lockValue, dataVars, callers, uuids, clock, lapses>>

NoRecord == [status |-> "none"]
NoClaim == [key |-> "none"]
NoCall == [op |-> "none"]
Outside == [at |-> "out", token |-> 0, lost |-> FALSE, claim |-> NoClaim, call |-> NoCall]

NoData == [k \in Keys |-> NoRecord]

RedisInit ==
  /\ lockValue = 0 /\ fencing = 0 /\ turnCounter = 0 /\ records = NoData
  /\ callers = [c \in Callers |-> Outside] /\ uuids = 0 /\ clock = 0 /\ lapses = 0

Lapse == lapses < MaxLapses /\ lapses' = lapses + 1
OwnsLock(c) == lockValue = callers[c].token
Put(c, caller) == callers' = [callers EXCEPT ![c] = caller]

----------------------------------------------------------------------------
(* The transaction                                                         *)

(* The reply may be lost: the lock is taken and nobody releases it *)
Acquire(c) ==
  /\ callers[c].at = "out" /\ lockValue = 0 /\ uuids < MaxUuids
  /\ uuids' = uuids + 1 /\ lockValue' = uuids + 1 /\ fencing' = fencing + 1
  /\ \/ Put(c, [Outside EXCEPT !.at = "in", !.token = uuids + 1]) /\ UNCHANGED lapses
     \/ Lapse /\ UNCHANGED callers
  /\ UNCHANGED <<turnCounter, records, clock>>

(* The renewal is refused, or fails *)
RenewStops(c) ==
  /\ callers[c].at # "out" /\ ~callers[c].lost
  /\ IF OwnsLock(c) THEN Lapse ELSE UNCHANGED lapses
  /\ Put(c, [callers[c] EXCEPT !.lost = TRUE])
  /\ UNCHANGED <<lockValue, dataVars, uuids, clock>>

(* Left normally, by an error, or cancelled at any await *)
Release(c) ==
  /\ callers[c].at # "out" /\ Put(c, Outside)
  /\ \/ lockValue' = (IF OwnsLock(c) THEN 0 ELSE lockValue) /\ UNCHANGED lapses
     \/ Lapse /\ UNCHANGED lockValue
  /\ UNCHANGED <<dataVars, uuids, clock>>

LockLapses ==
  /\ lockValue # 0 /\ Lapse /\ lockValue' = 0
  /\ UNCHANGED <<dataVars, callers, uuids, clock>>

(* A session nobody renews for its time is gone as a whole *)
SessionExpires ==
  /\ lockValue = 0 /\ Lapse /\ fencing' = 0 /\ turnCounter' = 0 /\ records' = NoData
  /\ UNCHANGED <<lockValue, callers, uuids, clock>>

----------------------------------------------------------------------------
(* Requests: the record is read, then a script compares and writes         *)

Working(c) == callers[c].at = "in" /\ ~callers[c].lost
Calls(c, call) == Put(c, [callers[c] EXCEPT !.at = "calling", !.call = call])
Leaves(c) == [callers[c] EXCEPT !.at = "leaving", !.call = NoCall, !.claim = NoClaim]

InProgress(record) == record.status = "in_progress"
Due(record, now) == record.status \in {"completed", "failed"} /\ record.expires <= now

(* A completed record is only answered, as is one of another payload *)
BeginRequest(c, k) ==
  LET found == records[k]
      stale == found = NoRecord \/ Due(found, clock) IN
  /\ Working(c) /\ callers[c].claim = NoClaim
  /\ stale \/ found.status # "completed"
  /\ Calls(c, [op |-> "begin", key |-> k, now |-> clock, expected |-> IF stale THEN NoRecord ELSE found])
  /\ UNCHANGED <<lockValue, dataVars, uuids, clock, lapses>>

EndRequest(c, op) ==
  LET claim == callers[c].claim IN
  /\ Working(c) /\ claim # NoClaim /\ InProgress(records[claim.key])
  /\ records[claim.key].owner = claim.owner
  /\ Calls(c, [op |-> op, key |-> claim.key, now |-> clock, expected |-> records[claim.key]])
  /\ UNCHANGED <<lockValue, dataVars, uuids, clock, lapses>>

(* The record of a claim is gone or another's: the call is refused *)
EndRefused(c) ==
  LET claim == callers[c].claim IN
  /\ Working(c) /\ claim # NoClaim
  /\ InProgress(records[claim.key]) => records[claim.key].owner # claim.owner
  /\ Put(c, Leaves(c))
  /\ UNCHANGED <<lockValue, dataVars, uuids, clock, lapses>>

AppendTurn(c) ==
  /\ Working(c) /\ turnCounter < MaxTurns /\ Calls(c, [op |-> "append"])
  /\ UNCHANGED <<lockValue, dataVars, uuids, clock, lapses>>

----------------------------------------------------------------------------
(* The scripts                                                             *)

Call(c) == callers[c].call
Sends(c, op) == callers[c].at = "calling" /\ Call(c).op = op

(* The script ran; its reply is lost, or the task goes on with it *)
Answered(c, caller) ==
  \/ Put(c, caller) /\ UNCHANGED lapses
  \/ Lapse /\ Put(c, Leaves(c))

Purged(now) == [k \in Keys |-> IF Due(records[k], now) THEN NoRecord ELSE records[k]]

(* The oldest of the ended make room *)
Oldest(kept) ==
  {dropped \in SUBSET {k \in Keys : kept[k].status \in {"completed", "failed"}} :
     LET ended == {k \in Keys : kept[k].status \in {"completed", "failed"}} IN
     /\ Cardinality(dropped) = IF Cardinality(ended) < MaxRecords THEN 0
                                ELSE Cardinality(ended) - MaxRecords + 1
     /\ \A k \in dropped, other \in ended \ dropped : kept[k].expires <= kept[other].expires}

Fresh(c, owner) ==
  [status |-> "in_progress", owner |-> owner, expires |-> Call(c).now + RecordTtl]

BeginScript(c) ==
  /\ Sends(c, "begin") /\ OwnsLock(c) /\ uuids < MaxUuids
  /\ LET kept == Purged(Call(c).now)
         isNew == Call(c).expected = NoRecord IN
     IF kept[Call(c).key] # Call(c).expected
     THEN records' = kept /\ Put(c, Leaves(c)) /\ UNCHANGED <<uuids, lapses>>
     ELSE /\ \E dropped \in IF isNew THEN Oldest(kept) ELSE {{}} :
               records' = [k \in Keys |-> IF k = Call(c).key THEN Fresh(c, uuids + 1)
                                          ELSE IF k \in dropped THEN NoRecord ELSE kept[k]]
          /\ uuids' = uuids + 1
          /\ Answered(c, [callers[c] EXCEPT !.at = "in", !.call = NoCall,
                            !.claim = [key |-> Call(c).key, owner |-> uuids + 1]])
  /\ UNCHANGED <<lockValue, fencing, turnCounter, clock>>

(* Broken: the record found is not compared with the one that was read *)
CompleteBlindly(c) ==
  /\ Sends(c, "complete")
  /\ records' = [records EXCEPT ![Call(c).key] =
                   [Call(c).expected EXCEPT !.status = "completed", !.expires = Call(c).now + RecordTtl]]
  /\ turnCounter' = turnCounter + 1
  /\ Answered(c, [callers[c] EXCEPT !.at = "in", !.call = NoCall, !.claim = NoClaim])
  /\ UNCHANGED <<lockValue, fencing, uuids, clock>>

Ends(c, status, told) ==
  /\ OwnsLock(c) /\ records[Call(c).key] = Call(c).expected
  /\ records' = [records EXCEPT ![Call(c).key] =
                   [Call(c).expected EXCEPT !.status = status, !.expires = Call(c).now + RecordTtl]]
  /\ turnCounter' = turnCounter + told
  /\ Answered(c, [callers[c] EXCEPT !.at = "in", !.call = NoCall, !.claim = NoClaim])
  /\ UNCHANGED <<lockValue, fencing, uuids, clock>>

CompleteScript(c) == Sends(c, "complete") /\ Ends(c, "completed", 1)

FailScript(c) == Sends(c, "fail") /\ Ends(c, "failed", 0)

AppendScript(c) ==
  /\ Sends(c, "append") /\ OwnsLock(c) /\ turnCounter < MaxTurns /\ turnCounter' = turnCounter + 1
  /\ Answered(c, [callers[c] EXCEPT !.at = "in", !.call = NoCall])
  /\ UNCHANGED <<lockValue, fencing, records, uuids, clock>>

(* The lock is another's, or the record has changed: nothing is written *)
ScriptRefuses(c) ==
  /\ callers[c].at = "calling"
  /\ OwnsLock(c) => Call(c).op \in {"complete", "fail"} /\ records[Call(c).key] # Call(c).expected
  /\ Put(c, Leaves(c))
  /\ UNCHANGED <<lockValue, dataVars, uuids, clock, lapses>>

(* Deleting a session: what the lock key holds is not asked *)
ClearData(c) ==
  /\ Working(c) /\ fencing' = 0 /\ turnCounter' = 0 /\ records' = NoData
  /\ UNCHANGED <<lockValue, callers, uuids, clock, lapses>>

RedisTick == clock < MaxClock /\ clock' = clock + 1 /\ UNCHANGED <<lockValue, dataVars, callers, uuids, lapses>>

CallerStep(c) ==
  \/ Acquire(c) \/ RenewStops(c) \/ Release(c)
  \/ \E k \in Keys : BeginRequest(c, k)
  \/ \E op \in {"complete", "fail"} : EndRequest(c, op)
  \/ EndRefused(c) \/ AppendTurn(c) \/ ClearData(c)
  \/ BeginScript(c) \/ CompleteScript(c) \/ FailScript(c) \/ AppendScript(c) \/ ScriptRefuses(c)

RedisNext == (\E c \in Callers : CallerStep(c)) \/ LockLapses \/ SessionExpires \/ RedisTick

RedisSpec == RedisInit /\ [][RedisNext]_redisVars

----------------------------------------------------------------------------
(* Properties                                                              *)

(* While a caller holds the lock and does nothing, nobody changes what it  *)
(* has read, short of the deletion of all of it; and a request it was told *)
(* to execute is its own (redis_session_store.py 104, 132, 174).           *)
HoldersAreAlone ==
  \A c \in Callers :
    callers[c].at # "out" /\ OwnsLock(c) /\ UNCHANGED <<callers[c], lockValue>>
      => UNCHANGED <<turnCounter, records>> \/ (turnCounter' = 0 /\ records' = NoData)

ClaimsAreOwn ==
  \A c \in Callers :
    LET claim == callers[c].claim IN
    callers[c].at # "out" /\ OwnsLock(c) /\ claim # NoClaim =>
      records[claim.key] = NoRecord \/ (InProgress(records[claim.key]) /\ records[claim.key].owner = claim.owner)

(* The requests and turns of the session keep the promise of every store.  *)
Kept == INSTANCE RequestContract WITH
  Rooms <- {"redis"},
  ledger <- [s \in {"redis"} |-> [k \in Keys |->
    IF records[k] = NoRecord THEN [status |-> "none", owner |-> 0]
    ELSE [status |-> records[k].status, owner |-> records[k].owner]]],
  told <- [s \in {"redis"} |-> turnCounter],
  overdue <- [s \in {"redis"} |-> {k \in Keys : Due(records[k], clock)}]

RedisKeepsPromise == Kept!ContractSpec /\ []ClaimsAreOwn /\ [][HoldersAreAlone]_redisVars
=============================================================================
