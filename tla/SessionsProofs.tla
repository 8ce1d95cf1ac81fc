---------------------------- MODULE SessionsProofs ----------------------------
(***************************************************************************)
(* That both session stores keep what every store promises, for any number *)
(* of callers, sessions and requests: the one in Redis, whose lock may     *)
(* expire under its holder, and the one of a process, which evicts.        *)
(***************************************************************************)
EXTENDS MCSessions, SequenceTheorems, FiniteSetTheorems, WellFoundedInduction, TLAPS

-----------------------------------------------------------------------------
(* The session in Redis                                                    *)

(* A record that was written.                                              *)
Recs == [status : {"in_progress", "completed", "failed"}, owner : Nat, expires : Nat]

(* What a caller remembers of a call between reading and writing.          *)
Calls_ == {NoCall} \cup [op : {"append"}]
            \cup [op : {"begin", "complete", "fail"}, key : Keys, now : Nat, expected : {NoRecord} \cup Recs]

CallerType ==
  [at : {"out", "in", "calling", "leaving"}, token : Nat, lost : BOOLEAN,
   claim : {NoClaim} \cup [key : Keys, owner : Nat], call : Calls_]

(* What the variables range over: tokens and owners were drawn.            *)
RedisTypes ==
  /\ uuids \in Nat /\ clock \in Nat /\ turnCounter \in Nat
  /\ lockValue \in Nat /\ lockValue <= uuids
  /\ records \in [Keys -> {NoRecord} \cup Recs]
  /\ \A k \in Keys : records[k] # NoRecord => records[k].owner \in 1..uuids
  /\ callers \in [Callers -> CallerType]

(* What a call will compare the record with is one that it may replace.    *)
CallFits(call) ==
  /\ call.op = "begin" => call.now <= clock /\ call.expected.status # "completed"
  /\ call.op \in {"complete", "fail"} => call.expected \in Recs /\ call.expected.status = "in_progress"

(* Every transaction has a token of its own.                               *)
TokensDiffer ==
  /\ \A c \in Callers : callers[c].at # "out" => callers[c].token \in 1..uuids
  /\ \A c, d \in Callers : c # d /\ callers[c].at # "out" /\ callers[d].at # "out"
                             => callers[c].token # callers[d].token

(* The inductive invariant of the session in Redis.                        *)
RedisInv ==
  RedisTypes /\ TokensDiffer /\ (\A c \in Callers : CallFits(callers[c].call)) /\ ClaimsAreOwn

(* It holds at first.                                                      *)
LEMMA RedisInitially == RedisInit => RedisInv
<1> SUFFICES ASSUME RedisInit PROVE RedisInv
  OBVIOUS
<1>1. Outside \in CallerType /\ Outside.at = "out" /\ Outside.call.op = "none"
  BY DEF Outside, CallerType, Calls_, NoClaim, NoCall
<1> QED BY <1>1 DEF RedisInit, RedisInv, RedisTypes, TokensDiffer, CallFits, ClaimsAreOwn, NoData

(* Only one of those in a transaction holds the lock.                      *)
LEMMA OneOwner ==
  ASSUME RedisInv, NEW c \in Callers, callers[c].at # "out", OwnsLock(c),
         NEW d \in Callers, callers[d].at # "out", OwnsLock(d)
  PROVE  c = d
BY DEF RedisInv, TokensDiffer, OwnsLock

(* What a step of one caller must establish.                               *)
LEMMA CallerKeeps ==
  ASSUME RedisInv, NEW c \in Callers, NEW x \in CallerType, Put(c, x), UNCHANGED clock,
         uuids' \in Nat, uuids <= uuids', turnCounter' \in Nat, lockValue' \in Nat,
         lockValue' <= uuids', lockValue' \in {0, lockValue} \/ lockValue' > uuids,
         records' \in [Keys -> {NoRecord} \cup Recs],
         \A k \in Keys : records'[k] # NoRecord => records'[k].owner \in 1..uuids',
         x.at # "out" => \/ callers[c].at # "out" /\ x.token = callers[c].token
                         \/ x.token > uuids /\ x.token <= uuids',
         CallFits(x.call),
         x.at # "out" /\ lockValue' = x.token /\ x.claim # NoClaim =>
           \/ records'[x.claim.key] = NoRecord
           \/ InProgress(records'[x.claim.key]) /\ records'[x.claim.key].owner = x.claim.owner,
         \A d \in Callers \ {c} : callers[d].at # "out" /\ OwnsLock(d) =>
           \A k \in Keys : records'[k] \in {NoRecord, records[k]}
  PROVE  RedisInv'
<1>1. RedisTypes /\ TokensDiffer /\ ClaimsAreOwn /\ \A d \in Callers : CallFits(callers[d].call)
  BY DEF RedisInv
<1>2. callers' \in [Callers -> CallerType] /\ callers'[c] = x
      /\ \A d \in Callers \ {c} : callers'[d] = callers[d]
  BY <1>1 DEF Put, RedisTypes
<1>3. RedisTypes'
  BY <1>1, <1>2 DEF RedisTypes
<1>4. \A d \in Callers : callers[d].token \in Nat /\ callers'[d].token \in Nat
  BY <1>1, <1>2 DEF RedisTypes, CallerType
<1>5. \A d \in Callers : callers'[d].at # "out" => callers'[d].token \in 1..uuids'
  BY <1>1, <1>2, <1>4 DEF TokensDiffer, RedisTypes
<1>6. \A d \in Callers \ {c} : callers'[d].at # "out" /\ x.at # "out" => callers'[d].token # x.token
  BY <1>1, <1>2, <1>4 DEF TokensDiffer, RedisTypes
<1>7. TokensDiffer'
  BY <1>1, <1>2, <1>5, <1>6 DEF TokensDiffer
<1>8. \A d \in Callers : CallFits(callers[d].call)'
  BY <1>1, <1>2 DEF CallFits
<1>9. ClaimsAreOwn'
  <2> SUFFICES ASSUME NEW d \in Callers, callers'[d].at # "out", lockValue' = callers'[d].token,
                      callers'[d].claim # NoClaim
               PROVE  \/ records'[callers'[d].claim.key] = NoRecord
                      \/ InProgress(records'[callers'[d].claim.key])
                         /\ records'[callers'[d].claim.key].owner = callers'[d].claim.owner
    BY DEF ClaimsAreOwn, OwnsLock, InProgress
  <2>1. CASE d = c
    BY <1>2, <2>1
  <2>2. CASE d # c
    <3>1. callers'[d] = callers[d] /\ callers[d].token \in 1..uuids
      BY <1>1, <1>2, <2>2 DEF TokensDiffer
    <3>2. lockValue = callers[d].token
      <4>1. \A n, m, t \in Nat : t \in 1..n /\ m = t => m # 0 /\ ~(m > n)
        OBVIOUS
      <4> QED BY <1>1, <3>1, <4>1 DEF RedisTypes
    <3>3. callers[d].claim.key \in Keys
      BY <1>1, <3>1 DEF RedisTypes, CallerType
    <3>4. records'[callers[d].claim.key] \in {NoRecord, records[callers[d].claim.key]}
      BY <2>2, <3>1, <3>2, <3>3 DEF OwnsLock
    <3> QED BY <1>1, <3>1, <3>2, <3>4 DEF ClaimsAreOwn, OwnsLock
  <2> QED BY <2>1, <2>2
<1> QED BY <1>3, <1>7, <1>8, <1>9 DEF RedisInv

(* What a record says of its request.                                      *)
Heard(record) ==
  IF record = NoRecord THEN [status |-> "none", owner |-> 0]
  ELSE [status |-> record.status, owner |-> record.owner]

(* Records that have ended may go.                                         *)
LEMMA Forgetting ==
  ASSUME turnCounter' = turnCounter,
         \A k \in Keys : \/ records'[k] = records[k]
                         \/ records[k].status \in {"completed", "failed"} /\ records'[k] = NoRecord
  PROVE  Kept!ContractNext
<1>1. ~(NoRecord.status \in {"completed", "failed"})
  BY DEF NoRecord
<1> QED BY <1>1
  DEF Kept!ContractNext, Kept!RoomStep, Kept!Forget, Kept!Ended, Kept!Unheard, NoRecord

(* So may all of it.                                                       *)
LEMMA Clearing ==
  ASSUME turnCounter' = 0, records' = NoData
  PROVE  Kept!ContractNext
BY DEF Kept!ContractNext, Kept!RoomStep, Kept!Clear, Kept!NoneHeard, Kept!Unheard, NoData

(* A turn alone.                                                           *)
LEMMA Telling ==
  ASSUME turnCounter' = turnCounter + 1, records' = records
  PROVE  Kept!ContractNext
BY DEF Kept!ContractNext, Kept!RoomStep, Kept!Tell

(* A claim.                                                                *)
LEMMA Claiming ==
  ASSUME turnCounter' = turnCounter, NEW k \in Keys,
         records[k].status # "completed" \/ Due(records[k], clock),
         records'[k] # NoRecord, records'[k].status = "in_progress",
         records'[k].owner # Heard(records[k]).owner,
         \A other \in Keys \ {k} :
           \/ records'[other] = records[other]
           \/ records[other].status \in {"completed", "failed"} /\ records'[other] = NoRecord
  PROVE  Kept!ContractNext
<1>1. ~(NoRecord.status \in {"completed", "failed"})
  BY DEF NoRecord
<1>2. Kept!Claim("redis", k)
  BY <1>1 DEF Kept!Claim, Kept!OthersOf, Kept!Ended, Kept!Unheard, Heard
<1> QED BY <1>2 DEF Kept!ContractNext, Kept!RoomStep

(* The end of a claim.                                                     *)
LEMMA Ending ==
  ASSUME NEW k \in Keys, NEW status \in {"completed", "failed"},
         turnCounter' = turnCounter + IF status = "completed" THEN 1 ELSE 0, turnCounter \in Nat,
         records[k].status = "in_progress", records'[k] # NoRecord,
         records'[k].status = status, records'[k].owner = records[k].owner,
         \A other \in Keys \ {k} : records'[other] = records[other]
  PROVE  Kept!ContractNext
<1>1. records[k] # NoRecord
  BY DEF NoRecord
<1>2. Kept!EndsAs("redis", k, status)
  BY <1>1 DEF Kept!EndsAs, Kept!OthersOf
<1>3. CASE status = "completed"
  BY <1>2, <1>3 DEF Kept!ContractNext, Kept!RoomStep, Kept!Complete
<1>4. CASE status = "failed"
  BY <1>2, <1>4 DEF Kept!ContractNext, Kept!RoomStep, Kept!Fail
<1> QED BY <1>3, <1>4

(* What the steps of Redis promise.                                        *)
RedisPromise == Kept!ContractNext /\ HoldersAreAlone

(* A step that leaves records and turns alone.                             *)
LEMMA QuietPromise ==
  ASSUME UNCHANGED <<turnCounter, records>>
  PROVE  RedisPromise
BY Forgetting DEF RedisPromise, HoldersAreAlone

(* Who holds the lock is the only one to write.                            *)
LEMMA WritersAlone ==
  ASSUME RedisInv, NEW c \in Callers, callers[c].at # "out", OwnsLock(c), callers'[c].at # callers[c].at
  PROVE  HoldersAreAlone
BY OneOwner DEF HoldersAreAlone

(* What CallerKeeps asks of a step that leaves records, turns and the lock *)
(* alone.                                                                  *)
LEMMA QuietKeeps ==
  ASSUME RedisInv, NEW c \in Callers, NEW x \in CallerType, Put(c, x), callers[c].at # "out",
         UNCHANGED <<lockValue, turnCounter, records, uuids, clock>>,
         x.token = callers[c].token, CallFits(x.call), x.claim \in {callers[c].claim, NoClaim}
  PROVE  RedisInv' /\ RedisPromise
<1>1. RedisTypes /\ TokensDiffer /\ ClaimsAreOwn
  BY DEF RedisInv
<1>2. x.at # "out" /\ lockValue' = x.token /\ x.claim # NoClaim =>
        \/ records'[x.claim.key] = NoRecord
        \/ InProgress(records'[x.claim.key]) /\ records'[x.claim.key].owner = x.claim.owner
  BY <1>1 DEF ClaimsAreOwn, OwnsLock
<1>3. \A d \in Callers \ {c} : callers[d].at # "out" /\ OwnsLock(d) =>
        \A k \in Keys : records'[k] \in {NoRecord, records[k]}
  OBVIOUS
<1>4. RedisInv'
  BY <1>1, <1>2, <1>3, CallerKeeps DEF RedisTypes
<1> QED BY <1>4, QuietPromise

(* The empty values have no operation; Outside is out.                     *)
LEMMA EmptyOnes ==
  /\ Outside \in CallerType /\ Outside.at = "out" /\ Outside.call = NoCall /\ Outside.claim = NoClaim
  /\ NoCall \in Calls_ /\ CallFits(NoCall) /\ NoCall.op = "none"
BY DEF Outside, CallerType, Calls_, NoClaim, NoCall, CallFits

(* A caller begins to call.                                                *)
LEMMA CallsKeep ==
  ASSUME RedisInv, NEW c \in Callers, callers[c].at = "in", NEW call \in Calls_, CallFits(call),
         Calls(c, call), UNCHANGED <<lockValue, dataVars, uuids, clock, lapses>>
  PROVE  RedisInv' /\ RedisPromise
<1> DEFINE x == [callers[c] EXCEPT !.at = "calling", !.call = call]
<1>1. callers[c] \in CallerType
  BY DEF RedisInv, RedisTypes
<1>2. x \in CallerType /\ x.token = callers[c].token /\ x.call = call /\ x.claim = callers[c].claim
  BY <1>1 DEF CallerType
<1>3. Put(c, x) /\ UNCHANGED <<turnCounter, records>>
  BY DEF Calls, dataVars
<1> HIDE DEF x
<1> QED BY <1>2, <1>3, QuietKeeps

(* A caller gives up what it was about, and changes nothing.               *)
LEMMA LeavesKeep ==
  ASSUME RedisInv, NEW c \in Callers, callers[c].at # "out", Put(c, Leaves(c)),
         UNCHANGED <<lockValue, dataVars, uuids, clock>>
  PROVE  RedisInv' /\ RedisPromise
<1>1. callers[c] \in CallerType
  BY DEF RedisInv, RedisTypes
<1>2. /\ Leaves(c) \in CallerType /\ Leaves(c).token = callers[c].token
      /\ Leaves(c).call = NoCall /\ Leaves(c).claim = NoClaim /\ Leaves(c).at = "leaving"
  BY <1>1, EmptyOnes DEF Leaves, CallerType
<1>3. UNCHANGED <<turnCounter, records>>
  BY DEF dataVars
<1> QED BY <1>2, <1>3, QuietKeeps, EmptyOnes

(* The reads before the scripts.                                           *)
LEMMA ReadsKeep ==
  ASSUME RedisInv, NEW c \in Callers,
         \/ \E k \in Keys : BeginRequest(c, k)
         \/ \E op \in {"complete", "fail"} : EndRequest(c, op)
         \/ EndRefused(c) \/ AppendTurn(c) \/ ScriptRefuses(c)
  PROVE  RedisInv' /\ RedisPromise
<1>0. RedisTypes
  BY DEF RedisInv
<1>1. ASSUME NEW k \in Keys, BeginRequest(c, k) PROVE RedisInv' /\ RedisPromise
  <2> DEFINE stale == records[k] = NoRecord \/ Due(records[k], clock)
             call == [op |-> "begin", key |-> k, now |-> clock,
                      expected |-> IF stale THEN NoRecord ELSE records[k]]
  <2>1. call \in Calls_
    BY <1>0 DEF RedisTypes, Calls_
  <2>2. CallFits(call)
    BY <1>0, <1>1 DEF CallFits, BeginRequest, RedisTypes, NoRecord
  <2>3. Calls(c, call) /\ callers[c].at = "in" /\ UNCHANGED <<lockValue, dataVars, uuids, clock, lapses>>
    BY <1>1 DEF BeginRequest, Working
  <2> HIDE DEF call
  <2> QED BY <2>1, <2>2, <2>3, CallsKeep
<1>2. ASSUME NEW op \in {"complete", "fail"}, EndRequest(c, op) PROVE RedisInv' /\ RedisPromise
  <2> DEFINE key == callers[c].claim.key
             call == [op |-> op, key |-> key, now |-> clock, expected |-> records[key]]
  <2>1. key \in Keys
    BY <1>0, <1>2 DEF RedisTypes, EndRequest, CallerType
  <2>2. records[key].status = "in_progress" /\ records[key] \in Recs
    BY <1>0, <1>2, <2>1 DEF EndRequest, RedisTypes, InProgress, NoRecord
  <2>3. call \in Calls_ /\ CallFits(call)
    BY <1>0, <2>1, <2>2 DEF RedisTypes, Calls_, CallFits
  <2>4. Calls(c, call) /\ callers[c].at = "in" /\ UNCHANGED <<lockValue, dataVars, uuids, clock, lapses>>
    BY <1>2 DEF EndRequest, Working
  <2> HIDE DEF call
  <2> QED BY <2>3, <2>4, CallsKeep
<1>3. CASE EndRefused(c)
  BY <1>3, LeavesKeep DEF EndRefused, Working
<1>4. CASE AppendTurn(c)
  <2>1. [op |-> "append"] \in Calls_ /\ CallFits([op |-> "append"])
    BY DEF Calls_, CallFits
  <2> QED BY <1>4, <2>1, CallsKeep DEF AppendTurn, Working
<1>5. CASE ScriptRefuses(c)
  BY <1>5, LeavesKeep DEF ScriptRefuses
<1> QED BY <1>1, <1>2, <1>3, <1>4, <1>5

(* The lock is taken, given back or lost; the renewal stops.               *)
LEMMA LockKeeps ==
  ASSUME RedisInv, NEW c \in Callers, Acquire(c) \/ RenewStops(c) \/ Release(c)
  PROVE  RedisInv' /\ RedisPromise
<1>0. RedisTypes /\ TokensDiffer /\ ClaimsAreOwn /\ \A d \in Callers : CallFits(callers[d].call)
  BY DEF RedisInv
<1>1. callers[c] \in CallerType /\ NoClaim \notin [key : Keys, owner : Nat]
  BY <1>0 DEF RedisTypes, NoClaim
<1>2. \A d \in Callers : callers[d].at # "out" /\ OwnsLock(d) => lockValue # 0
  BY <1>0 DEF TokensDiffer, OwnsLock
<1>3. CASE RenewStops(c)
  <2> DEFINE x == [callers[c] EXCEPT !.lost = TRUE]
  <2>1. x \in CallerType /\ x.token = callers[c].token /\ x.call = callers[c].call /\ x.claim = callers[c].claim
    BY <1>1 DEF CallerType
  <2>2. Put(c, x) /\ callers[c].at # "out" /\ UNCHANGED <<lockValue, turnCounter, records, uuids, clock>>
    BY <1>3 DEF RenewStops, dataVars
  <2> HIDE DEF x
  <2> QED BY <1>0, <2>1, <2>2, QuietKeeps
<1>4. CASE Release(c)
  <2>1. /\ Put(c, Outside) /\ lockValue' \in {0, lockValue}
        /\ UNCHANGED <<turnCounter, records, uuids, clock>>
    BY <1>4 DEF Release, dataVars
  <2>2. RedisInv'
    BY <1>0, <2>1, EmptyOnes, CallerKeeps DEF RedisTypes
  <2> QED BY <2>1, <2>2, QuietPromise
<1>5. CASE Acquire(c)
  <2>1. /\ lockValue = 0 /\ callers[c].at = "out" /\ uuids' = uuids + 1 /\ lockValue' = uuids + 1
        /\ UNCHANGED <<turnCounter, records, clock>>
    BY <1>5 DEF Acquire
  <2>2. CASE Put(c, [Outside EXCEPT !.at = "in", !.token = uuids + 1])
    <3> DEFINE x == [Outside EXCEPT !.at = "in", !.token = uuids + 1]
    <3>1. x \in CallerType /\ x.token = uuids + 1 /\ x.call = NoCall /\ x.claim = NoClaim
      <4>1. uuids + 1 \in Nat /\ "in" \in {"out", "in", "calling", "leaving"}
        BY <1>0 DEF RedisTypes
      <4>2. Outside \in CallerType
        BY EmptyOnes
      <4>3. x \in CallerType /\ x.token = uuids + 1 /\ x.call = Outside.call /\ x.claim = Outside.claim
        BY <4>1, <4>2 DEF CallerType
      <4> QED BY <4>3, EmptyOnes
    <3>2. Put(c, x)
      BY <2>2
    <3> HIDE DEF x
    <3>3. uuids \in Nat /\ uuids + 1 \in Nat /\ uuids <= uuids + 1 /\ uuids + 1 > uuids /\ uuids + 1 <= uuids + 1
      BY <1>0 DEF RedisTypes
    <3>4. /\ turnCounter' \in Nat /\ records' \in [Keys -> {NoRecord} \cup Recs]
          /\ \A k \in Keys : records'[k] # NoRecord => records'[k].owner \in 1..uuids'
      BY <1>0, <2>1 DEF RedisTypes
    <3>5. \A d \in Callers \ {c} : callers[d].at # "out" => ~OwnsLock(d)
      BY <1>2, <2>1
    <3>6. RedisInv'
      BY <2>1, <3>1, <3>2, <3>3, <3>4, <3>5, EmptyOnes, CallerKeeps
    <3> QED BY <2>1, <3>6, QuietPromise
  <2>3. CASE UNCHANGED callers
    <3>1. Put(c, callers[c])
      BY <1>0, <2>3 DEF Put, RedisTypes
    <3>2. RedisInv'
      BY <1>0, <1>1, <1>2, <2>1, <3>1, CallerKeeps DEF RedisTypes
    <3> QED BY <2>1, <3>2, QuietPromise
  <2> QED BY <1>5, <2>2, <2>3 DEF Acquire
<1> QED BY <1>3, <1>4, <1>5

(* The session is deleted.                                                 *)
LEMMA ClearKeeps ==
  ASSUME RedisInv, NEW c \in Callers, ClearData(c)
  PROVE  RedisInv' /\ RedisPromise
<1>0. RedisTypes /\ TokensDiffer /\ ClaimsAreOwn /\ \A d \in Callers : CallFits(callers[d].call)
  BY DEF RedisInv
<1>1. turnCounter' = 0 /\ records' = NoData /\ UNCHANGED <<lockValue, callers, uuids, clock>>
  BY DEF ClearData
<1>2. RedisInv'
  BY <1>0, <1>1 DEF RedisInv, RedisTypes, TokensDiffer, CallFits, ClaimsAreOwn, OwnsLock, NoData, CallerType
<1> QED BY <1>1, <1>2, Clearing DEF RedisPromise, HoldersAreAlone

(* What no caller does: expiries and the clock.                            *)
LEMMA TimeKeeps ==
  ASSUME RedisInv, LockLapses \/ SessionExpires \/ RedisTick
  PROVE  RedisInv' /\ RedisPromise
<1>0. RedisTypes /\ TokensDiffer /\ ClaimsAreOwn /\ \A d \in Callers : CallFits(callers[d].call)
  BY DEF RedisInv
<1>1. CASE LockLapses
  <2>1. lockValue' = 0 /\ UNCHANGED <<turnCounter, records, callers, uuids, clock>>
    BY <1>1 DEF LockLapses, dataVars
  <2>2. RedisInv'
    BY <1>0, <2>1 DEF RedisInv, RedisTypes, TokensDiffer, CallFits, ClaimsAreOwn, OwnsLock
  <2> QED BY <2>1, <2>2, QuietPromise
<1>2. CASE SessionExpires
  <2>1. turnCounter' = 0 /\ records' = NoData /\ UNCHANGED <<lockValue, callers, uuids, clock>>
    BY <1>2 DEF SessionExpires
  <2>2. RedisInv'
    BY <1>0, <2>1 DEF RedisInv, RedisTypes, TokensDiffer, CallFits, ClaimsAreOwn, OwnsLock, NoData, CallerType
  <2> QED BY <2>1, <2>2, Clearing DEF RedisPromise, HoldersAreAlone
<1>3. CASE RedisTick
  <2>1. clock' = clock + 1 /\ UNCHANGED <<lockValue, turnCounter, records, callers, uuids>>
    BY <1>3 DEF RedisTick, dataVars
  <2>2. \A d \in Callers : CallFits(callers[d].call)'
    <3> SUFFICES ASSUME NEW d \in Callers PROVE CallFits(callers[d].call)'
      OBVIOUS
    <3>1. callers[d].call.op = "begin" => callers[d].call.now \in Nat
      BY <1>0 DEF RedisTypes, CallerType, Calls_, NoCall
    <3> QED BY <1>0, <2>1, <3>1 DEF CallFits, RedisTypes
  <2>3. RedisInv'
    BY <1>0, <2>1, <2>2 DEF RedisInv, RedisTypes, TokensDiffer, ClaimsAreOwn, OwnsLock, InProgress
  <2> QED BY <2>1, <2>3, QuietPromise
<1> QED BY <1>1, <1>2, <1>3

(* What a script must establish, whether its answer comes or is lost.      *)
LEMMA ScriptsKeep ==
  ASSUME RedisInv, NEW c \in Callers, callers[c].at = "calling", OwnsLock(c),
         NEW x \in CallerType, x.at = "in", x.token = callers[c].token, x.call = NoCall,
         Answered(c, x) \/ Put(c, Leaves(c)), UNCHANGED <<lockValue, clock>>,
         uuids' \in Nat, uuids <= uuids', turnCounter' \in Nat,
         records' \in [Keys -> {NoRecord} \cup Recs],
         \A k \in Keys : records'[k] # NoRecord => records'[k].owner \in 1..uuids',
         x.claim # NoClaim =>
           \/ records'[x.claim.key] = NoRecord
           \/ InProgress(records'[x.claim.key]) /\ records'[x.claim.key].owner = x.claim.owner
  PROVE  RedisInv' /\ HoldersAreAlone
<1>0. RedisTypes /\ callers[c] \in CallerType
  BY DEF RedisInv, RedisTypes
<1>1. /\ Leaves(c) \in CallerType /\ Leaves(c).token = callers[c].token
      /\ Leaves(c).call = NoCall /\ Leaves(c).claim = NoClaim /\ Leaves(c).at = "leaving"
  BY <1>0, EmptyOnes DEF Leaves, CallerType
<1>2. \A d \in Callers \ {c} : callers[d].at # "out" => ~OwnsLock(d)
  BY OneOwner
<1>3. PICK y \in {x, Leaves(c)} : Put(c, y)
  BY DEF Answered
<1>4. /\ y \in CallerType /\ y.at \in {"in", "leaving"} /\ y.token = callers[c].token /\ y.call = NoCall
      /\ y.claim \in {x.claim, NoClaim}
  BY <1>1
<1>5. RedisInv'
  <2>1. lockValue' \in Nat /\ lockValue' <= uuids'
    BY <1>0 DEF RedisTypes
  <2>2. CallFits(y.call)
    BY <1>4, EmptyOnes
  <2>3. y.at # "out" /\ lockValue' = y.token /\ y.claim # NoClaim =>
          \/ records'[y.claim.key] = NoRecord
          \/ InProgress(records'[y.claim.key]) /\ records'[y.claim.key].owner = y.claim.owner
    BY <1>4
  <2> QED BY <1>2, <1>3, <1>4, <2>1, <2>2, <2>3, CallerKeeps
<1>6. callers'[c].at # callers[c].at
  BY <1>0, <1>3, <1>4 DEF Put, RedisTypes
<1> QED BY <1>5, <1>6, WritersAlone

(* A request ends, or a turn is appended.                                  *)
LEMMA EndsKeep ==
  ASSUME RedisInv, NEW c \in Callers, CompleteScript(c) \/ FailScript(c) \/ AppendScript(c)
  PROVE  RedisInv' /\ RedisPromise
<1>0. RedisTypes /\ callers[c] \in CallerType /\ ClaimsAreOwn /\ CallFits(Call(c))
  BY DEF RedisInv, RedisTypes, Call
<1>1. CASE AppendScript(c)
  <2> DEFINE x == [callers[c] EXCEPT !.at = "in", !.call = NoCall]
  <2>1. /\ x \in CallerType /\ x.token = callers[c].token /\ x.call = NoCall /\ x.claim = callers[c].claim
        /\ x.at = "in"
    BY <1>0, EmptyOnes DEF CallerType
  <2>2. /\ callers[c].at = "calling" /\ OwnsLock(c) /\ Answered(c, x) /\ turnCounter' = turnCounter + 1
        /\ UNCHANGED <<lockValue, records, uuids, clock>>
    BY <1>1 DEF AppendScript, Sends
  <2> HIDE DEF x
  <2>3. x.claim # NoClaim =>
           \/ records'[x.claim.key] = NoRecord
           \/ InProgress(records'[x.claim.key]) /\ records'[x.claim.key].owner = x.claim.owner
    BY <1>0, <2>1, <2>2 DEF ClaimsAreOwn
  <2>4. RedisInv' /\ HoldersAreAlone
    BY <1>0, <2>1, <2>2, <2>3, ScriptsKeep DEF RedisTypes
  <2> QED BY <2>2, <2>4, Telling DEF RedisPromise
<1>2. ASSUME NEW status \in {"completed", "failed"}, Call(c).op \in {"complete", "fail"},
             callers[c].at = "calling", Ends(c, status, IF status = "completed" THEN 1 ELSE 0)
      PROVE  RedisInv' /\ RedisPromise
  <2> DEFINE x == [callers[c] EXCEPT !.at = "in", !.call = NoCall, !.claim = NoClaim]
             e == Call(c).expected
             k == Call(c).key
             n == IF status = "completed" THEN 1 ELSE 0
  <2>1. /\ x \in CallerType /\ x.token = callers[c].token /\ x.call = NoCall /\ x.claim = NoClaim
        /\ x.at = "in"
    BY <1>0, EmptyOnes DEF CallerType
  <2>2. e \in Recs /\ e.status = "in_progress" /\ k \in Keys /\ Call(c).now \in Nat
    BY <1>0, <1>2 DEF CallFits, CallerType, Calls_, NoCall, Call
  <2> DEFINE r == [e EXCEPT !.status = status, !.expires = Call(c).now + RecordTtl]
  <2>3. r \in Recs /\ r.status = status /\ r.owner = e.owner /\ r # NoRecord
    <3>1. Call(c).now + RecordTtl \in Nat
      BY <2>2, RedisAssumption
    <3>2. r \in Recs /\ r.status = status /\ r.owner = e.owner
      BY <2>2, <3>1 DEF Recs
    <3> QED BY <3>2 DEF NoRecord
  <2>4. /\ OwnsLock(c) /\ Answered(c, x) /\ turnCounter' = turnCounter + n /\ records[k] = e
        /\ records' = [records EXCEPT ![k] = r] /\ UNCHANGED <<lockValue, fencing, uuids, clock>>
    BY <1>2 DEF Ends
  <2> HIDE DEF x, r
  <2>5. records'[k] = r /\ \A o \in Keys \ {k} : records'[o] = records[o]
    BY <1>0, <2>2, <2>4 DEF RedisTypes
  <2>6. records' \in [Keys -> {NoRecord} \cup Recs]
    BY <1>0, <2>3, <2>4 DEF RedisTypes
  <2>7. e.owner \in 1..uuids
    BY <1>0, <2>2, <2>4 DEF RedisTypes, NoRecord
  <2>8. \A o \in Keys : records'[o] # NoRecord => records'[o].owner \in 1..uuids'
    BY <1>0, <2>3, <2>4, <2>5, <2>7 DEF RedisTypes
  <2>9. turnCounter' \in Nat
    BY <1>0, <2>4 DEF RedisTypes
  <2>10. RedisInv' /\ HoldersAreAlone
    BY <1>0, <1>2, <2>1, <2>4, <2>6, <2>8, <2>9, ScriptsKeep DEF RedisTypes
  <2>11. Kept!ContractNext
    BY <1>0, <2>2, <2>3, <2>4, <2>5, Ending DEF RedisTypes
  <2> QED BY <2>10, <2>11 DEF RedisPromise
<1>3. CASE CompleteScript(c)
  BY <1>2, <1>3 DEF CompleteScript, Sends
<1>4. CASE FailScript(c)
  BY <1>2, <1>4 DEF FailScript, Sends
<1> QED BY <1>1, <1>3, <1>4

(* A request begins: what has expired goes, and of what has ended the      *)
(* oldest makes room, unless the record was replaced since it was read.    *)
LEMMA BeginKeeps ==
  ASSUME RedisInv, NEW c \in Callers, BeginScript(c)
  PROVE  RedisInv' /\ RedisPromise
<1>0. RedisTypes /\ callers[c] \in CallerType /\ CallFits(Call(c))
  BY DEF RedisInv, RedisTypes, Call
<1> DEFINE k == Call(c).key
           e == Call(c).expected
           kept == Purged(Call(c).now)
           isNew == e = NoRecord
<1>1. /\ callers[c].at = "calling" /\ OwnsLock(c) /\ Call(c).op = "begin"
      /\ UNCHANGED <<lockValue, turnCounter, clock>>
  BY DEF BeginScript, Sends
<1>2. k \in Keys /\ Call(c).now \in Nat /\ e \in {NoRecord} \cup Recs /\ Call(c).now <= clock
      /\ e.status # "completed"
  BY <1>0, <1>1 DEF CallFits, CallerType, Calls_, NoCall, Call
<1>3. \A o \in Keys : \/ kept[o] = records[o]
                      \/ kept[o] = NoRecord /\ records[o].status \in {"completed", "failed"}
                         /\ Due(records[o], clock)
  <2> SUFFICES ASSUME NEW o \in Keys, Due(records[o], Call(c).now)
               PROVE  records[o].status \in {"completed", "failed"} /\ Due(records[o], clock)
    BY DEF Purged
  <2>1. records[o] \in Recs
    BY <1>0 DEF RedisTypes, Due, NoRecord
  <2>2. records[o].expires \in Nat /\ clock \in Nat
    BY <1>0, <2>1 DEF Recs, RedisTypes
  <2> QED BY <1>2, <2>2 DEF Due
<1>4. CASE kept[k] # e
  <2>1. records' = kept /\ Put(c, Leaves(c)) /\ UNCHANGED uuids
    BY <1>4 DEF BeginScript
  <2>2. records' \in [Keys -> {NoRecord} \cup Recs]
    BY <1>0, <2>1 DEF RedisTypes, Purged
  <2>3. \A o \in Keys : records'[o] # NoRecord => records'[o].owner \in 1..uuids'
    BY <1>0, <1>3, <2>1 DEF RedisTypes
  <2> DEFINE x == [callers[c] EXCEPT !.at = "in", !.call = NoCall, !.claim = NoClaim]
  <2>4. /\ x \in CallerType /\ x.token = callers[c].token /\ x.call = NoCall /\ x.claim = NoClaim
        /\ x.at = "in"
    BY <1>0, EmptyOnes DEF CallerType
  <2> HIDE DEF x
  <2>5. RedisInv' /\ HoldersAreAlone
    BY <1>0, <1>1, <2>1, <2>2, <2>3, <2>4, ScriptsKeep DEF RedisTypes
  <2>6. Kept!ContractNext
    BY <1>1, <1>3, <2>1, Forgetting
  <2> QED BY <2>5, <2>6 DEF RedisPromise
<1>5. CASE kept[k] = e
  <2> DEFINE owner == uuids + 1
             new == Fresh(c, owner)
             x == [callers[c] EXCEPT !.at = "in", !.call = NoCall, !.claim = [key |-> k, owner |-> owner]]
  <2>1. PICK dropped \in IF isNew THEN Oldest(kept) ELSE {{}} :
          records' = [o \in Keys |-> IF o = k THEN new ELSE IF o \in dropped THEN NoRecord ELSE kept[o]]
    BY <1>5 DEF BeginScript
  <2>2. uuids' = owner /\ Answered(c, x)
    BY <1>5 DEF BeginScript
  <2>3. /\ x \in CallerType /\ x.token = callers[c].token /\ x.call = NoCall /\ x.at = "in"
        /\ x.claim = [key |-> k, owner |-> owner]
    <3> DEFINE claim == [key |-> k, owner |-> owner]
    <3>1. claim \in {NoClaim} \cup [key : Keys, owner : Nat] /\ NoCall \in Calls_
      BY <1>0, <1>2, EmptyOnes DEF RedisTypes
    <3>2. x = [callers[c] EXCEPT !.at = "in", !.call = NoCall, !.claim = claim]
      OBVIOUS
    <3> HIDE DEF claim, x
    <3>3. x \in CallerType /\ x.token = callers[c].token /\ x.call = NoCall /\ x.at = "in" /\ x.claim = claim
      BY <1>0, <3>1, <3>2 DEF CallerType
    <3> QED BY <3>3 DEF claim
  <2>4. owner \in Nat /\ uuids <= owner /\ owner \in 1..owner /\ \A n \in 1..uuids : n \in 1..owner /\ n # owner
    BY <1>0 DEF RedisTypes
  <2>5. new \in Recs /\ new.status = "in_progress" /\ new.owner = owner /\ new # NoRecord
    <3>1. Call(c).now + RecordTtl \in Nat
      BY <1>2, RedisAssumption
    <3>2. new \in Recs /\ new.status = "in_progress" /\ new.owner = owner
      BY <2>4, <3>1 DEF Fresh, Recs
    <3> QED BY <3>2 DEF NoRecord
  <2>6. \A o \in dropped : o \in Keys /\ kept[o].status \in {"completed", "failed"}
    BY <2>1 DEF Oldest
  <2> HIDE DEF x, new, owner, kept
  <2>7. \A o \in Keys \ {k} :
          \/ records'[o] = records[o]
          \/ records[o].status \in {"completed", "failed"} /\ records'[o] = NoRecord
    BY <1>3, <2>1, <2>6
  <2>8. records'[k] = new
    BY <1>2, <2>1
  <2>9. records' \in [Keys -> {NoRecord} \cup Recs]
    BY <1>0, <2>1, <2>5, <2>7, <2>8 DEF RedisTypes
  <2>10. \A o \in Keys : records'[o] # NoRecord => records'[o].owner \in 1..uuids'
    BY <1>0, <2>2, <2>4, <2>5, <2>7, <2>8 DEF RedisTypes
  <2>11. InProgress(records'[x.claim.key]) /\ records'[x.claim.key].owner = x.claim.owner
    BY <2>3, <2>5, <2>8 DEF InProgress
  <2>12. RedisInv' /\ HoldersAreAlone
    BY <1>0, <1>1, <2>2, <2>3, <2>4, <2>9, <2>10, <2>11, ScriptsKeep DEF RedisTypes
  <2>13. records[k].status # "completed" \/ Due(records[k], clock)
    BY <1>2, <1>3, <1>5
  <2>14. Heard(records[k]).owner # owner
    BY <1>0, <1>2, <2>4 DEF Heard, RedisTypes
  <2>15. Kept!ContractNext
    BY <1>1, <1>2, <2>5, <2>7, <2>8, <2>13, <2>14, Claiming
  <2> QED BY <2>12, <2>15 DEF RedisPromise
<1> QED BY <1>4, <1>5

(* The invariant is inductive, and every step keeps the promise.           *)
LEMMA RedisStep == RedisInv /\ RedisNext => RedisInv' /\ RedisPromise
<1> SUFFICES ASSUME RedisInv, RedisNext PROVE RedisInv' /\ RedisPromise
  OBVIOUS
<1>1. ASSUME NEW c \in Callers, CallerStep(c) PROVE RedisInv' /\ RedisPromise
  BY <1>1, LockKeeps, ReadsKeep, ClearKeeps, BeginKeeps, EndsKeep DEF CallerStep
<1> QED BY <1>1, TimeKeeps DEF RedisNext

-----------------------------------------------------------------------------
(* What a list has of some                                                 *)

(* Numbers have a least one.                                               *)
LEMMA LeastExists ==
  ASSUME NEW T \in SUBSET Nat, T # {}
  PROVE  \E m \in T : \A k \in T : m <= k
<1>1. PICK m \in T : \A k \in T : ~(<<k, m>> \in OpToRel(<, Nat))
  BY NatLessThanWellFounded, WFMin
<1>2. \A k \in T : k < m => <<k, m>> \in OpToRel(<, Nat)
  BY DEF OpToRel
<1>3. \A k \in T : ~(k < m)
  BY <1>1, <1>2
<1>4. \A k \in T : k \in Nat /\ m \in Nat
  OBVIOUS
<1>5. \A k \in T : m <= k
  BY ONLY <1>3, <1>4
<1> QED BY <1>5

(* A set of numbers with 0 and every successor has them all.               *)
LEMMA Inductive ==
  ASSUME NEW T \in SUBSET Nat, 0 \in T, \A n \in Nat : n \in T => n + 1 \in T
  PROVE  T = Nat
<1> SUFFICES ASSUME Nat \ T # {} PROVE FALSE
  OBVIOUS
<1>1. PICK m \in Nat \ T : \A k \in Nat \ T : m <= k
  BY LeastExists
<1>2. m # 0 /\ m - 1 \in Nat /\ (m - 1) + 1 = m /\ ~(m <= m - 1)
  BY <1>1
<1>3. m - 1 \in T
  BY <1>1, <1>2
<1> QED BY <1>1, <1>2, <1>3

(* The body of those in Those.                                             *)
Body(list, some, g, n) ==
  IF n = 0 THEN <<>>
  ELSE IF list[n] \in some THEN Append(g[n - 1], list[n]) ELSE g[n - 1]

(* The function Those describes exists.                                    *)
LEMMA ThoseIs ==
  ASSUME NEW R, NEW list \in Seq(R), NEW some
  PROVE  \E g : /\ g = [k \in 0..Len(list) |-> Body(list, some, g, k)]
                /\ Those(list, some) = g[Len(list)]
<1>1. PICK n \in Nat : n = Len(list)
  BY LenProperties
<1> DEFINE T == {m \in Nat : \E g : g = [k \in 0..m |-> Body(list, some, g, k)]}
<1>2. 0 \in T
  <2>1. [k \in 0..0 |-> <<>>] = [k \in 0..0 |-> Body(list, some, [j \in 0..0 |-> <<>>], k)]
    BY DEF Body
  <2> QED BY <2>1
<1>3. ASSUME NEW m \in Nat, m \in T PROVE m + 1 \in T
  <2>1. PICK g : g = [k \in 0..m |-> Body(list, some, g, k)]
    BY <1>3
  <2> DEFINE h == [k \in 0..(m + 1) |-> Body(list, some, g, k)]
  <2>2. \A k \in 0..m : h[k] = g[k]
    BY <2>1
  <2>3. \A k \in 0..(m + 1) : Body(list, some, h, k) = Body(list, some, g, k)
    <3>1. \A k \in 0..(m + 1) : k # 0 => k - 1 \in 0..m
      OBVIOUS
    <3>2. \A k \in 0..(m + 1) : k # 0 => h[k - 1] = g[k - 1]
      BY <2>2, <3>1
    <3> HIDE DEF h
    <3> QED BY <3>2 DEF Body
  <2>4. h = [k \in 0..(m + 1) |-> Body(list, some, h, k)]
    BY <2>3
  <2> HIDE DEF h
  <2>5. \E x : x = [k \in 0..(m + 1) |-> Body(list, some, x, k)]
    BY <2>4
  <2> QED BY <2>5
<1>4. n \in T
  BY <1>1, <1>2, <1>3, Inductive
<1>5. \E g : g = [k \in 0..Len(list) |-> Body(list, some, g, k)]
  BY <1>1, <1>4
<1>6. Those(list, some) = (CHOOSE g : g = [k \in 0..Len(list) |-> Body(list, some, g, k)])[Len(list)]
  BY DEF Those, Body
<1> QED BY <1>5, <1>6

(* A list names nothing twice.                                             *)
NoDoubles(list) == \A i, j \in 1..Len(list) : list[i] = list[j] => i = j

(* What a list has.                                                        *)
Has(list, x) == \E i \in 1..Len(list) : list[i] = x

(* Those keeps what it is to keep, nothing else and nothing twice, and     *)
(* what came first comes first.                                            *)
LEMMA ThoseKeeps ==
  ASSUME NEW R, NEW list \in Seq(R), NEW some
  PROVE  /\ Those(list, some) \in Seq(R)
         /\ \A x : Has(Those(list, some), x) <=> x \in some /\ Has(list, x)
         /\ NoDoubles(list) => NoDoubles(Those(list, some))
         /\ 1 <= Len(list) /\ list[1] \in some =>
              1 <= Len(Those(list, some)) /\ Those(list, some)[1] = list[1]
<1>1. PICK n \in Nat : n = Len(list)
  BY LenProperties
<1>2. PICK g : g = [k \in 0..n |-> Body(list, some, g, k)] /\ Those(list, some) = g[n]
  BY <1>1, ThoseIs
<1>3. \A i \in 1..n : list[i] \in R
  BY <1>1, ElementOfSeq
<1> DEFINE P(m) == /\ g[m] \in Seq(R)
                   /\ \A x : Has(g[m], x) <=> x \in some /\ \E i \in 1..m : list[i] = x
                   /\ NoDoubles(list) => NoDoubles(g[m])
                   /\ 1 <= m /\ list[1] \in some => 1 <= Len(g[m]) /\ g[m][1] = list[1]
           T == {m \in Nat : m <= n => P(m)}
<1>4. 0 \in T
  <2>1. g[0] = <<>>
    BY <1>2 DEF Body
  <2>2. <<>> \in Seq(R) /\ Len(<<>>) = 0 /\ 1..0 = {} /\ ~(1 <= 0)
    OBVIOUS
  <2>3. P(0)
    BY <2>1, <2>2 DEF NoDoubles, Has
  <2> HIDE DEF P
  <2> QED BY <2>3
<1>5. ASSUME NEW m \in Nat, m \in T PROVE m + 1 \in T
  <2> HIDE DEF P
  <2> SUFFICES ASSUME m + 1 <= n PROVE P(m + 1)
    OBVIOUS
  <2>1. P(m) /\ m + 1 \in 1..n /\ m + 1 \in 0..n /\ (m + 1) - 1 = m /\ m + 1 # 0
    BY <1>5
  <2> USE DEF P
  <2> DEFINE a == list[m + 1]
  <2>2. g[m + 1] = IF a \in some THEN Append(g[m], a) ELSE g[m]
    <3>1. g[m + 1] = Body(list, some, g, m + 1)
      BY <1>2, <2>1
    <3> QED BY <2>1, <3>1 DEF Body
  <2>3. a \in R
    BY <1>3, <2>1
  <2>4. \A i : i \in 1..(m + 1) <=> i \in 1..m \/ i = m + 1
    OBVIOUS
  <2>5. CASE a \notin some
    <3>1. \A x : Has(g[m + 1], x) <=> x \in some /\ \E i \in 1..(m + 1) : list[i] = x
      BY <2>1, <2>2, <2>4, <2>5
    <3>2. 1 <= m + 1 /\ list[1] \in some => 1 <= m
      BY <2>5
    <3> QED BY <2>1, <2>2, <2>5, <3>1, <3>2
  <2>6. CASE a \in some
    <3> DEFINE l == Len(g[m])
    <3>1. l \in Nat /\ g[m] \in Seq(R)
      BY <2>1, LenProperties
    <3>2. /\ g[m + 1] = Append(g[m], a) /\ g[m + 1] \in Seq(R) /\ Len(g[m + 1]) = l + 1
          /\ g[m + 1][l + 1] = a /\ \A i \in 1..l : g[m + 1][i] = g[m][i]
      BY <2>2, <2>3, <2>6, <3>1, AppendProperties
    <3>3. \A i : i \in 1..(l + 1) <=> i \in 1..l \/ i = l + 1
      BY <3>1
    <3> HIDE DEF l
    <3>4. \A x : Has(g[m + 1], x) <=> Has(g[m], x) \/ x = a
      BY <3>2, <3>3 DEF Has, l
    <3>5. \A x : Has(g[m + 1], x) <=> x \in some /\ \E i \in 1..(m + 1) : list[i] = x
      BY <2>1, <2>4, <2>6, <3>4
    <3>6. ASSUME NoDoubles(list) PROVE NoDoubles(g[m + 1])
      <4>1. ~Has(g[m], a)
        <5>1. \A i \in 1..m : i \in 1..n /\ i # m + 1
          BY <2>1
        <5> QED BY <1>1, <2>1, <3>6, <5>1 DEF NoDoubles
      <4>2. \A i \in 1..l : g[m][i] # a
        BY <4>1 DEF Has, l
      <4>3. \A i, j \in 1..l : g[m][i] = g[m][j] => i = j
        BY <2>1, <3>6 DEF NoDoubles, l
      <4> QED BY <3>2, <3>3, <4>2, <4>3 DEF NoDoubles
    <3>7. ASSUME list[1] \in some PROVE 1 <= Len(g[m + 1]) /\ g[m + 1][1] = list[1]
      <4>1. CASE m = 0
        <5>1. g[m] = <<>>
          BY <1>2, <4>1 DEF Body
        <5>2. l = 0
          BY <5>1 DEF l
        <5> QED BY <3>2, <4>1, <5>2
      <4>2. CASE 1 <= m
        BY <2>1, <3>1, <3>2, <3>7, <4>2 DEF l
      <4> QED BY <4>1, <4>2
    <3> QED BY <3>2, <3>5, <3>6, <3>7
  <2> QED BY <2>5, <2>6
<1>6. n \in T
  <2> HIDE DEF T
  <2>1. T \in SUBSET Nat
    BY DEF T
  <2> QED BY <1>4, <1>5, <2>1, Inductive
<1>7. P(n)
  BY <1>6
<1> QED BY <1>1, <1>2, <1>7 DEF Has

(* The same of the set of what a list has.                                 *)
LEMMA ThoseIn ==
  ASSUME NEW R, NEW list \in Seq(R), NEW some
  PROVE  /\ Those(list, some) \in Seq(R)
         /\ ToSet(Those(list, some)) = ToSet(list) \cap some
         /\ NoDoubles(list) => NoDoubles(Those(list, some))
         /\ list # <<>> /\ Head(list) \in some => Those(list, some) # <<>> /\ Head(Those(list, some)) = Head(list)
<1>0. PICK q : q = Those(list, some)
  OBVIOUS
<1>1. /\ q \in Seq(R) /\ (NoDoubles(list) => NoDoubles(q))
      /\ \A x : Has(q, x) <=> x \in some /\ Has(list, x)
      /\ 1 <= Len(list) /\ list[1] \in some => 1 <= Len(q) /\ q[1] = list[1]
  <2>1. Those(list, some) \in Seq(R) /\ (NoDoubles(list) => NoDoubles(Those(list, some)))
    BY ThoseKeeps
  <2>2. \A x : Has(Those(list, some), x) <=> x \in some /\ Has(list, x)
    BY ThoseKeeps
  <2>3. 1 <= Len(list) /\ list[1] \in some => 1 <= Len(Those(list, some)) /\ Those(list, some)[1] = list[1]
    BY ThoseKeeps
  <2> QED BY <1>0, <2>1, <2>2, <2>3, Zenon
<1>2. DOMAIN q = 1..Len(q) /\ DOMAIN list = 1..Len(list) /\ Len(list) \in Nat /\ Len(q) \in Nat
  BY <1>1, LenProperties
<1>3. ToSet(q) = ToSet(list) \cap some
  BY <1>1, <1>2 DEF ToSet, Has
<1>4. ASSUME list # <<>>, Head(list) \in some PROVE q # <<>> /\ Head(q) = Head(list)
  <2>1. 1 <= Len(list) /\ Head(list) = list[1]
    BY <1>4
  <2>2. 1 <= Len(q) /\ q[1] = list[1]
    BY <1>1, <1>4, <2>1
  <2> QED BY <1>1, <2>1, <2>2
<1> QED BY <1>0, <1>1, <1>3, <1>4

(* As many as the list is long.                                            *)
LEMMA ManyAsLong ==
  ASSUME NEW R, NEW list \in Seq(R), NoDoubles(list)
  PROVE  IsFiniteSet(ToSet(list)) /\ Cardinality(ToSet(list)) = Len(list) /\ Len(list) \in Nat
<1>1. PICK n \in Nat : n = Len(list) /\ list \in [1..n -> R]
  BY LenProperties
<1>2. IsFiniteSet(1..n) /\ Cardinality(1..n) = n
  <2>1. 0 \in Int /\ 1 \in Int /\ n \in Int /\ IF 1 > n THEN 0 = n ELSE n - 1 + 1 = n
    OBVIOUS
  <2> QED BY <2>1, FS_Interval
<1>3. list \in Surjection(1..n, ToSet(list)) /\ list \in Injection(1..n, ToSet(list))
  BY <1>1 DEF Surjection, Injection, IsInjective, ToSet, NoDoubles
<1> QED BY <1>1, <1>2, <1>3, FS_Surjection

(* Appending.                                                              *)
LEMMA Longer ==
  ASSUME NEW R, NEW list \in Seq(R), NEW x \in R
  PROVE  /\ Append(list, x) \in Seq(R) /\ ToSet(Append(list, x)) = ToSet(list) \cup {x}
         /\ NoDoubles(list) /\ x \notin ToSet(list) => NoDoubles(Append(list, x))
         /\ Append(list, x) # <<>> /\ Head(Append(list, x)) = IF list = <<>> THEN x ELSE Head(list)
<1> DEFINE q == Append(list, x)
<1>1. PICK n \in Nat : n = Len(list) /\ DOMAIN list = 1..n
  BY LenProperties
<1>2. /\ q \in Seq(R) /\ Len(q) = n + 1 /\ DOMAIN q = 1..(n + 1) /\ q[n + 1] = x
      /\ \A i \in 1..n : q[i] = list[i]
  BY <1>1, AppendProperties
<1>3. \A i : i \in 1..(n + 1) <=> i \in 1..n \/ i = n + 1
  OBVIOUS
<1> HIDE DEF q
<1>4. ToSet(q) = ToSet(list) \cup {x}
  BY <1>1, <1>2, <1>3 DEF ToSet
<1>5. ASSUME NoDoubles(list), x \notin ToSet(list) PROVE NoDoubles(q)
  BY <1>1, <1>2, <1>3, <1>5 DEF NoDoubles, ToSet
<1>6. q # <<>> /\ Head(q) = q[1]
  BY <1>2
<1>7. ASSUME list = <<>> PROVE Head(q) = x
  <2>1. n = 0
    BY <1>1, <1>7
  <2> QED BY <1>2, <1>6, <2>1
<1>8. ASSUME list # <<>> PROVE Head(q) = Head(list)
  <2>1. 1 \in 1..n /\ Head(list) = list[1]
    BY <1>1, <1>8
  <2> QED BY <1>2, <1>6, <1>8, <2>1
<1> QED BY <1>2, <1>4, <1>5, <1>6, <1>7, <1>8 DEF q

(* Eviction takes sessions nobody leases, until the rest fit or all of it  *)
(* is leased.                                                              *)
LEMMA EvictedFit ==
  ASSUME NEW list \in Seq(Rooms), NoDoubles(list), NEW leased
  PROVE  /\ \A r \in Evicted(list, leased) : r \in ToSet(list) /\ leased[r] = 0
         /\ IsFiniteSet(ToSet(list) \ Evicted(list, leased))
         /\ Cardinality(ToSet(list) \ Evicted(list, leased)) > MaxSessions =>
              \A r \in ToSet(list) \ Evicted(list, leased) : leased[r] # 0
<1> DEFINE idle == Those(list, {s \in Rooms : leased[s] = 0})
           gone == Evicted(list, leased)
<1>0. MaxSessions \in Nat /\ IsFiniteSet(ToSet(list))
  BY MemoryAssumption, ManyAsLong
<1>1. PICK n \in Nat : n = Len(list) /\ Cardinality(ToSet(list)) = n
  BY ManyAsLong
<1>2. /\ idle \in Seq(Rooms) /\ NoDoubles(idle)
      /\ ToSet(idle) = {r \in ToSet(list) : leased[r] = 0}
  <2>1. \A r \in ToSet(list) : r \in Rooms
    BY LenProperties, ElementOfSeq DEF ToSet
  <2> QED BY <2>1, ThoseIn
<1>3. PICK m \in Nat : m = Len(idle) /\ DOMAIN idle = 1..m
  BY <1>2, LenProperties
<1>4. gone = {idle[i] : i \in {i \in 1..m : i <= n - MaxSessions}}
  BY <1>1, <1>3 DEF Evicted
<1> HIDE DEF idle, gone
<1>5. gone \subseteq ToSet(idle)
  BY <1>3, <1>4 DEF ToSet
<1>6. CASE m <= n - MaxSessions
  <2>1. \A i \in 1..m : i <= n - MaxSessions
    BY <1>0, <1>6
  <2>2. gone = ToSet(idle)
    BY <1>3, <1>4, <2>1 DEF ToSet
  <2> QED BY <1>0, <1>2, <2>2, FS_Difference DEF gone
<1>7. CASE n <= MaxSessions
  <2>1. \A i \in 1..m : ~(i <= n - MaxSessions)
    BY <1>0, <1>7
  <2>2. gone = {}
    BY <1>4, <2>1
  <2>3. ToSet(list) \ gone = ToSet(list)
    BY <2>2
  <2>4. ~(n > MaxSessions)
    BY <1>0, <1>7
  <2> QED BY <1>0, <1>1, <2>2, <2>3, <2>4 DEF gone
<1>8. CASE n > MaxSessions /\ n - MaxSessions < m
  <2> DEFINE f == [i \in 1..(n - MaxSessions) |-> idle[i]]
  <2>1. PICK d \in Nat : d = n - MaxSessions /\ d < m /\ n - d = MaxSessions
    BY <1>0, <1>8
  <2>2. {i \in 1..m : i <= d} = 1..d
    BY <2>1
  <2>3. gone = {idle[i] : i \in 1..d}
    BY <1>4, <2>1, <2>2
  <2>4. IsFiniteSet(1..d) /\ Cardinality(1..d) = d
    <3>1. 0 \in Int /\ 1 \in Int /\ d \in Int /\ IF 1 > d THEN 0 = d ELSE d - 1 + 1 = d
      OBVIOUS
    <3> QED BY <3>1, FS_Interval
  <2>5. \A i, j \in 1..d : idle[i] = idle[j] => i = j
    BY <1>2, <1>3, <2>2 DEF NoDoubles
  <2>6. f \in Surjection(1..d, gone) /\ f \in Injection(1..d, gone)
    BY <2>1, <2>3, <2>5 DEF Surjection, Injection, IsInjective
  <2> HIDE DEF f
  <2>7. IsFiniteSet(gone) /\ Cardinality(gone) = d
    BY <2>4, <2>6, FS_Surjection
  <2>8. ToSet(list) \cap gone = gone
    BY <1>2, <1>5
  <2>9. IsFiniteSet(ToSet(list) \ gone) /\ Cardinality(ToSet(list) \ gone) = MaxSessions
    <3>1. /\ IsFiniteSet(ToSet(list) \ gone)
          /\ Cardinality(ToSet(list) \ gone) = Cardinality(ToSet(list)) - Cardinality(ToSet(list) \cap gone)
      BY <1>0, FS_Difference
    <3> QED BY <1>1, <2>1, <2>7, <2>8, <3>1
  <2>10. ~(MaxSessions > MaxSessions)
    BY <1>0
  <2> QED BY <1>2, <1>5, <2>9, <2>10 DEF gone
<1>9. m <= n - MaxSessions \/ n <= MaxSessions \/ (n > MaxSessions /\ n - MaxSessions < m)
  BY <1>0
<1> QED BY <1>6, <1>7, <1>8, <1>9

-----------------------------------------------------------------------------
(* The sessions of a process                                               *)

(* What some records say of a request.                                     *)
Mark(some, k) ==
  LET found == {entry \in some : entry.key = k} IN
  IF found = {} THEN [status |-> "none", owner |-> 0]
  ELSE LET entry == CHOOSE entry \in found : TRUE IN [status |-> entry.status, owner |-> entry.owner]

(* What a session's records say before and after a step.                   *)
Before(s, k) == Mark(ToSet(data[s].entries), k)
After(s, k) == Mark(ToSet(data'[s].entries), k)

(* A request nobody heard of.                                              *)
Unknown == [status |-> "none", owner |-> 0]

(* Nothing is heard, or the request was over and is forgotten.             *)
Lapses(s, k) == After(s, k) = Before(s, k) \/ (Before(s, k).status \in {"completed", "failed"} /\ After(s, k) = Unknown)

(* That is what is told of them.                                           *)
LEMMA SaidIs ==
  \A s \in Rooms, k \in Ids :
    SaidOf(data[s].entries, k) = Before(s, k) /\ SaidOf(data'[s].entries, k) = After(s, k)
BY DEF SaidOf, Before, After, Mark, OfKey

(* It is a status and an owner.                                            *)
LEMMA MarkMade ==
  ASSUME NEW some, NEW k
  PROVE  \E was, owner : Mark(some, k) = [status |-> was, owner |-> owner]
BY DEF Mark

(* Requests that are over may be forgotten.                                *)
LEMMA RoomForgets ==
  ASSUME NEW s \in Rooms, data'[s].next = data[s].next, \A k \in Ids : Lapses(s, k)
  PROVE  Promised!RoomStep(s)
<1>1. Promised!Forget(s)
  BY SaidIs DEF Promised!Forget, Promised!Ended, Promised!Unheard, Lapses, Unknown
<1> QED BY <1>1 DEF Promised!RoomStep

(* So may all of a session.                                                *)
LEMMA RoomClears ==
  ASSUME NEW s \in Rooms, data'[s].next = 1, \A k \in Ids : After(s, k) = Unknown
  PROVE  Promised!RoomStep(s)
<1>1. Promised!Clear(s)
  BY SaidIs DEF Promised!Clear, Promised!NoneHeard, Promised!Unheard, Unknown
<1> QED BY <1>1 DEF Promised!RoomStep

(* A turn alone.                                                           *)
LEMMA RoomTells ==
  ASSUME NEW s \in Rooms, data[s].next \in Nat, data'[s].next = data[s].next + 1,
         \A k \in Ids : After(s, k) = Before(s, k)
  PROVE  Promised!RoomStep(s)
<1>1. data'[s].next - 1 = (data[s].next - 1) + 1
  OBVIOUS
<1>2. \A k \in Ids : SaidOf(data'[s].entries, k) = SaidOf(data[s].entries, k)
  BY SaidIs
<1>3. Promised!Tell(s)
  BY <1>1, <1>2 DEF Promised!Tell
<1> QED BY <1>3 DEF Promised!RoomStep

(* A claim.                                                                *)
LEMMA RoomClaims ==
  ASSUME NEW s \in Rooms, NEW k \in Ids, data'[s].next = data[s].next,
         Before(s, k).status = "completed" =>
           \E i \in DOMAIN data[s].entries : data[s].entries[i].key = k /\ data[s].entries[i].expires <= time,
         After(s, k).status = "in_progress", After(s, k).owner # Before(s, k).owner,
         \A other \in Ids \ {k} : Lapses(s, other)
  PROVE  Promised!RoomStep(s)
<1>1. Promised!OthersOf(s, k)
  BY SaidIs DEF Promised!OthersOf, Promised!Ended, Promised!Unheard, Lapses, Unknown
<1>2. Promised!Claim(s, k)
  BY <1>1, SaidIs DEF Promised!Claim
<1> QED BY <1>2 DEF Promised!RoomStep

(* An end, which a full session may forget at once.                        *)
LEMMA RoomEnds ==
  ASSUME NEW s \in Rooms, NEW k \in Ids, NEW status \in {"completed", "failed"},
         data[s].next \in Nat, data'[s].next = data[s].next + IF status = "completed" THEN 1 ELSE 0,
         Before(s, k).status = "in_progress",
         After(s, k) = Unknown \/ After(s, k) = [status |-> status, owner |-> Before(s, k).owner],
         \A other \in Ids \ {k} : Lapses(s, other)
  PROVE  Promised!RoomStep(s)
<1>1. After(s, k) \in {[Before(s, k) EXCEPT !.status = status], Unknown}
  <2>1. PICK was, owner : Before(s, k) = [status |-> was, owner |-> owner]
    <3>1. \E was, owner : Mark(ToSet(data[s].entries), k) = [status |-> was, owner |-> owner]
      BY MarkMade
    <3> QED BY <3>1, Zenon DEF Before
  <2> QED BY <2>1
<1>2. Promised!OthersOf(s, k)
  BY SaidIs DEF Promised!OthersOf, Promised!Ended, Promised!Unheard, Lapses, Unknown
<1>3. Promised!EndsAs(s, k, status)
  BY <1>1, <1>2, SaidIs DEF Promised!EndsAs, Promised!Unheard, Unknown
<1>4. CASE status = "completed"
  <2>1. data'[s].next - 1 = (data[s].next - 1) + 1
    BY <1>4
  <2> QED BY <1>3, <1>4, <2>1 DEF Promised!RoomStep, Promised!Complete
<1>5. CASE status = "failed"
  <2>1. data'[s].next = data[s].next
    BY <1>5
  <2> QED BY <1>3, <1>5, <2>1 DEF Promised!RoomStep, Promised!Fail
<1> QED BY <1>4, <1>5

(* A set of records has one for each request.                              *)
OneEach(some) == \A e, f \in some : e.key = f.key => e = f

(* What is said of a request is what its record says.                      *)
LEMMA MarkIs ==
  ASSUME NEW some, NEW k
  PROVE  /\ (\A e \in some : e.key # k) => Mark(some, k) = Unknown
         /\ \A e \in some : OneEach(some) /\ e.key = k => Mark(some, k) = [status |-> e.status, owner |-> e.owner]
<1>1. ASSUME \A e \in some : e.key # k PROVE Mark(some, k) = Unknown
  <2>1. {entry \in some : entry.key = k} = {}
    BY <1>1
  <2> QED BY <2>1 DEF Mark, Unknown
<1>2. ASSUME NEW e \in some, OneEach(some), e.key = k
      PROVE  Mark(some, k) = [status |-> e.status, owner |-> e.owner]
  <2>1. {entry \in some : entry.key = k} = {e}
    BY <1>2 DEF OneEach
  <2>2. {e} # {} /\ (CHOOSE entry \in {e} : TRUE) = e
    OBVIOUS
  <2> QED BY <2>1, <2>2 DEF Mark
<1> QED BY <1>1, <1>2

(* A request lapses whose record stayed as it was, or was over and went.   *)
LEMMA LapsesIf ==
  ASSUME NEW s \in Rooms, NEW k \in Ids,
         OneEach(ToSet(data[s].entries)), OneEach(ToSet(data'[s].entries)),
         \A e \in ToSet(data'[s].entries) : e.key = k => e \in ToSet(data[s].entries),
         \A e \in ToSet(data[s].entries) : e.key = k => e \in ToSet(data'[s].entries) \/ Closed(e)
  PROVE  Lapses(s, k)
<1>1. PICK E : E = ToSet(data[s].entries)
  OBVIOUS
<1>2. PICK F : F = ToSet(data'[s].entries)
  OBVIOUS
<1>3. CASE \E e \in F : e.key = k
  <2>1. PICK e \in F : e.key = k
    BY <1>3
  <2>2. e \in E
    BY <1>1, <1>2, <2>1
  <2>3. Mark(E, k) = Mark(F, k)
    BY <1>1, <1>2, <2>1, <2>2, MarkIs
  <2> QED BY <1>1, <1>2, <2>3 DEF Lapses, Before, After
<1>4. CASE (\A e \in F : e.key # k) /\ \E e \in E : e.key = k
  <2>1. PICK e \in E : e.key = k
    BY <1>4
  <2>2. Closed(e)
    BY <1>1, <1>2, <1>4, <2>1
  <2>3. Mark(E, k).status = e.status
    BY <1>1, <2>1, MarkIs
  <2>4. Mark(F, k) = Unknown
    BY <1>4, MarkIs
  <2> QED BY <1>1, <1>2, <2>2, <2>3, <2>4 DEF Lapses, Before, After, Closed
<1>5. CASE (\A e \in F : e.key # k) /\ (\A e \in E : e.key # k)
  BY <1>1, <1>2, <1>5, MarkIs DEF Lapses, Before, After
<1> QED BY <1>3, <1>4, <1>5

(* A session that stays, or goes as a whole, keeps the promise.            *)
LEMMA RoomRests ==
  ASSUME NEW s \in Rooms, data'[s] \in {data[s], NewSession}
  PROVE  Promised!RoomStep(s)
<1>1. CASE data'[s] = data[s]
  BY <1>1, RoomForgets DEF Lapses, Before, After
<1>2. CASE data'[s] = NewSession
  <2>1. data'[s].next = 1 /\ ToSet(data'[s].entries) = {}
    BY <1>2 DEF NewSession, ToSet
  <2>2. \A k \in Ids : After(s, k) = Unknown
    BY <2>1, MarkIs DEF After
  <2> QED BY <2>1, <2>2, RoomClears
<1> QED BY <1>1, <1>2

-----------------------------------------------------------------------------
(* What the variables of a process range over                              *)

(* A record of a session, and what a session keeps.                        *)
Entry == [key : Ids, status : {"in_progress", "completed", "failed"}, owner : Nat, expires : Nat]
Session == [next : Nat, entries : Seq(Entry)]

(* A session whose owners were drawn, with one record for each request.    *)
Fits(kept, many) ==
  /\ kept \in Session /\ OneEach(ToSet(kept.entries))
  /\ \A e \in ToSet(kept.entries) : e.owner <= many

TaskType == {NotIn} \cup
  [at : {"waiting", "in"}, session : Rooms, lock : 1..MaxLocks, claim : {<<>>} \cup (Ids \X Nat)]

MemoryTypes ==
  /\ order \in Seq(Rooms) /\ NoDoubles(order) /\ data \in [Rooms -> Session]
  /\ locks \in [Rooms -> 0..MaxLocks] /\ leases \in [Rooms -> Nat]
  /\ waiters \in [1..MaxLocks -> Seq(Tasks)] /\ holders \in [Rooms -> Tasks \cup {Nobody}]
  /\ counters \in [Rooms -> Nat] /\ tasks \in [Tasks -> TaskType]
  /\ drawn \in Nat /\ time \in Nat

RecordsFit == \A s \in Rooms : Fits(data[s], drawn)

(* A lock's queue is of those who wait for it or hold it, and the holder is *)
(* its head.                                                               *)
QueuesFit ==
  /\ \A l \in 1..MaxLocks, t \in Tasks :
       t \in ToSet(waiters[l]) <=> tasks[t].at # "out" /\ tasks[t].lock = l
  /\ \A t \in Tasks : tasks[t].at = "in" => Head(waiters[tasks[t].lock]) = t

(* Leases count those in a session, who go by its lock; its holder is the  *)
(* one inside.                                                             *)
LeasesFit ==
  \A s \in Rooms :
    /\ IsFiniteSet(Busy(s)) /\ leases[s] = Cardinality(Busy(s))
    /\ \A t \in Busy(s) : locks[s] = tasks[t].lock
    /\ \A t \in Tasks : InSession(t, s) => holders[s] = t

(* The inductive invariant of the sessions of a process.                   *)
MemoryInv == MemoryTypes /\ RecordsFit /\ QueuesFit /\ LeasesFit /\ NothingIsHoarded

(* It holds at first.                                                      *)
LEMMA MemoryInitially == MemoryInit => MemoryInv
<1> SUFFICES ASSUME MemoryInit PROVE MemoryInv
  OBVIOUS
<1>1. <<>> \in Seq(Rooms) /\ <<>> \in Seq(Entry) /\ <<>> \in Seq(Tasks) /\ NoDoubles(<<>>) /\ ToSet(<<>>) = {} /\ Len(<<>>) = 0
  BY DEF NoDoubles, ToSet
<1>2. MaxLocks \in Nat /\ MaxSessions \in Nat /\ ~(0 > MaxSessions) /\ 0 \in 0..MaxLocks /\ Nobody \in {Nobody}
  BY MemoryAssumption
<1>3. NewSession \in Session /\ Fits(NewSession, 0) /\ NotIn \in TaskType /\ NotIn.at = "out"
  BY <1>1 DEF NewSession, Session, Fits, OneEach, NotIn, TaskType
<1>4. MemoryTypes
  BY <1>1, <1>2, <1>3 DEF MemoryInit, MemoryTypes
<1>5. RecordsFit
  BY <1>3 DEF MemoryInit, RecordsFit
<1>6. QueuesFit
  BY <1>1, <1>3 DEF MemoryInit, QueuesFit
<1>7. LeasesFit
  <2>1. \A s \in Rooms : Busy(s) = {}
    BY <1>3 DEF MemoryInit, Busy
  <2>2. \A s \in Rooms, t \in Tasks : ~InSession(t, s)
    BY <1>3 DEF MemoryInit, InSession
  <2> QED BY <2>1, <2>2, FS_EmptySet DEF MemoryInit, LeasesFit
<1>8. NothingIsHoarded
  BY <1>1, <1>2 DEF MemoryInit, NothingIsHoarded
<1> QED BY <1>4, <1>5, <1>6, <1>7, <1>8 DEF MemoryInv

(* One task is in a session at most, whatever waits with it.               *)
LEMMA OneIn ==
  ASSUME MemoryInv, NEW s \in Rooms
  PROVE  /\ \A t, u \in Tasks : InSession(t, s) /\ InSession(u, s) => t = u
         /\ Cardinality({t \in Tasks : InSession(t, s)}) <= 1
<1>1. \A t, u \in Tasks : InSession(t, s) /\ InSession(u, s) => t = u
  BY DEF MemoryInv, LeasesFit
<1>2. CASE \E t \in Tasks : InSession(t, s)
  <2>1. PICK t \in Tasks : InSession(t, s)
    BY <1>2
  <2>2. {u \in Tasks : InSession(u, s)} = {t}
    BY <1>1, <2>1
  <2> QED BY <1>1, <2>2, FS_Singleton
<1>3. CASE ~\E t \in Tasks : InSession(t, s)
  <2>1. {u \in Tasks : InSession(u, s)} = {}
    BY <1>3
  <2> QED BY <1>1, <2>1, FS_EmptySet
<1> QED BY <1>2, <1>3

(* So the invariant says what is checked.                                  *)
LEMMA MemorySafe == MemoryInv => OneInside /\ NothingIsHoarded
BY OneIn DEF MemoryInv, LeasesFit, OneInside

-----------------------------------------------------------------------------
(* The steps that store, clear and read                                    *)

(* Lists of rooms after what is done to them.                              *)
LEMMA RoomsLeft ==
  ASSUME NEW list \in Seq(Rooms), NoDoubles(list)
  PROVE  /\ ToSet(list) \subseteq Rooms
         /\ \A gone : /\ Keep(list, gone) \in Seq(Rooms) /\ NoDoubles(Keep(list, gone))
                      /\ ToSet(Keep(list, gone)) = ToSet(list) \ gone
         /\ \A s \in Rooms : /\ Touched(list, s) \in Seq(Rooms) /\ NoDoubles(Touched(list, s))
                             /\ ToSet(Touched(list, s)) = ToSet(list) \cup {s}
<1>1. ToSet(list) \subseteq Rooms
  BY LenProperties, ElementOfSeq DEF ToSet
<1>2. ASSUME NEW gone
      PROVE  /\ Keep(list, gone) \in Seq(Rooms) /\ NoDoubles(Keep(list, gone))
             /\ ToSet(Keep(list, gone)) = ToSet(list) \ gone
  BY <1>1, ThoseIn DEF Keep
<1>3. ASSUME NEW s \in Rooms
      PROVE  /\ Touched(list, s) \in Seq(Rooms) /\ NoDoubles(Touched(list, s))
             /\ ToSet(Touched(list, s)) = ToSet(list) \cup {s}
  <2>1. PICK rest \in Seq(Rooms) : rest = Keep(list, {s}) /\ NoDoubles(rest) /\ ToSet(rest) = ToSet(list) \ {s}
    BY <1>2
  <2>2. Touched(list, s) = Append(rest, s)
    BY <2>1 DEF Touched, Keep
  <2>3. s \notin ToSet(rest) /\ ToSet(list) \cup {s} = ToSet(rest) \cup {s}
    BY <2>1
  <2>4. Append(rest, s) \in Seq(Rooms) /\ ToSet(Append(rest, s)) = ToSet(rest) \cup {s}
    BY Longer
  <2>5. NoDoubles(Append(rest, s))
    BY <2>1, <2>3, Longer
  <2> QED BY <2>1, <2>2, <2>3, <2>4, <2>5
<1> QED BY <1>1, <1>2, <1>3

(* What the members of a list of records are.                              *)
LEMMA EntriesAre ==
  ASSUME NEW kept \in Session
  PROVE  kept.entries \in Seq(Entry) /\ kept.next \in Nat /\ ToSet(kept.entries) \subseteq Entry
BY LenProperties, ElementOfSeq DEF Session, ToSet

(* A list without doubles is no longer than one that has all it has.       *)
LEMMA NoLonger ==
  ASSUME NEW list \in Seq(Rooms), NoDoubles(list), NEW other \in Seq(Rooms), NoDoubles(other),
         ToSet(list) \subseteq ToSet(other)
  PROVE  Len(list) \in Nat /\ Len(other) \in Nat /\ Len(list) <= Len(other)
<1>1. /\ IsFiniteSet(ToSet(other)) /\ Cardinality(ToSet(other)) = Len(other) /\ Len(other) \in Nat
      /\ Cardinality(ToSet(list)) = Len(list) /\ Len(list) \in Nat
  BY ManyAsLong
<1>2. Cardinality(ToSet(list)) <= Cardinality(ToSet(other))
  BY <1>1, FS_Subset
<1> QED BY <1>1, <1>2

(* The tasks are where they were.                                          *)
SameTasks ==
  \A t \in Tasks :
    /\ tasks'[t].at = tasks[t].at
    /\ tasks[t].at # "out" => tasks'[t].session = tasks[t].session /\ tasks'[t].lock = tasks[t].lock

(* A session somebody is in is leased.                                     *)
LEMMA BusyLeased ==
  ASSUME MemoryInv, NEW s \in Rooms
  PROVE  /\ leases[s] \in Nat /\ (leases[s] = 0 <=> Busy(s) = {}) /\ (leases[s] > 0 <=> Busy(s) # {})
         /\ \A t \in Tasks : InSession(t, s) => t \in Busy(s)
<1>1. IsFiniteSet(Busy(s)) /\ leases[s] = Cardinality(Busy(s)) /\ leases[s] \in Nat
  BY DEF MemoryInv, LeasesFit, MemoryTypes
<1>2. leases[s] = 0 <=> Busy(s) = {}
  BY <1>1, FS_EmptySet
<1>3. \A n \in Nat : n > 0 <=> n # 0
  OBVIOUS
<1>4. \A t \in Tasks : InSession(t, s) => t \in Busy(s)
  BY DEF InSession, Busy
<1> QED BY <1>1, <1>2, <1>3, <1>4

(* Queues and leases after a step that leaves tasks where they are and     *)
(* takes locks of nobody.                                                  *)
LEMMA QuietLeases ==
  ASSUME MemoryInv, SameTasks, UNCHANGED <<leases, holders, waiters>>,
         \A r \in Rooms : locks'[r] = locks[r] \/ leases[r] = 0
  PROVE  QueuesFit' /\ LeasesFit'
<1>1. QueuesFit /\ LeasesFit
  BY DEF MemoryInv
<1>2. QueuesFit'
  <2>1. ASSUME NEW l \in 1..MaxLocks, NEW t \in Tasks
        PROVE  t \in ToSet(waiters'[l]) <=> tasks'[t].at # "out" /\ tasks'[t].lock = l
    BY <1>1 DEF QueuesFit, SameTasks
  <2>2. ASSUME NEW t \in Tasks, tasks'[t].at = "in" PROVE Head(waiters'[tasks'[t].lock]) = t
    BY <1>1, <2>2 DEF QueuesFit, SameTasks
  <2> QED BY <2>1, <2>2 DEF QueuesFit
<1>3. ASSUME NEW s \in Rooms
      PROVE  /\ Busy(s)' = Busy(s)
             /\ \A t \in Tasks : InSession(t, s)' <=> InSession(t, s)
  BY DEF Busy, InSession, SameTasks
<1>4. LeasesFit'
  <2>1. ASSUME NEW s \in Rooms, NEW t \in Busy(s) PROVE locks'[s] = tasks'[t].lock
    <3>1. t \in Tasks /\ tasks[t].at # "out" /\ locks[s] = tasks[t].lock
      BY <1>1, <2>1 DEF LeasesFit, Busy
    <3>2. leases[s] # 0
      BY <2>1, BusyLeased
    <3> QED BY <3>1, <3>2 DEF SameTasks
  <2> QED BY <1>1, <1>3, <2>1 DEF LeasesFit
<1> QED BY <1>2, <1>4

(* A value is stored of a session somebody is in: others may go, of whom   *)
(* nobody is in one.                                                       *)
LEMMA StoreKeeps ==
  ASSUME MemoryInv, NEW s \in Rooms, leases[s] > 0, NEW value, Store(s, value),
         drawn' \in Nat, drawn <= drawn', time' \in Nat, Fits(value, drawn'),
         SameTasks, tasks' \in [Tasks -> TaskType], UNCHANGED <<leases, holders, waiters, counters>>
  PROVE  /\ MemoryInv' /\ LeasedStays
         /\ data'[s] = value /\ \A r \in Rooms \ {s} : data'[r] \in {data[r], NewSession}
<1>1. MemoryTypes /\ RecordsFit /\ NothingIsHoarded
  BY DEF MemoryInv
<1>2. order \in Seq(Rooms) /\ NoDoubles(order) /\ 0 \in 0..MaxLocks /\ MaxSessions \in Nat
  BY <1>1, MemoryAssumption DEF MemoryTypes
<1> DEFINE list == IF Known(s) THEN order ELSE Append(order, s)
<1>3. list \in Seq(Rooms) /\ NoDoubles(list) /\ ToSet(list) = ToSet(order) \cup {s}
  BY <1>2, Longer DEF Known
<1>4. PICK gone : /\ gone = IF Known(s) THEN {} ELSE Evicted(Append(order, s), leases)
                  /\ order' = Touched(Keep(order, gone), s)
                  /\ data' = [Emptied(gone) EXCEPT ![s] = value]
                  /\ locks' = LocksWithout(locks, gone)
  BY DEF Store
<1>5. \A r \in gone : r \in ToSet(list) /\ leases[r] = 0
  BY <1>2, <1>3, <1>4, EvictedFit
<1>6. s \notin gone
  BY <1>5
<1>7. order' \in Seq(Rooms) /\ NoDoubles(order') /\ ToSet(order') = ToSet(list) \ gone
  <2>1. PICK kept \in Seq(Rooms) : kept = Keep(order, gone) /\ NoDoubles(kept) /\ ToSet(kept) = ToSet(order) \ gone
    BY <1>2, RoomsLeft
  <2>2. order' = Touched(kept, s)
    BY <1>4, <2>1
  <2>3. order' \in Seq(Rooms) /\ NoDoubles(order') /\ ToSet(order') = ToSet(kept) \cup {s}
    BY <2>1, <2>2, RoomsLeft
  <2> QED BY <1>3, <1>6, <2>1, <2>3
<1>8. data'[s] = value /\ \A r \in Rooms \ {s} : data'[r] = IF r \in gone THEN NewSession ELSE data[r]
  BY <1>4 DEF Emptied
<1>9. \A r \in Rooms : locks'[r] = IF r \in gone THEN 0 ELSE locks[r]
  BY <1>4 DEF LocksWithout
<1>10. NewSession \in Session /\ Fits(NewSession, drawn')
  BY DEF NewSession, Session, Fits, OneEach, ToSet
<1>11. \A r \in Rooms : Fits(data'[r], drawn')
  <2>1. ASSUME NEW r \in Rooms PROVE Fits(data[r], drawn')
    <3>1. Fits(data[r], drawn) /\ drawn \in Nat
      BY <1>1 DEF RecordsFit, MemoryTypes
    <3>2. \A e \in ToSet(data[r].entries) : e.owner \in Nat
      BY <3>1, EntriesAre DEF Fits, Entry
    <3>3. \A a \in Nat : a <= drawn => a <= drawn'
      BY <3>1
    <3> QED BY <3>1, <3>2, <3>3 DEF Fits
  <2> QED BY <1>8, <1>10, <2>1
<1>12. MemoryTypes'
  <2>1. data' \in [Rooms -> Session]
    <3>1. DOMAIN data' = Rooms /\ data' = [r \in DOMAIN data' |-> data'[r]]
      BY <1>4 DEF Emptied
    <3> QED BY <1>11, <3>1 DEF Fits
  <2>2. locks' \in [Rooms -> 0..MaxLocks]
    BY <1>1, <1>2, <1>4 DEF LocksWithout, MemoryTypes
  <2> QED BY <1>1, <1>7, <2>1, <2>2 DEF MemoryTypes
<1>13. QueuesFit' /\ LeasesFit'
  BY <1>5, <1>9, QuietLeases
<1>14. NothingIsHoarded'
  <2>1. ASSUME Len(order') > MaxSessions PROVE \A r \in ToSet(order') : leases[r] > 0
    <3>1. CASE Known(s)
      <4>1. gone = {} /\ ToSet(order') = ToSet(order)
        BY <1>3, <1>4, <1>7, <3>1 DEF Known
      <4>2. Len(order) \in Nat /\ Len(order') \in Nat /\ Len(order') <= Len(order)
        BY <1>2, <1>7, <4>1, NoLonger
      <4>3. \A a, b, m \in Nat : a > m /\ a <= b => b > m
        OBVIOUS
      <4>4. Len(order) > MaxSessions
        BY <1>2, <2>1, <4>2, <4>3
      <4> QED BY <1>1, <4>1, <4>4 DEF NothingIsHoarded
    <3>2. CASE ~Known(s)
      <4>1. gone = Evicted(list, leases)
        BY <1>4, <3>2
      <4>2. Cardinality(ToSet(list) \ gone) = Len(order')
        BY <1>7, ManyAsLong
      <4>3. \A r \in ToSet(list) \ gone : leases[r] # 0
        BY <1>3, <2>1, <4>1, <4>2, EvictedFit
      <4>4. ToSet(list) \subseteq Rooms
        BY <1>3, RoomsLeft
      <4> QED BY <1>7, <4>3, <4>4, BusyLeased
    <3> QED BY <3>1, <3>2
  <2>2. ASSUME NEW r \in Rooms, locks'[r] # 0 PROVE leases[r] > 0 \/ r \in ToSet(order')
    <3>1. r \notin gone /\ locks[r] # 0
      BY <1>9, <2>2
    <3>2. leases[r] > 0 \/ r \in ToSet(order)
      BY <1>1, <3>1 DEF NothingIsHoarded, Known
    <3> QED BY <1>3, <1>7, <3>1, <3>2
  <2> QED BY <2>1, <2>2 DEF NothingIsHoarded, Known
<1>15. LeasedStays
  <2>1. ASSUME NEW r \in Rooms, leases[r] > 0, Known(r) PROVE r \in ToSet(order')
    BY <1>3, <1>5, <1>7, <2>1 DEF Known
  <2>2. ASSUME NEW r \in Rooms PROVE counters'[r] >= counters[r]
    BY <1>1 DEF MemoryTypes
  <2> QED BY <2>1, <2>2 DEF LeasedStays
<1>16. RecordsFit'
  BY <1>11 DEF RecordsFit
<1> QED BY <1>8, <1>12, <1>13, <1>14, <1>15, <1>16 DEF MemoryInv

(* A value is put in place of a session's, and nothing else moves.          *)
LEMMA OverwriteKeeps ==
  ASSUME MemoryInv, NEW s \in Rooms, NEW value, data' = [data EXCEPT ![s] = value], Fits(value, drawn),
         SameTasks, tasks' \in [Tasks -> TaskType],
         UNCHANGED <<order, locks, leases, waiters, holders, counters, drawn, time>>
  PROVE  /\ MemoryInv' /\ LeasedStays
         /\ data'[s] = value /\ \A r \in Rooms \ {s} : data'[r] \in {data[r], NewSession}
<1>1. MemoryTypes /\ RecordsFit /\ NothingIsHoarded
  BY DEF MemoryInv
<1>2. data'[s] = value /\ \A r \in Rooms \ {s} : data'[r] = data[r]
  BY <1>1 DEF MemoryTypes
<1>3. MemoryTypes'
  BY <1>1 DEF MemoryTypes, Fits
<1>4. RecordsFit'
  BY <1>1, <1>2 DEF RecordsFit
<1>5. QueuesFit' /\ LeasesFit'
  BY QuietLeases
<1>6. NothingIsHoarded'
  BY <1>1 DEF NothingIsHoarded, Known
<1>7. LeasedStays
  <2>1. \A r \in Rooms : counters'[r] >= counters[r]
    BY <1>1 DEF MemoryTypes
  <2> QED BY <2>1 DEF LeasedStays, Known
<1> QED BY <1>2, <1>3, <1>4, <1>5, <1>6, <1>7 DEF MemoryInv

(* What the steps of a process promise.                                    *)
MemoryPromise == Promised!ContractNext /\ LeasedStays

(* Every session but one rests, and that one keeps the promise.            *)
LEMMA OneKeepsPromise ==
  ASSUME NEW s \in Rooms, \A r \in Rooms \ {s} : data'[r] \in {data[r], NewSession}, Promised!RoomStep(s)
  PROVE  Promised!ContractNext
BY RoomRests DEF Promised!ContractNext

(* Whoever is in a session with a value of its own leases it.              *)
LEMMA InsideLeases ==
  ASSUME MemoryInv, NEW t \in Tasks, NEW s \in Rooms, InSession(t, s)
  PROVE  leases[s] > 0 /\ tasks[t] \in TaskType /\ tasks[t].at = "in" /\ data[s] \in Session /\ Fits(data[s], drawn)
<1>1. leases[s] > 0
  BY BusyLeased
<1> QED BY <1>1 DEF MemoryInv, MemoryTypes, RecordsFit, InSession, Fits

(* A turn appended.                                                        *)
LEMMA AppendKeeps ==
  ASSUME MemoryInv, NEW t \in Tasks, NEW s \in Rooms, AppendOf(t, s)
  PROVE  MemoryInv' /\ MemoryPromise
<1> DEFINE value == [data[s] EXCEPT !.next = @ + 1]
<1>1. leases[s] > 0 /\ data[s] \in Session /\ Fits(data[s], drawn)
  BY InsideLeases DEF AppendOf
<1>2. value \in Session /\ value.entries = data[s].entries /\ value.next = data[s].next + 1 /\ data[s].next \in Nat
  BY <1>1 DEF Session
<1>3. Store(s, value) /\ UNCHANGED <<leases, waiters, holders, counters, tasks, drawn, time>>
  BY DEF AppendOf
<1> HIDE DEF value
<1>4. Fits(value, drawn')
  BY <1>1, <1>2, <1>3 DEF Fits
<1>5. drawn' \in Nat /\ drawn <= drawn' /\ time' \in Nat /\ SameTasks /\ tasks' \in [Tasks -> TaskType]
  BY <1>3 DEF MemoryInv, MemoryTypes, SameTasks
<1>6. MemoryInv' /\ LeasedStays /\ data'[s] = value /\ \A r \in Rooms \ {s} : data'[r] \in {data[r], NewSession}
  BY <1>1, <1>3, <1>4, <1>5, StoreKeeps
<1>7. Promised!RoomStep(s)
  BY <1>2, <1>6, RoomTells DEF After, Before
<1> QED BY <1>6, <1>7, OneKeepsPromise DEF MemoryPromise

(* The dialogue kept.                                                      *)
LEMMA DialogueKeeps ==
  ASSUME MemoryInv, NEW t \in Tasks, NEW s \in Rooms, CacheDialogueOf(t, s)
  PROVE  MemoryInv' /\ MemoryPromise
<1>1. leases[s] > 0 /\ Fits(data[s], drawn)
  BY InsideLeases DEF CacheDialogueOf
<1>2. Store(s, data[s]) /\ UNCHANGED <<leases, waiters, holders, counters, tasks, drawn, time>>
  BY DEF CacheDialogueOf
<1>3. drawn' \in Nat /\ drawn <= drawn' /\ time' \in Nat /\ SameTasks /\ tasks' \in [Tasks -> TaskType] /\ drawn' = drawn
  BY <1>2 DEF MemoryInv, MemoryTypes, SameTasks
<1>4. MemoryInv' /\ LeasedStays /\ data'[s] = data[s] /\ \A r \in Rooms \ {s} : data'[r] \in {data[r], NewSession}
  BY <1>1, <1>2, <1>3, StoreKeeps
<1>5. Promised!RoomStep(s)
  BY <1>4, RoomRests
<1> QED BY <1>4, <1>5, OneKeepsPromise DEF MemoryPromise

(* The session cleared by its holder.                                      *)
LEMMA ClearedKeeps ==
  ASSUME MemoryInv, NEW t \in Tasks, NEW s \in Rooms, ClearOf(t, s)
  PROVE  MemoryInv' /\ MemoryPromise
<1>1. MemoryTypes /\ RecordsFit /\ NothingIsHoarded /\ leases[s] > 0
  BY InsideLeases DEF ClearOf, MemoryInv
<1>2. /\ order' = Keep(order, {s}) /\ data' = Emptied({s})
      /\ UNCHANGED <<locks, leases, waiters, holders, counters, tasks, drawn, time>>
  BY DEF ClearOf, Keep
<1>3. order' \in Seq(Rooms) /\ NoDoubles(order') /\ ToSet(order') = ToSet(order) \ {s}
  BY <1>1, <1>2, RoomsLeft DEF MemoryTypes
<1>4. data' \in [Rooms -> Session] /\ \A r \in Rooms : data'[r] = IF r = s THEN NewSession ELSE data[r]
  <2>1. NewSession \in Session
    BY DEF NewSession, Session
  <2> QED BY <1>1, <1>2, <2>1 DEF Emptied, MemoryTypes
<1>5. MemoryTypes'
  BY <1>1, <1>2, <1>3, <1>4 DEF MemoryTypes
<1>6. RecordsFit'
  <2>1. Fits(NewSession, drawn)
    BY DEF NewSession, Session, Fits, OneEach, ToSet
  <2> QED BY <1>1, <1>2, <1>4, <2>1 DEF RecordsFit
<1>7. QueuesFit' /\ LeasesFit'
  BY <1>2, QuietLeases DEF SameTasks
<1>8. NothingIsHoarded'
  <2>1. ASSUME Len(order') > MaxSessions PROVE \A r \in ToSet(order') : leases'[r] > 0
    <3>1. Len(order) \in Nat /\ Len(order') \in Nat /\ Len(order') <= Len(order) /\ MaxSessions \in Nat
      BY <1>1, <1>3, NoLonger, MemoryAssumption DEF MemoryTypes
    <3>2. \A a, b, m \in Nat : a > m /\ a <= b => b > m
      OBVIOUS
    <3>3. Len(order) > MaxSessions
      BY <2>1, <3>1, <3>2
    <3> QED BY <1>1, <1>2, <1>3, <3>3 DEF NothingIsHoarded
  <2>2. ASSUME NEW r \in Rooms, locks'[r] # 0 PROVE leases'[r] > 0 \/ r \in ToSet(order')
    BY <1>1, <1>2, <1>3, <2>2 DEF NothingIsHoarded, Known
  <2> QED BY <2>1, <2>2 DEF NothingIsHoarded, Known
<1>9. LeasedStays
  <2>1. ASSUME NEW r \in Rooms, Known(r), r \notin ToSet(order') PROVE r = s
    BY <1>3, <2>1 DEF Known
  <2>2. ASSUME NEW r \in Rooms PROVE counters'[r] >= counters[r]
    BY <1>1, <1>2 DEF MemoryTypes
  <2>3. \A r \in Rooms : leases[r] > 0 /\ leases'[r] > 0 =>
          /\ Known(r) /\ r \notin ToSet(order') => \E u \in Tasks : ClearOf(u, r)
          /\ counters'[r] >= counters[r]
    BY <2>1, <2>2
  <2> QED BY <2>3 DEF LeasedStays
<1>10. Promised!ContractNext
  BY <1>4, RoomRests DEF Promised!ContractNext
<1> QED BY <1>5, <1>6, <1>7, <1>8, <1>9, <1>10 DEF MemoryInv, MemoryPromise

(* A read moves a session in the order, and time passes.                   *)
LEMMA ReadKeeps ==
  ASSUME MemoryInv, MemoryTick \/ \E s \in Rooms : ReadTurns(s)
  PROVE  MemoryInv' /\ MemoryPromise
<1>1. MemoryTypes /\ RecordsFit /\ NothingIsHoarded
  BY DEF MemoryInv
<1>2. UNCHANGED <<data, locks, leases, waiters, holders, counters, tasks, drawn>> /\ time' \in Nat
  BY <1>1 DEF MemoryTick, ReadTurns, MemoryTypes
<1>3. order' \in Seq(Rooms) /\ NoDoubles(order') /\ ToSet(order') = ToSet(order)
  <2>1. CASE MemoryTick
    BY <1>1, <2>1 DEF MemoryTick, MemoryTypes
  <2>2. ASSUME NEW s \in Rooms, ReadTurns(s)
        PROVE  order' \in Seq(Rooms) /\ NoDoubles(order') /\ ToSet(order') = ToSet(order)
    <3>1. order \in Seq(Rooms) /\ NoDoubles(order) /\ s \in ToSet(order) /\ order' = Touched(order, s)
      BY <1>1, <2>2 DEF ReadTurns, Known, MemoryTypes
    <3>2. order' \in Seq(Rooms) /\ NoDoubles(order') /\ ToSet(order') = ToSet(order) \cup {s}
      BY <3>1, RoomsLeft
    <3> QED BY <3>1, <3>2
  <2> QED BY <2>1, <2>2
<1>4. MemoryTypes' /\ RecordsFit'
  BY <1>1, <1>2, <1>3 DEF MemoryTypes, RecordsFit
<1>5. QueuesFit' /\ LeasesFit'
  BY <1>2, QuietLeases DEF SameTasks
<1>6. NothingIsHoarded'
  <2>1. ASSUME Len(order') > MaxSessions PROVE \A r \in ToSet(order') : leases'[r] > 0
    <3>1. Len(order) \in Nat /\ Len(order') \in Nat /\ Len(order') <= Len(order) /\ MaxSessions \in Nat
      BY <1>1, <1>3, NoLonger, MemoryAssumption DEF MemoryTypes
    <3>2. \A a, b, m \in Nat : a > m /\ a <= b => b > m
      OBVIOUS
    <3>3. Len(order) > MaxSessions
      BY <2>1, <3>1, <3>2
    <3> QED BY <1>1, <1>2, <1>3, <3>3 DEF NothingIsHoarded
  <2> QED BY <1>1, <1>2, <1>3, <2>1 DEF NothingIsHoarded, Known
<1>7. LeasedStays
  <2>1. ASSUME NEW r \in Rooms PROVE counters'[r] >= counters[r]
    BY <1>1, <1>2 DEF MemoryTypes
  <2> QED BY <1>3, <2>1 DEF LeasedStays, Known
<1>8. Promised!ContractNext
  BY <1>2, RoomRests DEF Promised!ContractNext
<1> QED BY <1>4, <1>5, <1>6, <1>7, <1>8 DEF MemoryInv, MemoryPromise

-----------------------------------------------------------------------------
(* The steps that begin and end requests                                   *)

(* A record put in place of its request's: what ended may make room.       *)
LEMMA WrittenOnes ==
  ASSUME NEW entries \in Seq(Entry), NEW entry \in Entry
  PROVE  LET put == Append(ButKey(entries, entry.key), entry)
             others == ToSet(entries) \ OfKey(entries, entry.key) IN
         /\ put \in Seq(Entry) /\ ToSet(put) = others \cup {entry}
         /\ Trimmed(put) \in Seq(Entry) /\ ToSet(Trimmed(put)) \subseteq others \cup {entry}
         /\ \A e \in others \cup {entry} : e \in ToSet(Trimmed(put)) \/ Closed(e)
<1> DEFINE others == ToSet(entries) \ OfKey(entries, entry.key)
<1>1. PICK rest \in Seq(Entry) : rest = ButKey(entries, entry.key) /\ ToSet(rest) = others
  BY ThoseIn DEF ButKey
<1>2. PICK put \in Seq(Entry) : put = Append(rest, entry) /\ ToSet(put) = others \cup {entry}
  <2>1. Append(rest, entry) \in Seq(Entry) /\ ToSet(Append(rest, entry)) = ToSet(rest) \cup {entry}
    BY Longer
  <2> HIDE DEF others
  <2> QED BY <1>1, <2>1, Zenon
<1> DEFINE ended == {i \in DOMAIN put : Closed(put[i])}
           dropped == {i \in ended : Cardinality({j \in ended : j < i}) < Len(put) - MaxKept}
           gone == {put[i] : i \in dropped}
<1>3. Trimmed(put) = Those(put, ToSet(put) \ gone)
  BY DEF Trimmed
<1>4. \A e \in gone : Closed(e)
  OBVIOUS
<1> HIDE DEF gone
<1>5. Trimmed(put) \in Seq(Entry) /\ ToSet(Trimmed(put)) = ToSet(put) \ gone
  BY <1>3, ThoseIn
<1> QED BY <1>1, <1>2, <1>4, <1>5

(* A session with other records.                                           *)
LEMMA OtherRecords ==
  ASSUME NEW kept \in Session, NEW entries \in Seq(Entry)
  PROVE  /\ [kept EXCEPT !.entries = entries] \in Session
         /\ [kept EXCEPT !.entries = entries].entries = entries
         /\ [kept EXCEPT !.entries = entries].next = kept.next
BY DEF Session

(* A request begins: the one who asks is answered from what is kept, or    *)
(* claims it.                                                              *)
LEMMA BeginsKeep ==
  ASSUME MemoryInv, NEW t \in Tasks, NEW s \in Rooms, NEW k \in Ids, BeginRequestOf(t, s, k)
  PROVE  MemoryInv' /\ MemoryPromise
<1>0. leases[s] > 0 /\ tasks[t] \in TaskType /\ tasks[t].at = "in" /\ data[s] \in Session /\ Fits(data[s], drawn)
  BY InsideLeases DEF BeginRequestOf
<1>1. MemoryTypes /\ UNCHANGED <<leases, waiters, holders, counters, time>>
  BY DEF MemoryInv, BeginRequestOf
<1> DEFINE E == ToSet(data[s].entries)
           some == {entry \in E : ~Closed(entry) \/ entry.expires > time}
<1>2. PICK live : live = Those(data[s].entries, some)
  OBVIOUS
<1>3. live \in Seq(Entry) /\ ToSet(live) = some /\ E \subseteq Entry /\ data[s].next \in Nat
  BY <1>0, <1>2, EntriesAre, ThoseIn
<1>4. PICK purged : purged = [data[s] EXCEPT !.entries = live]
  OBVIOUS
<1>5. purged \in Session /\ purged.entries = live /\ purged.next = data[s].next
  BY <1>0, <1>3, <1>4, OtherRecords
<1>6. OneEach(E) /\ (\A e \in E : e.owner <= drawn) /\ drawn \in Nat /\ time \in Nat
  BY <1>0, <1>1 DEF Fits, MemoryTypes
<1>7. \A e \in E : e \in some \/ Closed(e)
  OBVIOUS
<1>8. ASSUME NEW found \in OfKey(live, k),
             Store(s, [purged EXCEPT !.entries = Append(ButKey(live, k), found)]), UNCHANGED <<tasks, drawn>>
      PROVE  MemoryInv' /\ MemoryPromise
  <2>1. found \in some /\ found.key = k /\ found \in Entry
    BY <1>3 DEF OfKey
  <2>2. PICK entries : entries = Append(ButKey(live, k), found)
    OBVIOUS
  <2>3. entries \in Seq(Entry) /\ ToSet(entries) = some
    <3>1. OfKey(live, k) = {found}
      BY <1>3, <1>6, <2>1 DEF OfKey, OneEach
    <3>2. /\ Append(ButKey(live, found.key), found) \in Seq(Entry)
          /\ ToSet(Append(ButKey(live, found.key), found)) = (ToSet(live) \ OfKey(live, found.key)) \cup {found}
      BY <1>3, <2>1, WrittenOnes
    <3>3. (some \ {found}) \cup {found} = some
      BY <2>1
    <3> QED BY <1>3, <2>1, <2>2, <3>1, <3>2, <3>3
  <2>4. PICK value : value = [purged EXCEPT !.entries = entries]
    OBVIOUS
  <2>5. value \in Session /\ value.entries = entries /\ value.next = data[s].next
    BY <1>5, <2>3, <2>4, OtherRecords
  <2>6. Fits(value, drawn')
    BY <1>6, <1>8, <2>3, <2>5 DEF Fits, OneEach
  <2>7. drawn' \in Nat /\ drawn <= drawn' /\ time' \in Nat /\ SameTasks /\ tasks' \in [Tasks -> TaskType]
    BY <1>1, <1>8 DEF MemoryTypes, SameTasks
  <2>8. Store(s, value)
    BY <1>8, <2>2, <2>4
  <2>9. MemoryInv' /\ LeasedStays /\ data'[s] = value /\ \A r \in Rooms \ {s} : data'[r] \in {data[r], NewSession}
    BY <1>0, <1>1, <2>6, <2>7, <2>8, StoreKeeps
  <2>10. ToSet(data'[s].entries) = some /\ OneEach(some)
    BY <1>6, <2>3, <2>5, <2>9 DEF OneEach
  <2>11. \A other \in Ids : Lapses(s, other)
    BY <1>6, <1>7, <2>10, LapsesIf
  <2>12. Promised!RoomStep(s)
    BY <2>5, <2>9, <2>11, RoomForgets
  <2> QED BY <2>9, <2>12, OneKeepsPromise DEF MemoryPromise
<1>9. ASSUME \A found \in OfKey(live, k) : found.status # "completed", drawn' = drawn + 1,
             Store(s, Recorded(purged, [key |-> k, status |-> "in_progress", owner |-> drawn + 1,
                                        expires |-> time + KeepFor])),
             tasks' = [tasks EXCEPT ![t].claim = <<k, drawn + 1>>]
      PROVE  MemoryInv' /\ MemoryPromise
  <2>1. PICK entry : entry = [key |-> k, status |-> "in_progress", owner |-> drawn + 1, expires |-> time + KeepFor]
    OBVIOUS
  <2>2. entry \in Entry /\ entry.key = k /\ entry.status = "in_progress" /\ entry.owner = drawn + 1 /\ ~Closed(entry)
    <3>1. KeepFor \in Nat
      BY MemoryAssumption
    <3> QED BY <1>6, <2>1, <3>1 DEF Entry, Closed
  <2>3. PICK entries : entries = Trimmed(Append(ButKey(live, k), entry))
    OBVIOUS
  <2>4. /\ entries \in Seq(Entry) /\ ToSet(entries) \subseteq (some \ OfKey(live, k)) \cup {entry}
        /\ \A e \in (some \ OfKey(live, k)) \cup {entry} : e \in ToSet(entries) \/ Closed(e)
    BY <1>3, <2>2, <2>3, WrittenOnes
  <2>5. OfKey(live, k) = {e \in some : e.key = k}
    BY <1>3 DEF OfKey
  <2>6. PICK value : value = [purged EXCEPT !.entries = entries]
    OBVIOUS
  <2>7. value \in Session /\ value.entries = entries /\ value.next = data[s].next
    BY <1>5, <2>4, <2>6, OtherRecords
  <2>8. OneEach(ToSet(entries))
    BY <1>6, <2>2, <2>4, <2>5 DEF OneEach
  <2>9. Fits(value, drawn')
    <3>1. ASSUME NEW e \in ToSet(entries) PROVE e.owner <= drawn'
      <4>1. CASE e = entry
        BY <1>6, <1>9, <2>2, <4>1
      <4>2. CASE e \in E
        <5>1. e.owner \in Nat /\ e.owner <= drawn
          BY <1>3, <1>6, <4>2 DEF Entry
        <5>2. \A a, b \in Nat : a <= b => a <= b + 1
          OBVIOUS
        <5> QED BY <1>6, <1>9, <5>1, <5>2
      <4> QED BY <2>4, <4>1, <4>2
    <3> QED BY <2>7, <2>8, <3>1 DEF Fits
  <2>10. SameTasks /\ tasks' \in [Tasks -> TaskType]
    <3>1. tasks[t] \in [at : {"waiting", "in"}, session : Rooms, lock : 1..MaxLocks, claim : {<<>>} \cup (Ids \X Nat)]
      BY <1>0 DEF TaskType, NotIn
    <3>2. <<k, drawn + 1>> \in Ids \X Nat
      BY <1>6
    <3>3. PICK x : x = [tasks[t] EXCEPT !.claim = <<k, drawn + 1>>]
      OBVIOUS
    <3>4. x \in TaskType /\ x.at = tasks[t].at /\ x.session = tasks[t].session /\ x.lock = tasks[t].lock
      BY <3>1, <3>2, <3>3 DEF TaskType
    <3>5. tasks \in [Tasks -> TaskType] /\ tasks' = [tasks EXCEPT ![t] = x]
      BY <1>1, <1>9, <3>3 DEF MemoryTypes
    <3> QED BY <3>4, <3>5 DEF SameTasks
  <2>11. drawn' \in Nat /\ drawn <= drawn' /\ time' \in Nat
    BY <1>1, <1>6, <1>9
  <2>12. Store(s, value)
    BY <1>9, <1>5, <2>1, <2>2, <2>3, <2>6 DEF Recorded
  <2>13. MemoryInv' /\ LeasedStays /\ data'[s] = value /\ \A r \in Rooms \ {s} : data'[r] \in {data[r], NewSession}
    BY <1>0, <1>1, <2>9, <2>10, <2>11, <2>12, StoreKeeps
  <2>14. ToSet(data'[s].entries) = ToSet(entries)
    BY <2>7, <2>13
  <2>15. \A other \in Ids \ {k} : Lapses(s, other)
    <3>1. ASSUME NEW other \in Ids \ {k} PROVE Lapses(s, other)
      <4>1. \A e \in ToSet(entries) : e.key = other => e \in E
        BY <2>2, <2>4
      <4>2. \A e \in E : e.key = other => e \in ToSet(entries) \/ Closed(e)
        BY <1>7, <2>4, <2>5
      <4> QED BY <1>6, <2>8, <2>14, <4>1, <4>2, LapsesIf
    <3> QED BY <3>1
  <2>16. After(s, k) = [status |-> "in_progress", owner |-> drawn + 1]
    BY <2>2, <2>4, <2>8, <2>14, MarkIs DEF After
  <2>17. Before(s, k).owner # drawn + 1
    <3>1. CASE \E e \in E : e.key = k
      <4>1. PICK e \in E : e.key = k
        BY <3>1
      <4>2. Before(s, k).owner = e.owner /\ e.owner \in Nat /\ e.owner <= drawn
        BY <1>3, <1>6, <4>1, MarkIs DEF Before, Entry
      <4>3. \A a, b \in Nat : a <= b => a # b + 1
        OBVIOUS
      <4> QED BY <1>6, <4>2, <4>3
    <3>2. CASE \A e \in E : e.key # k
      <4>1. Before(s, k).owner = 0
        BY <3>2, MarkIs DEF Before, Unknown
      <4> QED BY <1>6, <4>1
    <3> QED BY <3>1, <3>2
  <2>18. ASSUME Before(s, k).status = "completed"
         PROVE  \E i \in DOMAIN data[s].entries : data[s].entries[i].key = k /\ data[s].entries[i].expires <= time
    <3>1. PICK e \in E : e.key = k
      BY <2>18, MarkIs DEF Before, Unknown
    <3>2. e.status = "completed" /\ e.expires \in Nat
      BY <1>3, <1>6, <2>18, <3>1, MarkIs DEF Before, Entry
    <3>3. e \notin some
      BY <1>9, <2>5, <3>1, <3>2
    <3>4. ~(e.expires > time)
      BY <3>3
    <3>5. \A a, b \in Nat : ~(a > b) => a <= b
      OBVIOUS
    <3>6. e.expires <= time
      BY <1>6, <3>2, <3>4, <3>5
    <3> QED BY <3>1, <3>6 DEF ToSet
  <2>19. Promised!RoomStep(s)
    BY <2>7, <2>13, <2>15, <2>16, <2>17, <2>18, RoomClaims
  <2> QED BY <2>13, <2>19, OneKeepsPromise DEF MemoryPromise
<1> QED BY <1>2, <1>4, <1>8, <1>9 DEF BeginRequestOf

(* A request ends that its claim still owns, with the turn its completion  *)
(* adds.                                                                   *)
LEMMA EndKeeps ==
  ASSUME MemoryInv, NEW t \in Tasks, NEW s \in Rooms, NEW status \in {"completed", "failed"},
         Claimed(t, s), Unclaims(t), NEW found \in OwnRecord(t, s),
         UNCHANGED <<leases, waiters, holders, counters, drawn, time>>,
         NEW told \in Session, told.entries = data[s].entries,
         told.next = data[s].next + IF status = "completed" THEN 1 ELSE 0,
         \/ Store(s, Recorded(told, [found EXCEPT !.status = status]))
         \/ /\ data' = [data EXCEPT ![s] = Recorded(told, [found EXCEPT !.status = status])]
            /\ UNCHANGED <<order, locks>>
  PROVE  MemoryInv' /\ MemoryPromise
<1>0. leases[s] > 0 /\ tasks[t] \in TaskType /\ tasks[t].at = "in" /\ data[s] \in Session /\ Fits(data[s], drawn)
  BY InsideLeases DEF Claimed
<1>1. MemoryTypes
  BY DEF MemoryInv
<1> DEFINE k == tasks[t].claim[1]
           E == ToSet(data[s].entries)
<1>2. data[s].entries \in Seq(Entry) /\ E \subseteq Entry /\ data[s].next \in Nat
  BY <1>0, EntriesAre
<1>3. OneEach(E) /\ (\A e \in E : e.owner <= drawn) /\ drawn \in Nat /\ time \in Nat
  BY <1>0, <1>1 DEF Fits, MemoryTypes
<1>4. PICK many \in Nat : many = data[s].next + IF status = "completed" THEN 1 ELSE 0
  BY <1>2
<1>5. found \in OfKey(data[s].entries, k) /\ found.status = "in_progress"
  BY DEF OwnRecord
<1>6. found \in E /\ found.key = k /\ found \in Entry /\ k \in Ids
  BY <1>2, <1>5 DEF OfKey, Entry
<1>7. PICK entry : entry = [found EXCEPT !.status = status]
  OBVIOUS
<1>8. entry \in Entry /\ entry.key = k /\ entry.status = status /\ entry.owner = found.owner /\ Closed(entry)
  BY <1>6, <1>7 DEF Entry, Closed
<1>10. told.next = many
  BY <1>4
<1> HIDE DEF k
<1>11. PICK entries : entries = Trimmed(Append(ButKey(data[s].entries, k), entry))
  OBVIOUS
<1>12. OfKey(data[s].entries, k) = {found}
  BY <1>3, <1>6 DEF OfKey, OneEach
<1>13. /\ entries \in Seq(Entry) /\ ToSet(entries) \subseteq (E \ {found}) \cup {entry}
       /\ \A e \in (E \ {found}) \cup {entry} : e \in ToSet(entries) \/ Closed(e)
  BY <1>2, <1>8, <1>11, <1>12, WrittenOnes
<1>14. PICK value : value = [told EXCEPT !.entries = entries]
  OBVIOUS
<1>15. value \in Session /\ value.entries = entries /\ value.next = many
  BY <1>10, <1>13, <1>14, OtherRecords
<1>16. \A e \in E \ {found} : e.key # k
  BY <1>3, <1>6 DEF OneEach
<1>17. OneEach(ToSet(entries))
  BY <1>3, <1>8, <1>13, <1>16 DEF OneEach
<1>18. Fits(value, drawn')
  BY <1>1, <1>3, <1>6, <1>8, <1>13, <1>15, <1>17 DEF Fits
<1>19. SameTasks /\ tasks' \in [Tasks -> TaskType]
  <2>1. tasks[t] \in [at : {"waiting", "in"}, session : Rooms, lock : 1..MaxLocks, claim : {<<>>} \cup (Ids \X Nat)]
    BY <1>0 DEF TaskType, NotIn
  <2>2. PICK x : x = [tasks[t] EXCEPT !.claim = <<>>]
    OBVIOUS
  <2>3. x \in TaskType /\ x.at = tasks[t].at /\ x.session = tasks[t].session /\ x.lock = tasks[t].lock
    BY <2>1, <2>2 DEF TaskType
  <2>4. tasks \in [Tasks -> TaskType] /\ tasks' = [tasks EXCEPT ![t] = x]
    BY <1>1, <2>2 DEF MemoryTypes, Unclaims
  <2> QED BY <2>3, <2>4 DEF SameTasks
<1>20. drawn' \in Nat /\ drawn <= drawn' /\ time' \in Nat
  BY <1>3
<1>21. value = Recorded(told, [found EXCEPT !.status = status])
  BY <1>7, <1>8, <1>11, <1>14 DEF Recorded
<1>22. MemoryInv' /\ LeasedStays /\ data'[s] = value /\ \A r \in Rooms \ {s} : data'[r] \in {data[r], NewSession}
  <2>1. CASE Store(s, value)
    BY <1>0, <1>18, <1>19, <1>20, <2>1, StoreKeeps
  <2>2. CASE data' = [data EXCEPT ![s] = value] /\ UNCHANGED <<order, locks>>
    BY <1>18, <1>19, <2>2, OverwriteKeeps
  <2> QED BY <1>21, <2>1, <2>2
<1>23. ToSet(data'[s].entries) = ToSet(entries) /\ data'[s].next = many
  BY <1>15, <1>22
<1>24. \A other \in Ids \ {k} : Lapses(s, other)
  <2>1. ASSUME NEW other \in Ids \ {k} PROVE Lapses(s, other)
    <3>1. \A e \in ToSet(entries) : e.key = other => e \in E
      BY <1>8, <1>13
    <3>2. \A e \in E : e.key = other => e \in ToSet(entries) \/ Closed(e)
      BY <1>6, <1>13
    <3> QED BY <1>3, <1>17, <1>23, <3>1, <3>2, LapsesIf
  <2> QED BY <2>1
<1>25. Before(s, k) = [status |-> "in_progress", owner |-> found.owner]
  BY <1>3, <1>5, <1>6, MarkIs DEF Before
<1>26. After(s, k) = Unknown \/ After(s, k) = [status |-> status, owner |-> found.owner]
  <2>1. CASE entry \in ToSet(entries)
    BY <1>8, <1>17, <1>23, <2>1, MarkIs DEF After
  <2>2. CASE entry \notin ToSet(entries)
    <3>1. \A e \in ToSet(entries) : e.key # k
      BY <1>13, <1>16, <2>2
    <3> QED BY <1>23, <3>1, MarkIs DEF After
  <2> QED BY <2>1, <2>2
<1>27. Promised!RoomStep(s)
  BY <1>2, <1>4, <1>6, <1>23, <1>24, <1>25, <1>26, RoomEnds
<1> QED BY <1>22, <1>27, OneKeepsPromise DEF MemoryPromise

(* It completes.                                                           *)
LEMMA CompletesKeep ==
  ASSUME MemoryInv, NEW t \in Tasks, NEW s \in Rooms, CompleteRequestOf(t, s)
  PROVE  MemoryInv' /\ MemoryPromise
<1>1. data[s] \in Session
  BY DEF MemoryInv, MemoryTypes
<1>2. PICK told : told = [data[s] EXCEPT !.next = @ + 1]
  OBVIOUS
<1>3. told \in Session /\ told.entries = data[s].entries /\ told.next = data[s].next + 1
  BY <1>1, <1>2 DEF Session
<1>4. PICK status \in {"completed", "failed"} : status = "completed"
  OBVIOUS
<1>5. PICK found \in OwnRecord(t, s) : Store(s, Recorded(told, [found EXCEPT !.status = status]))
  BY <1>2, <1>4 DEF CompleteRequestOf
<1>6. Claimed(t, s) /\ Unclaims(t) /\ UNCHANGED <<leases, waiters, holders, counters, drawn, time>>
  BY DEF CompleteRequestOf
<1> QED BY <1>3, <1>4, <1>5, <1>6, EndKeeps

(* It fails.                                                               *)
LEMMA FailsKeep ==
  ASSUME MemoryInv, NEW t \in Tasks, NEW s \in Rooms, FailRequestOf(t, s)
  PROVE  MemoryInv' /\ MemoryPromise
<1>1. data[s] \in Session /\ data[s].next \in Nat
  <2>1. data[s] \in Session
    BY DEF MemoryInv, MemoryTypes
  <2> QED BY <2>1, EntriesAre
<1>2. PICK status \in {"completed", "failed"} : status = "failed"
  OBVIOUS
<1>3. data[s].next = data[s].next + IF status = "completed" THEN 1 ELSE 0
  BY <1>1, <1>2
<1>4. PICK found \in OwnRecord(t, s) :
        data' = [data EXCEPT ![s] = Recorded(data[s], [found EXCEPT !.status = status])]
  BY <1>2 DEF FailRequestOf
<1>5. /\ Claimed(t, s) /\ Unclaims(t) /\ UNCHANGED <<order, locks>>
      /\ UNCHANGED <<leases, waiters, holders, counters, drawn, time>>
  BY DEF FailRequestOf
<1> QED BY <1>1, <1>3, <1>4, <1>5, EndKeeps

-----------------------------------------------------------------------------
(* The steps that come for a lock, get it and leave                        *)

(* What a task that is somewhere is made of.                               *)
LEMMA TaskIs ==
  ASSUME MemoryTypes, NEW t \in Tasks
  PROVE  /\ tasks[t].at \in {"out", "waiting", "in"}
         /\ tasks[t].at # "out" => /\ tasks[t].session \in Rooms /\ tasks[t].lock \in 1..MaxLocks /\ tasks[t].lock # 0
                                   /\ tasks[t].claim \in {<<>>} \cup (Ids \X Nat)
                                   /\ tasks[t] \in [at : {"waiting", "in"}, session : Rooms, lock : 1..MaxLocks,
                                                    claim : {<<>>} \cup (Ids \X Nat)]
<1>1. tasks[t] = NotIn \/ tasks[t] \in [at : {"waiting", "in"}, session : Rooms, lock : 1..MaxLocks,
                                         claim : {<<>>} \cup (Ids \X Nat)]
  BY DEF MemoryTypes, TaskType
<1>2. CASE tasks[t] = NotIn
  BY <1>2 DEF NotIn
<1>3. CASE tasks[t] \in [at : {"waiting", "in"}, session : Rooms, lock : 1..MaxLocks, claim : {<<>>} \cup (Ids \X Nat)]
  <2>1. \A l \in 1..MaxLocks : l # 0
    BY MemoryAssumption
  <2> QED BY <1>3, <2>1
<1> QED BY <1>1, <1>2, <1>3

(* A task comes, and waits for the lock that the others wait for.          *)
LEMMA EnterKeeps ==
  ASSUME MemoryInv, NEW t \in Tasks, NEW s \in Rooms, Enter(t, s)
  PROVE  MemoryInv' /\ MemoryPromise
<1>1. MemoryTypes /\ RecordsFit /\ QueuesFit /\ LeasesFit /\ NothingIsHoarded
  BY DEF MemoryInv
<1>2. tasks[t].at = "out" /\ UNCHANGED <<order, data, holders, counters, drawn, time>>
  BY DEF Enter
<1>3. PICK l \in 1..MaxLocks : locks' = [locks EXCEPT ![s] = l] /\ (locks[s] # 0 => l = locks[s])
  <2>1. CASE locks[s] = 0
    <3>1. (CHOOSE l \in Unreferenced : TRUE) \in Unreferenced
      BY <2>1 DEF Enter
    <3>2. locks' = [locks EXCEPT ![s] = CHOOSE l \in Unreferenced : TRUE]
      BY <2>1 DEF Enter
    <3> QED BY <2>1, <3>1, <3>2 DEF Unreferenced
  <2>2. CASE locks[s] # 0
    <3>1. locks[s] \in 1..MaxLocks
      BY <1>1, <2>2 DEF MemoryTypes
    <3>2. locks' = [locks EXCEPT ![s] = locks[s]]
      BY <2>2 DEF Enter
    <3> QED BY <3>1, <3>2
  <2> QED BY <2>1, <2>2
<1>4. locks'[s] = l /\ l # 0 /\ \A r \in Rooms \ {s} : locks'[r] = locks[r]
  BY <1>1, <1>3, MemoryAssumption DEF MemoryTypes
<1>5. PICK x : x = [at |-> "waiting", session |-> s, lock |-> l, claim |-> <<>>]
  OBVIOUS
<1>6. /\ x \in TaskType /\ x.at = "waiting" /\ x.session = s /\ x.lock = l
      /\ tasks' = [tasks EXCEPT ![t] = x]
  BY <1>4, <1>5 DEF Enter, TaskType
<1>7. waiters' = [waiters EXCEPT ![l] = Append(waiters[l], t)] /\ leases' = [leases EXCEPT ![s] = leases[s] + 1]
  BY <1>4 DEF Enter
<1>8. PICK queue \in Seq(Tasks) : /\ queue = Append(waiters[l], t) /\ ToSet(queue) = ToSet(waiters[l]) \cup {t}
                                  /\ (waiters[l] # <<>> => Head(queue) = Head(waiters[l]))
  <2>1. waiters[l] \in Seq(Tasks)
    BY <1>1 DEF MemoryTypes
  <2> QED BY <2>1, Longer
<1>9. tasks'[t] = x /\ \A u \in Tasks \ {t} : tasks'[u] = tasks[u]
  BY <1>1, <1>6 DEF MemoryTypes
<1>10. waiters'[l] = queue /\ \A m \in (1..MaxLocks) \ {l} : waiters'[m] = waiters[m]
  BY <1>1, <1>7, <1>8 DEF MemoryTypes
<1>11. leases'[s] = leases[s] + 1 /\ leases[s] \in Nat /\ \A r \in Rooms \ {s} : leases'[r] = leases[r]
  BY <1>1, <1>7 DEF MemoryTypes
<1>12. MemoryTypes'
  <2>1. locks' \in [Rooms -> 0..MaxLocks]
    <3>1. l \in 0..MaxLocks
      BY MemoryAssumption
    <3> QED BY <1>1, <1>3, <3>1 DEF MemoryTypes
  <2>2. leases' \in [Rooms -> Nat]
    <3>1. leases[s] + 1 \in Nat
      BY <1>11
    <3> QED BY <1>1, <1>7, <3>1 DEF MemoryTypes
  <2>3. waiters' \in [1..MaxLocks -> Seq(Tasks)]
    BY <1>1, <1>7, <1>8 DEF MemoryTypes
  <2> QED BY <1>1, <1>2, <1>6, <2>1, <2>2, <2>3 DEF MemoryTypes
<1>13. QueuesFit'
  <2>1. ASSUME NEW m \in 1..MaxLocks, NEW u \in Tasks
        PROVE  u \in ToSet(waiters'[m]) <=> tasks'[u].at # "out" /\ tasks'[u].lock = m
    <3>1. u \in ToSet(waiters[m]) <=> tasks[u].at # "out" /\ tasks[u].lock = m
      BY <1>1 DEF QueuesFit
    <3>2. CASE m = l
      <4>1. u \in ToSet(waiters'[m]) <=> u \in ToSet(waiters[m]) \/ u = t
        BY <1>8, <1>10, <3>2
      <4> QED BY <1>6, <1>9, <3>1, <3>2, <4>1
    <3>3. CASE m # l
      <4>1. waiters'[m] = waiters[m]
        BY <1>10, <3>3
      <4> QED BY <1>2, <1>6, <1>9, <3>1, <3>3, <4>1
    <3> QED BY <3>2, <3>3
  <2>2. ASSUME NEW u \in Tasks, tasks'[u].at = "in" PROVE Head(waiters'[tasks'[u].lock]) = u
    <3>1. u # t /\ tasks'[u] = tasks[u] /\ tasks[u].at = "in"
      BY <1>6, <1>9, <2>2
    <3>2. tasks[u].lock \in 1..MaxLocks
      BY <1>1, <3>1, TaskIs
    <3>3. Head(waiters[tasks[u].lock]) = u /\ u \in ToSet(waiters[tasks[u].lock])
      BY <1>1, <3>1, <3>2 DEF QueuesFit
    <3>4. waiters[tasks[u].lock] # <<>>
      BY <3>3 DEF ToSet
    <3> QED BY <1>8, <1>10, <3>1, <3>2, <3>3, <3>4
  <2> QED BY <2>1, <2>2 DEF QueuesFit
<1>14. Busy(s)' = Busy(s) \cup {t} /\ t \notin Busy(s) /\ \A r \in Rooms \ {s} : Busy(r)' = Busy(r)
  BY <1>2, <1>6, <1>9 DEF Busy
<1>15. \A r \in Rooms, u \in Tasks : InSession(u, r)' => InSession(u, r)
  BY <1>6, <1>9 DEF InSession
<1>16. LeasesFit'
  <2>1. IsFiniteSet(Busy(s)') /\ leases'[s] = Cardinality(Busy(s)')
    BY <1>1, <1>11, <1>14, FS_AddElement DEF LeasesFit
  <2>2. ASSUME NEW u \in Busy(s)' PROVE locks'[s] = tasks'[u].lock
    <3>1. CASE u = t
      BY <1>4, <1>6, <1>9, <3>1
    <3>2. CASE u \in Busy(s) /\ u # t
      <4>1. u \in Tasks /\ tasks[u].at # "out"
        BY <3>2 DEF Busy
      <4>2. locks[s] = tasks[u].lock /\ tasks[u].lock # 0
        BY <1>1, <3>2, <4>1, TaskIs DEF LeasesFit
      <4> QED BY <1>3, <1>4, <1>9, <3>2, <4>1, <4>2
    <3> QED BY <1>14, <2>2, <3>1, <3>2
  <2>3. ASSUME NEW r \in Rooms \ {s}, NEW u \in Busy(r)' PROVE locks'[r] = tasks'[u].lock
    <3>1. u \in Busy(r) /\ u \in Tasks /\ u # t
      BY <1>2, <1>14, <2>3 DEF Busy
    <3> QED BY <1>1, <1>4, <1>9, <3>1 DEF LeasesFit
  <2>4. ASSUME NEW r \in Rooms, NEW u \in Tasks, InSession(u, r)' PROVE holders'[r] = u
    BY <1>1, <1>2, <1>15, <2>4 DEF LeasesFit
  <2>5. \A r \in Rooms : IsFiniteSet(Busy(r)') /\ leases'[r] = Cardinality(Busy(r)')
    BY <1>1, <1>11, <1>14, <2>1 DEF LeasesFit
  <2>6. \A r \in Rooms, u \in Tasks : u \in Busy(r)' => locks'[r] = tasks'[u].lock
    BY <2>2, <2>3
  <2> QED BY <2>4, <2>5, <2>2, <2>3 DEF LeasesFit
<1>17. NothingIsHoarded' /\ LeasedStays
  <2>1. \A r \in Rooms : leases[r] > 0 => leases'[r] > 0
    BY <1>11
  <2>2. leases'[s] > 0
    BY <1>11
  <2>3. \A r \in ToSet(order) : r \in Rooms
    BY <1>1, RoomsLeft DEF MemoryTypes
  <2>4. NothingIsHoarded'
    BY <1>1, <1>2, <1>4, <2>1, <2>2, <2>3 DEF NothingIsHoarded, Known
  <2>5. \A r \in Rooms : counters'[r] >= counters[r]
    BY <1>1, <1>2 DEF MemoryTypes
  <2> QED BY <1>2, <2>4, <2>5 DEF LeasedStays, Known
<1>18. Promised!ContractNext /\ RecordsFit'
  BY <1>1, <1>2, RoomRests DEF Promised!ContractNext, RecordsFit
<1> QED BY <1>12, <1>13, <1>16, <1>17, <1>18 DEF MemoryInv, MemoryPromise

(* The head of a lock's queue gets it.                                     *)
LEMMA AcquiredKeeps ==
  ASSUME MemoryInv, NEW t \in Tasks, Acquired(t)
  PROVE  MemoryInv' /\ MemoryPromise
<1>1. MemoryTypes /\ RecordsFit /\ QueuesFit /\ LeasesFit /\ NothingIsHoarded
  BY DEF MemoryInv
<1>2. PICK s \in Rooms : s = tasks[t].session
  BY <1>1, TaskIs DEF Acquired
<1>3. /\ tasks[t].at = "waiting" /\ Head(waiters[tasks[t].lock]) = t
      /\ holders' = [holders EXCEPT ![s] = t] /\ counters' = [counters EXCEPT ![s] = counters[s] + 1]
      /\ UNCHANGED <<order, data, locks, leases, waiters, drawn, time>>
  BY <1>2 DEF Acquired
<1>4. PICK x : x = [tasks[t] EXCEPT !.at = "in"]
  OBVIOUS
<1>5. x \in TaskType /\ x.at = "in" /\ x.session = s /\ x.lock = tasks[t].lock /\ tasks' = [tasks EXCEPT ![t] = x]
  <2>1. x \in TaskType /\ x.at = "in" /\ x.session = s /\ x.lock = tasks[t].lock
    BY <1>1, <1>2, <1>3, <1>4, TaskIs DEF TaskType
  <2> QED BY <1>4, <2>1 DEF Acquired
<1>6. tasks'[t] = x /\ \A u \in Tasks \ {t} : tasks'[u] = tasks[u]
  BY <1>1, <1>5 DEF MemoryTypes
<1>7. MemoryTypes'
  <2>1. counters' \in [Rooms -> Nat]
    <3>1. counters[s] + 1 \in Nat
      BY <1>1 DEF MemoryTypes
    <3> QED BY <1>1, <1>3, <3>1 DEF MemoryTypes
  <2>2. holders' \in [Rooms -> Tasks \cup {Nobody}]
    BY <1>1, <1>3 DEF MemoryTypes
  <2>3. tasks' \in [Tasks -> TaskType]
    BY <1>1, <1>5 DEF MemoryTypes
  <2> QED BY <1>1, <1>3, <2>1, <2>2, <2>3 DEF MemoryTypes
<1>8. QueuesFit'
  <2>1. ASSUME NEW m \in 1..MaxLocks, NEW u \in Tasks
        PROVE  u \in ToSet(waiters'[m]) <=> tasks'[u].at # "out" /\ tasks'[u].lock = m
    BY <1>1, <1>3, <1>5, <1>6 DEF QueuesFit
  <2>2. ASSUME NEW u \in Tasks, tasks'[u].at = "in" PROVE Head(waiters'[tasks'[u].lock]) = u
    BY <1>1, <1>3, <1>5, <1>6, <2>2 DEF QueuesFit
  <2> QED BY <2>1, <2>2 DEF QueuesFit
<1>9. \A r \in Rooms : Busy(r)' = Busy(r)
  BY <1>2, <1>3, <1>5, <1>6 DEF Busy
<1>10. LeasesFit'
  <2>1. ASSUME NEW r \in Rooms, NEW u \in Busy(r)' PROVE locks'[r] = tasks'[u].lock
    <3>1. u \in Busy(r) /\ u \in Tasks
      BY <1>9, <2>1 DEF Busy
    <3> QED BY <1>1, <1>3, <1>5, <1>6, <3>1 DEF LeasesFit
  <2>2. ASSUME NEW r \in Rooms, NEW u \in Tasks, InSession(u, r)' PROVE holders'[r] = u
    <3>1. CASE u = t
      <4>1. r = s
        BY <1>5, <1>6, <2>2, <3>1 DEF InSession
      <4> QED BY <1>1, <1>3, <3>1, <4>1 DEF MemoryTypes
    <3>2. CASE u # t
      <4>1. InSession(u, r)
        BY <1>6, <2>2, <3>2 DEF InSession
      <4>2. r # s
        <5> SUFFICES ASSUME r = s PROVE FALSE
          OBVIOUS
        <5>1. u \in Busy(s) /\ t \in Busy(s)
          BY <1>2, <1>3, <4>1 DEF InSession, Busy
        <5>2. tasks[u].lock = tasks[t].lock
          BY <1>1, <5>1 DEF LeasesFit
        <5>3. Head(waiters[tasks[u].lock]) = u
          BY <1>1, <4>1 DEF QueuesFit, InSession
        <5> QED BY <1>3, <3>2, <5>2, <5>3
      <4>3. holders'[r] = holders[r]
        BY <1>1, <1>3, <4>2 DEF MemoryTypes
      <4> QED BY <1>1, <4>1, <4>3 DEF LeasesFit
    <3> QED BY <3>1, <3>2
  <2> QED BY <1>1, <1>3, <1>9, <2>1, <2>2 DEF LeasesFit
<1>11. NothingIsHoarded'
  BY <1>1, <1>3 DEF NothingIsHoarded, Known
<1>12. LeasedStays
  <2>1. ASSUME NEW r \in Rooms PROVE counters'[r] >= counters[r]
    <3>1. counters'[r] = counters[r] + 1 \/ counters'[r] = counters[r]
      BY <1>1, <1>3 DEF MemoryTypes
    <3>2. counters[r] \in Nat /\ \A n \in Nat : n + 1 >= n /\ n >= n
      BY <1>1 DEF MemoryTypes
    <3> QED BY <3>1, <3>2
  <2> QED BY <1>3, <2>1 DEF LeasedStays, Known
<1>13. Promised!ContractNext /\ RecordsFit'
  BY <1>1, <1>3, RoomRests DEF Promised!ContractNext, RecordsFit
<1> QED BY <1>7, <1>8, <1>10, <1>11, <1>12, <1>13 DEF MemoryInv, MemoryPromise

(* A task leaves, by whatever way: sessions too many go, but none that     *)
(* somebody is in.                                                         *)
LEMMA LeftKeeps ==
  ASSUME MemoryInv, NEW t \in Tasks, Left(t)
  PROVE  MemoryInv' /\ MemoryPromise
<1>1. MemoryTypes /\ RecordsFit /\ QueuesFit /\ LeasesFit /\ NothingIsHoarded
  BY DEF MemoryInv
<1>2. PICK s \in Rooms : s = tasks[t].session
  BY <1>1, TaskIs DEF Left
<1>3. PICK l \in 1..MaxLocks : l = tasks[t].lock
  BY <1>1, TaskIs DEF Left
<1>4. PICK leased : leased = [leases EXCEPT ![s] = leases[s] - 1]
  OBVIOUS
<1>5. PICK gone : gone = Evicted(order, leased)
  OBVIOUS
<1>6. PICK rest \in BOOLEAN : rest = (leased[s] = 0 /\ ~Known(s))
  OBVIOUS
<1>7. /\ tasks[t].at \in {"waiting", "in"} /\ tasks' = [tasks EXCEPT ![t] = NotIn]
      /\ waiters' = [waiters EXCEPT ![l] = Those(waiters[l], Tasks \ {t})]
      /\ holders' = IF tasks[t].at = "in" THEN [holders EXCEPT ![s] = Nobody] ELSE holders
      /\ leases' = leased
      /\ counters' = IF rest THEN [counters EXCEPT ![s] = 0] ELSE counters
      /\ order' = Keep(order, gone) /\ data' = Emptied(gone)
      /\ locks' = LocksWithout(locks, gone \cup IF rest THEN {s} ELSE {})
      /\ UNCHANGED <<drawn, time>>
  BY <1>2, <1>3, <1>4, <1>5, <1>6 DEF Left
<1>8. order \in Seq(Rooms) /\ NoDoubles(order) /\ ToSet(order) \subseteq Rooms
  BY <1>1, RoomsLeft DEF MemoryTypes
<1>9. t \in Busy(s) /\ leases[s] \in Nat /\ leases[s] > 0
  <2>1. t \in Busy(s)
    BY <1>2, <1>7 DEF Busy
  <2> QED BY <2>1, BusyLeased
<1>10. leased[s] = leases[s] - 1 /\ leased[s] \in Nat /\ leased \in [Rooms -> Nat] /\ \A r \in Rooms \ {s} : leased[r] = leases[r]
  <2>1. \A n \in Nat : n > 0 => n - 1 \in Nat
    OBVIOUS
  <2>2. leases[s] - 1 \in Nat
    BY <1>9, <2>1
  <2> QED BY <1>1, <1>4, <2>2 DEF MemoryTypes
<1>11. /\ \A r \in gone : r \in ToSet(order) /\ leased[r] = 0
       /\ Cardinality(ToSet(order) \ gone) > MaxSessions => \A r \in ToSet(order) \ gone : leased[r] # 0
  BY <1>5, <1>8, EvictedFit
<1>12. order' \in Seq(Rooms) /\ NoDoubles(order') /\ ToSet(order') = ToSet(order) \ gone
  BY <1>7, <1>8, RoomsLeft
<1>13. \A r \in Rooms : data'[r] = IF r \in gone THEN NewSession ELSE data[r]
  BY <1>7 DEF Emptied
<1>14. \A r \in Rooms : locks'[r] = IF r \in gone \/ (rest /\ r = s) THEN 0 ELSE locks[r]
  BY <1>7 DEF LocksWithout
<1>15. NotIn \in TaskType /\ NotIn.at = "out"
  BY DEF NotIn, TaskType
<1>16. tasks'[t] = NotIn /\ \A u \in Tasks \ {t} : tasks'[u] = tasks[u]
  BY <1>1, <1>7 DEF MemoryTypes
<1>17. PICK queue \in Seq(Tasks) :
         /\ queue = Those(waiters[l], Tasks \ {t}) /\ ToSet(queue) = ToSet(waiters[l]) \cap (Tasks \ {t})
         /\ waiters[l] # <<>> /\ Head(waiters[l]) \in Tasks \ {t} => Head(queue) = Head(waiters[l])
  <2>1. waiters[l] \in Seq(Tasks)
    BY <1>1 DEF MemoryTypes
  <2> QED BY <2>1, ThoseIn
<1>18. waiters'[l] = queue /\ \A m \in (1..MaxLocks) \ {l} : waiters'[m] = waiters[m]
  BY <1>1, <1>7, <1>17 DEF MemoryTypes
<1>19. Busy(s)' = Busy(s) \ {t} /\ \A r \in Rooms \ {s} : Busy(r)' = Busy(r)
  BY <1>2, <1>15, <1>16 DEF Busy
<1>20. \A r \in Rooms : IsFiniteSet(Busy(r)') /\ leases'[r] = Cardinality(Busy(r)')
  <2>1. IsFiniteSet(Busy(s)') /\ leases'[s] = Cardinality(Busy(s)')
    BY <1>1, <1>7, <1>9, <1>10, <1>19, FS_RemoveElement DEF LeasesFit
  <2> QED BY <1>1, <1>7, <1>10, <1>19, <2>1 DEF LeasesFit
<1>21. \A r \in Rooms : Busy(r)' # {} => leases'[r] # 0
  BY <1>20, FS_EmptySet
<1>22. \A r \in Rooms, u \in Tasks : InSession(u, r)' => u # t /\ InSession(u, r)
  BY <1>15, <1>16 DEF InSession
<1>23. MemoryTypes'
  <2>1. data' \in [Rooms -> Session]
    <3>1. NewSession \in Session
      BY DEF NewSession, Session
    <3> QED BY <1>1, <1>7, <3>1 DEF Emptied, MemoryTypes
  <2>2. locks' \in [Rooms -> 0..MaxLocks]
    <3>1. 0 \in 0..MaxLocks
      BY MemoryAssumption
    <3> QED BY <1>1, <1>7, <3>1 DEF LocksWithout, MemoryTypes
  <2>3. waiters' \in [1..MaxLocks -> Seq(Tasks)]
    BY <1>1, <1>7, <1>17 DEF MemoryTypes
  <2>4. holders' \in [Rooms -> Tasks \cup {Nobody}]
    BY <1>1, <1>7 DEF MemoryTypes
  <2>5. counters' \in [Rooms -> Nat]
    BY <1>1, <1>7 DEF MemoryTypes
  <2>6. tasks' \in [Tasks -> TaskType]
    BY <1>1, <1>7, <1>15 DEF MemoryTypes
  <2> QED BY <1>1, <1>7, <1>10, <1>12, <2>1, <2>2, <2>3, <2>4, <2>5, <2>6 DEF MemoryTypes
<1>24. RecordsFit'
  <2>1. Fits(NewSession, drawn)
    BY DEF NewSession, Session, Fits, OneEach, ToSet
  <2> QED BY <1>1, <1>7, <1>13, <2>1 DEF RecordsFit
<1>25. QueuesFit'
  <2>1. ASSUME NEW m \in 1..MaxLocks, NEW u \in Tasks
        PROVE  u \in ToSet(waiters'[m]) <=> tasks'[u].at # "out" /\ tasks'[u].lock = m
    <3>1. CASE u = t
      <4>1. tasks'[u].at = "out"
        BY <1>15, <1>16, <3>1
      <4>2. u \notin ToSet(waiters'[m])
        <5>1. CASE m = l
          BY <1>17, <1>18, <3>1, <5>1
        <5>2. CASE m # l
          <6>1. waiters'[m] = waiters[m]
            BY <1>18, <5>2
          <6> QED BY <1>1, <1>3, <3>1, <5>2, <6>1 DEF QueuesFit
        <5> QED BY <5>1, <5>2
      <4> QED BY <4>1, <4>2
    <3>2. CASE u # t
      <4>1. u \in ToSet(waiters[m]) <=> tasks'[u].at # "out" /\ tasks'[u].lock = m
        BY <1>1, <1>16, <3>2 DEF QueuesFit
      <4>2. CASE m = l
        BY <1>17, <1>18, <3>2, <4>1, <4>2
      <4>3. CASE m # l
        <5>1. waiters'[m] = waiters[m]
          BY <1>18, <4>3
        <5> QED BY <4>1, <5>1
      <4> QED BY <4>2, <4>3
    <3> QED BY <3>1, <3>2
  <2>2. ASSUME NEW u \in Tasks, tasks'[u].at = "in" PROVE Head(waiters'[tasks'[u].lock]) = u
    <3>1. u # t /\ tasks'[u] = tasks[u] /\ tasks[u].at = "in"
      BY <1>15, <1>16, <2>2
    <3>2. tasks[u].lock \in 1..MaxLocks
      BY <1>1, <3>1, TaskIs
    <3>3. Head(waiters[tasks[u].lock]) = u /\ u \in ToSet(waiters[tasks[u].lock])
      BY <1>1, <3>1, <3>2 DEF QueuesFit
    <3>4. waiters[tasks[u].lock] # <<>>
      BY <3>3 DEF ToSet
    <3> QED BY <1>17, <1>18, <3>1, <3>2, <3>3, <3>4
  <2> QED BY <2>1, <2>2 DEF QueuesFit
<1>26. LeasesFit'
  <2>1. ASSUME NEW r \in Rooms, NEW u \in Busy(r)' PROVE locks'[r] = tasks'[u].lock
    <3>1. u \in Busy(r) /\ u \in Tasks /\ u # t
      BY <1>15, <1>16, <1>19, <2>1 DEF Busy
    <3>2. leased[r] # 0
      BY <1>7, <1>21, <2>1
    <3>3. r \notin gone /\ ~(rest /\ r = s)
      BY <1>6, <1>11, <3>2
    <3> QED BY <1>1, <1>14, <1>16, <3>1, <3>3 DEF LeasesFit
  <2>2. ASSUME NEW r \in Rooms, NEW u \in Tasks, InSession(u, r)' PROVE holders'[r] = u
    <3>1. u # t /\ InSession(u, r) /\ holders[r] = u
      BY <1>1, <1>22, <2>2 DEF LeasesFit
    <3>2. ~(tasks[t].at = "in" /\ r = s)
      <4> SUFFICES ASSUME tasks[t].at = "in", r = s PROVE FALSE
        OBVIOUS
      <4>1. InSession(t, s)
        BY <1>2 DEF InSession
      <4> QED BY <3>1, <4>1, OneIn
    <3>3. holders'[r] = holders[r]
      BY <1>1, <1>7, <3>2 DEF MemoryTypes
    <3> QED BY <3>1, <3>3
  <2> QED BY <1>20, <2>1, <2>2 DEF LeasesFit
<1>27. NothingIsHoarded'
  <2>1. ASSUME Len(order') > MaxSessions PROVE \A r \in ToSet(order') : leases'[r] > 0
    <3>1. Cardinality(ToSet(order) \ gone) > MaxSessions
      BY <1>12, <2>1, ManyAsLong
    <3>2. \A r \in ToSet(order') : r \in Rooms /\ leased[r] # 0
      BY <1>8, <1>11, <1>12, <3>1
    <3>3. \A n \in Nat : n # 0 => n > 0
      OBVIOUS
    <3> QED BY <1>7, <1>10, <3>2, <3>3
  <2>2. ASSUME NEW r \in Rooms, locks'[r] # 0 PROVE leases'[r] > 0 \/ r \in ToSet(order')
    <3>1. r \notin gone /\ ~(rest /\ r = s) /\ locks[r] # 0
      BY <1>14, <2>2
    <3>2. leases[r] > 0 \/ r \in ToSet(order)
      BY <1>1, <3>1 DEF NothingIsHoarded, Known
    <3>3. CASE r \in ToSet(order)
      BY <1>12, <3>1, <3>3
    <3>4. CASE r \notin ToSet(order) /\ r # s
      BY <1>7, <1>10, <3>2, <3>4
    <3>5. CASE r \notin ToSet(order) /\ r = s
      <4>1. leased[s] # 0
        BY <1>6, <3>1, <3>5 DEF Known
      <4>2. \A n \in Nat : n # 0 => n > 0
        OBVIOUS
      <4> QED BY <1>7, <1>10, <3>5, <4>1, <4>2
    <3> QED BY <3>3, <3>4, <3>5
  <2> QED BY <2>1, <2>2 DEF NothingIsHoarded, Known
<1>28. LeasedStays
  <2>1. ASSUME NEW r \in Rooms, leases'[r] > 0, Known(r) PROVE r \in ToSet(order')
    <3>1. leased[r] # 0
      BY <1>7, <2>1
    <3> QED BY <1>11, <1>12, <2>1, <3>1 DEF Known
  <2>2. ASSUME NEW r \in Rooms, leases'[r] > 0 PROVE counters'[r] >= counters[r]
    <3>1. ~(rest /\ r = s)
      <4>1. rest /\ r = s => leases'[r] = 0
        BY <1>6, <1>7
      <4> QED BY <2>2, <4>1
    <3>2. counters'[r] = counters[r]
      BY <1>1, <1>7, <3>1 DEF MemoryTypes
    <3> QED BY <1>1, <3>2 DEF MemoryTypes
  <2> QED BY <2>1, <2>2 DEF LeasedStays
<1>29. Promised!ContractNext
  BY <1>13, RoomRests DEF Promised!ContractNext
<1> QED BY <1>23, <1>24, <1>25, <1>26, <1>27, <1>28, <1>29 DEF MemoryInv, MemoryPromise

(* The invariant is inductive, and every step keeps the promise.           *)
LEMMA MemoryStep == MemoryInv /\ MemoryNext => MemoryInv' /\ MemoryPromise
<1> SUFFICES ASSUME MemoryInv, MemoryNext PROVE MemoryInv' /\ MemoryPromise
  OBVIOUS
<1>1. ASSUME NEW t \in Tasks, NEW s \in Rooms,
             \/ Enter(t, s) \/ AppendOf(t, s) \/ CacheDialogueOf(t, s) \/ ClearOf(t, s)
             \/ \E k \in Ids : BeginRequestOf(t, s, k)
             \/ CompleteRequestOf(t, s) \/ FailRequestOf(t, s)
      PROVE  MemoryInv' /\ MemoryPromise
  BY <1>1, EnterKeeps, AppendKeeps, DialogueKeeps, ClearedKeeps, BeginsKeep, CompletesKeep, FailsKeep
<1>2. ASSUME NEW t \in Tasks, Acquired(t) \/ Left(t) PROVE MemoryInv' /\ MemoryPromise
  BY <1>2, AcquiredKeeps, LeftKeeps
<1>3. ASSUME MemoryTick \/ \E s \in Rooms : ReadTurns(s) PROVE MemoryInv' /\ MemoryPromise
  BY <1>3, ReadKeeps
<1> QED BY <1>1, <1>2, <1>3 DEF MemoryNext

(* A step that leaves the sessions of a process alone keeps the invariant. *)
LEMMA MemoryRests == MemoryInv /\ UNCHANGED memoryVars => MemoryInv'
<1> SUFFICES ASSUME MemoryInv, UNCHANGED memoryVars PROVE MemoryInv'
  OBVIOUS
<1>1. UNCHANGED <<order, data, locks, leases, waiters, holders, counters, tasks, drawn, time>>
  BY DEF memoryVars
<1>2. \A s \in Rooms : Busy(s)' = Busy(s) /\ Known(s)' = Known(s) /\ \A t \in Tasks : InSession(t, s)' = InSession(t, s)
  BY <1>1 DEF Busy, InSession, Known
<1>3. MemoryTypes' /\ RecordsFit' /\ QueuesFit'
  BY <1>1 DEF MemoryInv, MemoryTypes, RecordsFit, QueuesFit
<1>4. LeasesFit' /\ NothingIsHoarded'
  BY <1>1, <1>2 DEF MemoryInv, LeasesFit, NothingIsHoarded
<1> QED BY <1>3, <1>4 DEF MemoryInv

(* So does one that leaves the session in Redis alone.                     *)
LEMMA RedisRests == RedisInv /\ UNCHANGED redisVars => RedisInv'
BY DEF redisVars, dataVars, RedisInv, RedisTypes, TokensDiffer, CallFits, ClaimsAreOwn, OwnsLock

-----------------------------------------------------------------------------
(* The parts together                                                      *)

(* Nothing is promised of what nobody asked yet.                           *)
LEMMA ContractsBegin == PartsInit => Kept!ContractInit /\ Promised!ContractInit
<1> SUFFICES ASSUME PartsInit PROVE Kept!ContractInit /\ Promised!ContractInit
  OBVIOUS
<1>1. Kept!ContractInit
  BY DEF PartsInit, RedisInit, Kept!ContractInit, Kept!NoneHeard, Kept!Unheard, NoData, NoRecord, Due
<1>2. Promised!ContractInit
  <2>1. \A s \in Rooms : data[s].next = 1 /\ ToSet(data[s].entries) = {} /\ DOMAIN data[s].entries = {}
    BY DEF PartsInit, MemoryInit, NewSession, ToSet
  <2>2. \A s \in Rooms, k \in Ids : OfKey(data[s].entries, k) = {}
    BY <2>1 DEF OfKey
  <2>3. \A s \in Rooms : data[s].next - 1 = 0
    BY <2>1
  <2>4. \A s \in Rooms, k \in Ids : SaidOf(data[s].entries, k) = Promised!Unheard
    BY <2>2 DEF SaidOf, Promised!Unheard
  <2>5. \A s \in Rooms : {k \in Ids : \E i \in DOMAIN data[s].entries :
                             data[s].entries[i].key = k /\ data[s].entries[i].expires <= time} = {}
    BY <2>1
  <2> QED BY <2>3, <2>4, <2>5 DEF Promised!ContractInit, Promised!NoneHeard
<1> QED BY <1>1, <1>2

(* Both stores serialise the transactions of a session and keep what every *)
(* store promises of requests and turns: a record written belongs to its   *)
(* newest claim, a completed request is not claimed again while it is      *)
(* remembered, a turn comes with a completion, and nothing that somebody   *)
(* is in or waits for is evicted (session_store.py 329, 360, 480;          *)
(* redis_session_store.py).                                                *)
THEOREM StoresHold == PartsSpec => StoresKeepPromise
<1> DEFINE PartsInv == RedisInv /\ MemoryInv
           Promise == /\ part = "redis" => Kept!ContractNext /\ HoldersAreAlone
                      /\ part = "memory" => Promised!ContractNext /\ LeasedStays
<1>1. PartsInit => PartsInv /\ Kept!ContractInit /\ Promised!ContractInit
  BY RedisInitially, MemoryInitially, ContractsBegin DEF PartsInit
<1>2. PartsInv /\ PartsNext => PartsInv' /\ Promise
  <2> SUFFICES ASSUME PartsInv, PartsNext PROVE PartsInv' /\ Promise
    OBVIOUS
  <2>1. CASE part = "runs" /\ UNCHANGED <<redisVars, memoryVars>>
    BY <2>1, RedisRests, MemoryRests
  <2>2. CASE part = "redis" /\ RedisNext /\ UNCHANGED memoryVars
    BY <2>2, RedisStep, MemoryRests DEF RedisPromise
  <2>3. CASE part = "memory" /\ MemoryNext /\ UNCHANGED redisVars
    BY <2>3, MemoryStep, RedisRests DEF MemoryPromise
  <2> QED BY <2>1, <2>2, <2>3 DEF PartsNext
<1>3. PartsInv /\ UNCHANGED partsVars => PartsInv'
  BY RedisRests, MemoryRests DEF partsVars
<1>4. PartsInv => (part = "redis" => ClaimsAreOwn) /\ (part = "memory" => OneInside /\ NothingIsHoarded)
  BY MemorySafe DEF RedisInv
<1> QED BY <1>1, <1>2, <1>3, <1>4, PTL DEF PartsSpec, StoresKeepPromise
===============================================================================
