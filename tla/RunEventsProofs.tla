--------------------------- MODULE RunEventsProofs ---------------------------
(***************************************************************************)
(* What reaches a run's stream, for any number of runs, workers, clients,  *)
(* queue and batch sizes, faults and cancels.                              *)
(*                                                                         *)
(* An event is its execution's token and its number among the events that  *)
(* execution published.  The inductive invariant counts: of the nr events  *)
(* of the current execution the last ones are in the queue, the one before *)
(* them may be with the pump's task, and every entry of the stream is      *)
(* earlier; unless the pump has failed, none is missing.                   *)
(***************************************************************************)
EXTENDS RunEvents, RunRepositoryProofs, SequenceTheorems

(* Published and not yet stored.                                           *)
Pending(p) == Len(p.queue) + Len(p.busy)

(* Event number n of token t is the latest; the stream is st.              *)
Numbered(t, n, p, st) ==
  /\ Pending(p) <= n
  /\ \A i \in 1..Len(p.queue) :
       p.queue[i].token = t /\ p.queue[i].nr = n - Len(p.queue) + i
  /\ \A i \in 1..Len(p.busy) :
       p.busy[i].token = t /\ p.busy[i].nr = n - Len(p.queue)
  /\ \A i \in 1..Len(st) :
       st[i].token <= t /\ (st[i].token = t => st[i].nr <= n - Pending(p))

(* The stream ends with the first k events of token t and has no other.    *)
EndsWith(t, k, st) ==
  LET before == Len(st) - k IN
  /\ before >= 0
  /\ \A i \in 1..before : st[i].token # t
  /\ \A i \in 1..k : st[before + i].token = t /\ st[before + i].nr = i

Stored(t, n, p, st) == ~p.failed => EndsWith(t, n - Pending(p), st)

Ordered(st) ==
  \A i, j \in 1..Len(st) :
    i < j => \/ st[i].token < st[j].token
             \/ st[i].token = st[j].token /\ st[i].nr < st[j].nr

Says(s) == \E i \in 1..Len(s) : s[i].kind = "completed"

(* Nothing follows "completed", on its way or in the stream.               *)
SaysLast(p, st) ==
  /\ \A i \in 1..Len(p.queue) : p.queue[i].kind = "completed" => i = Len(p.queue)
  /\ Says(p.busy) => p.queue = <<>>
  /\ \A i \in 1..Len(st) : st[i].kind = "completed" => i = Len(st) /\ Pending(p) = 0

Answered == {"completed", "deleted"}
Over     == {"idle", "leaving", "closing", "reaping"}

(* No "completed" is on its way or stored.                                 *)
Silent(p, st) == ~Says(p.queue) /\ ~Says(p.busy) /\ ~Says(st)

(* Execution x, its pump p and the stream st.                              *)
FlowInv(x, p, st) ==
  /\ x.pc \in {"idle", "marking"} => p = NoPump
  /\ x.pc = "marking" => x.nr = 0
  /\ Numbered(x.token, x.nr, p, st)
  /\ x.pc # "idle" => Stored(x.token, x.nr, p, st)
  /\ Ordered(st)
  /\ SaysLast(p, st)
  /\ Silent(p, st) \/ x.pc \in Over

(* The execution and the run's row.                                        *)
RowInv(r) ==
  /\ run[r].status = "absent" => exec[r].token = 0 /\ exec[r].pc = "idle"
  /\ run[r].status # "absent" => exec[r].token <= session[Home(r)].fence
  /\ exec[r].pc # "idle" => exec[r].worker \in Workers /\ exec[r].token # 0
  /\ exec[r].pc = "recording" \/ ~Silent(pump[r], stream[r]) => run[r].status \in Answered

RunInv(r) == FlowInv(exec[r], pump[r], stream[r]) /\ RowInv(r)

EventInv == EventTypeOK /\ \A r \in Runs : RunInv(r)

---------------------------------------------------------------------------
(* Each step does to the tables what RepoSpec allows.                      *)

LEMMA WriteAllowed ==
  ASSUME EventInv, NEW r \in Runs,
         \/ exec[r].pc # "idle" /\ Write(r)
         \/ At(r, "marking") /\ MarkRunning(r, exec[r].worker, exec[r].token)
  PROVE  RepoNext
<1>1. /\ RepoTypeOK /\ exec[r] \in Exec
      /\ exec[r].pc # "idle" /\ exec[r].worker \in Workers /\ exec[r].token # 0
      /\ run[r].status # "absent" /\ exec[r].token <= session[Home(r)].fence
  BY DEF EventInv, EventTypeOK, RunInv, RowInv, At
<1>2. session[Home(r)].fence \in Nat BY <1>1, HomeIsASession DEF SessionRow
<1>3. exec[r].token \in 1..session[Home(r)].fence BY <1>1, <1>2 DEF Exec
<1>4. \/ MarkRunning(r, exec[r].worker, exec[r].token)
      \/ MarkWaitingInput(r, exec[r].worker, exec[r].token)
      \/ CompleteWithTurn(r, exec[r].worker, exec[r].token, exec[r].seen)
      => RepoNext
  BY <1>1, <1>3, OwnerCalls
<1>5. \/ MarkFailed(r, exec[r].worker)
      \/ MarkCancelled(r, exec[r].worker)
      \/ MarkInterrupted(r, exec[r].worker)
      => RepoNext
  BY <1>1 DEF RepoNext, RunNext
<1> QED BY <1>4, <1>5 DEF Write

LEMMA RowStepsAllowed == RowStep => FreeCall
<1>1. ASSUME NEW r \in Runs, MarkFailed(r, Nil) PROVE FreeCall BY <1>1 DEF FreeCall
<1> QED BY <1>1 DEF RowStep, FreeCall, SessionNext

LEMMA StepsAllowed ==
  ASSUME EventInv, [EventNext]_vars
  PROVE  [RepoNext]_repoVars
<1>1. CASE RowStep BY <1>1, RowStepsAllowed, FreeCallsAllowed
<1>2. CASE UNCHANGED vars BY <1>2 DEF vars, repoVars
<1>3. ASSUME NEW r \in Runs, NEW w \in Workers, Claim(r, w) PROVE RepoNext
  <2>1. run[r].status # "absent" BY <1>3 DEF Claim
  <2>2. Home(r) \in Sessions BY <2>1, HomeIsASession DEF EventInv, EventTypeOK
  <2> QED BY <1>3, <2>2 DEF Claim, Home, RepoNext, SessionNext
<1>4. ASSUME NEW r \in Runs, ExecStep(r) PROVE [RepoNext]_repoVars
  <2>1. CASE Begin(r) \/ Pause(r) \/ Commit(r)
    <3>1. exec[r].pc # "idle" BY <2>1 DEF Begin, Pause, Commit, At
    <3> QED BY <2>1, <3>1, WriteAllowed DEF Begin, Pause, Commit, At, Write
  <2>2. CASE Fail(r)
    <3>1. exec[r].pc # "idle" BY <2>2 DEF Fail
    <3>2. Write(r) \/ UNCHANGED repoVars BY <2>2 DEF Fail, Try
    <3> QED BY <3>1, <3>2, WriteAllowed
  <2>3. CASE CancelEnds(r)
    <3>1. exec[r].pc = "cancelling" BY <2>3 DEF CancelEnds, At
    <3>2. \/ MarkCancelled(r, exec[r].worker) \/ MarkInterrupted(r, exec[r].worker)
          \/ UNCHANGED repoVars
      BY <2>3 DEF CancelEnds, Try
    <3>3. Write(r) \/ UNCHANGED repoVars BY <3>1, <3>2 DEF Write, At
    <3> QED BY <3>1, <3>3, WriteAllowed
  <2>4. CASE \/ BeginRefused(r) \/ GraphEnds(r) \/ Refused(r) \/ Announce(r) \/ Close(r)
             \/ Flush(r, "pauseflush") \/ Flush(r, "leaving")
    BY <2>4 DEF BeginRefused, GraphEnds, Refused, Announce, Close, Flush, repoVars
  <2> QED BY <1>4, <2>1, <2>2, <2>3, <2>4 DEF ExecStep
<1>5. ASSUME NEW r \in Runs, Accident(r) PROVE [RepoNext]_repoVars
  <2>1. CASE BeginBreaks(r)
    BY <2>1, WriteAllowed DEF BeginBreaks, At
  <2>2. CASE CallFails(r) \/ CancelAtAwait(r)
    BY <2>2, WriteAllowed DEF CallFails, CancelAtAwait
  <2>3. CASE CancelPump(r) \/ Crash(r) \/ PumpFails(r)
    BY <2>3 DEF CancelPump, Crash, PumpFails, repoVars
  <2> QED BY <1>5, <2>1, <2>2, <2>3 DEF Accident
<1>6. ASSUME NEW r \in Runs, GraphEvent(r) \/ PumpStep(r) \/ Expire(r) PROVE UNCHANGED repoVars
  BY <1>6 DEF GraphEvent, PumpStep, PumpTakes, PumpStores, Expire, repoVars
<1>7. ASSUME NEW r \in Runs, NEW c \in Clients,
             Connect(r, c) \/ SubStep(r, c) \/ StreamFails(r, c) \/ Disconnect(r, c)
      PROVE  UNCHANGED repoVars
  BY <1>7 DEF Connect, SubStep, Read, Look, Wait, StreamFails, Disconnect, SetSub, repoVars
<1> QED BY <1>1, <1>2, <1>3, <1>4, <1>5, <1>6, <1>7 DEF EventNext

---------------------------------------------------------------------------
(* Events on their way.                                                    *)

PumpType(p) == p \in Pump /\ Len(p.queue) <= MaxQueue /\ Len(p.busy) <= 1

LEMMA NoPumpType == PumpType(NoPump) /\ NoPump.queue = <<>> /\ NoPump.busy = <<>> /\ ~NoPump.failed
BY MaxQueueAssumption DEF PumpType, NoPump, Pump

LEMMA PumpFacts ==
  ASSUME NEW p, PumpType(p)
  PROVE  /\ p.queue \in Seq(Event) /\ p.busy \in Seq(Event)
         /\ \E lq \in Nat, lb \in {0, 1} :
              Len(p.queue) = lq /\ Len(p.busy) = lb /\ Pending(p) = lq + lb
<1>1. p.queue \in Seq(Event) /\ p.busy \in Seq(Event) BY DEF PumpType, Pump
<1>2. PICK lq \in Nat : Len(p.queue) = lq BY <1>1, LenProperties
<1>3. PICK lb \in Nat : Len(p.busy) = lb BY <1>1, LenProperties
<1>4. lb <= 1 BY <1>3 DEF PumpType
<1>5. lb \in {0, 1} BY <1>4
<1> QED BY <1>1, <1>2, <1>3, <1>5 DEF Pending

LEMMA StreamFacts ==
  ASSUME NEW st \in Seq(Event)
  PROVE  /\ \E l \in Nat : Len(st) = l
         /\ \A i \in 1..Len(st) : st[i].token \in Nat /\ st[i].nr \in Nat
<1>1. Len(st) \in Nat BY LenProperties
<1>2. \A i \in 1..Len(st) : st[i] \in Event BY ElementOfSeq
<1> QED BY <1>1, <1>2 DEF Event

LEMMA SilentLast ==
  ASSUME NEW p, NEW st, Silent(p, st)
  PROVE  SaysLast(p, st)
BY DEF Silent, SaysLast, Says

(* A publication queues its event, or the pump has failed.                 *)
LEMMA PutAdds ==
  ASSUME NEW p, PumpType(p), NEW e \in Event
  PROVE  /\ PumpType(Put(p, e))
         /\ Put(p, e).busy = p.busy
         /\ \/ /\ ~p.failed /\ ~Put(p, e).failed
               /\ Put(p, e).queue = Append(p.queue, e)
            \/ Put(p, e).failed /\ Put(p, e).queue = p.queue
<1>0. p \in Pump /\ p.queue \in Seq(Event) /\ Len(p.queue) \in Nat BY DEF PumpType, Pump
<1>1. CASE p.failed BY <1>0, <1>1 DEF Put, Pump, PumpType
<1>2. CASE ~p.failed /\ Len(p.queue) = MaxQueue BY <1>0, <1>2 DEF Put, Pump, PumpType
<1>3. CASE ~p.failed /\ Len(p.queue) # MaxQueue
  <2>1. Put(p, e) = [p EXCEPT !.queue = Append(p.queue, e)] BY <1>3 DEF Put
  <2>2. Append(p.queue, e) \in Seq(Event) /\ Len(Append(p.queue, e)) = Len(p.queue) + 1
    BY <1>0, AppendProperties
  <2>3. /\ Put(p, e).queue = Append(p.queue, e)
        /\ Put(p, e).busy = p.busy
        /\ Put(p, e).failed = p.failed
        /\ Put(p, e) \in Pump
    BY <1>0, <2>1, <2>2 DEF Pump
  <2>4. Len(p.queue) + 1 <= MaxQueue BY <1>0, <1>3, MaxQueueAssumption DEF PumpType
  <2> QED BY <1>3, <2>2, <2>3, <2>4 DEF PumpType
<1> QED BY <1>1, <1>2, <1>3

(* Event e is number n + 1 of token t, if pump p takes it.                 *)
Follows(e, t, n, p) == p.failed \/ (e.token = t /\ e.nr = n + 1)

(* From pump p after n events to pump q after m.                           *)
Adds(t, n, p, m, q, st) ==
  /\ PumpType(q)
  /\ m = n + Len(q.queue) - Len(p.queue)
  /\ Numbered(t, m, q, st)
  /\ Stored(t, n, p, st) => Stored(t, m, q, st)

(* The next event of an execution keeps the count.                         *)
LEMMA PutKeeps ==
  ASSUME NEW t \in Nat, NEW n \in Nat, NEW p, PumpType(p), NEW st \in Seq(Event),
         NEW e \in Event, Follows(e, t, n, p), Numbered(t, n, p, st),
         NEW q, q = Put(p, e)
  PROVE  /\ \E m \in Nat : Adds(t, n, p, m, q, st) /\ (q.failed \/ m = n + 1)
         /\ Silent(p, st) => SaysLast(q, st)
         /\ Silent(p, st) /\ e.kind # "completed" => Silent(q, st)
<1>0. /\ p.queue \in Seq(Event) /\ q.queue \in Seq(Event)
      /\ PumpType(q) /\ q.busy = p.busy
  <2>1. PumpType(q) /\ q.busy = p.busy BY PutAdds
  <2> QED BY <2>1, PumpFacts
<1>a. PICK lq \in Nat, lb \in {0, 1} :
        Len(p.queue) = lq /\ Len(p.busy) = lb /\ Pending(p) = lq + lb
  BY PumpFacts
<1>b. PICK kq \in Nat : Len(q.queue) = kq BY <1>0, LenProperties
<1>c. PICK m \in Int : m = n + kq - lq OBVIOUS
<1>d. m = n + Len(q.queue) - Len(p.queue) BY <1>a, <1>b, <1>c
<1>1. CASE q.failed /\ q.queue = p.queue
  <2>1. m = n
    <3>1. kq = lq BY <1>1, <1>a, <1>b
    <3> QED BY <1>c, <3>1
  <2>2. Pending(q) = Pending(p) BY <1>0, <1>1 DEF Pending
  <2>3. Numbered(t, m, q, st)
    <3>1. q.queue = p.queue /\ q.busy = p.busy /\ m = n BY <1>0, <1>1, <2>1
    <3> QED BY <2>2, <3>1 DEF Numbered
  <2>4. Stored(t, m, q, st) BY <1>1 DEF Stored
  <2>5. Silent(p, st) => Silent(q, st) BY <1>0, <1>1 DEF Silent
  <2> QED BY <1>0, <1>1, <1>d, <2>1, <2>3, <2>4, <2>5, SilentLast DEF Adds
<1>2. CASE ~p.failed /\ ~q.failed /\ q.queue = Append(p.queue, e)
  <2>1. /\ Len(q.queue) = lq + 1
        /\ \A i \in 1..lq : q.queue[i] = p.queue[i]
        /\ q.queue[lq + 1] = e
    <3>1. /\ Len(q.queue) = Len(p.queue) + 1
          /\ \A i \in 1..Len(p.queue) : q.queue[i] = p.queue[i]
          /\ q.queue[Len(p.queue) + 1] = e
      BY <1>0, <1>2, AppendProperties
    <3> QED BY <1>a, <3>1
  <2>2. m = n + 1 /\ m \in Nat
    <3>1. kq = lq + 1 BY <1>b, <2>1
    <3> QED BY <1>c, <3>1
  <2>3. Pending(q) = lq + lb + 1 BY <1>0, <1>a, <2>1 DEF Pending
  <2>4. e.token = t /\ e.nr = n + 1 BY <1>2 DEF Follows
  <2>5. lq + lb <= n BY <1>a DEF Numbered
  <2>6. Numbered(t, m, q, st)
    <3>1. lq + lb + 1 <= n + 1 BY <2>5
    <3>2. ASSUME NEW i \in 1..(lq + 1)
          PROVE  q.queue[i].token = t /\ q.queue[i].nr = n - lq + i
      <4>1. CASE i = lq + 1
        <5>1. n - lq + i = n + 1 BY <4>1
        <5> QED BY <2>1, <2>4, <4>1, <5>1
      <4>2. CASE i # lq + 1
        <5>1. i \in 1..lq BY <4>2
        <5> QED BY <1>a, <2>1, <5>1 DEF Numbered
      <4> QED BY <4>1, <4>2
    <3>3. m - Len(q.queue) = n - lq /\ m - Pending(q) = n - Pending(p)
      <4>1. m - (lq + 1) = n - lq BY <2>2
      <4>2. m - (lq + lb + 1) = n - (lq + lb) BY <2>2
      <4>3. Len(q.queue) = lq + 1 BY <2>1
      <4> QED BY <1>a, <2>3, <4>1, <4>2, <4>3
    <3>4. /\ Pending(q) <= m
          /\ \A i \in 1..Len(q.queue) :
               q.queue[i].token = t /\ q.queue[i].nr = m - Len(q.queue) + i
      BY <2>1, <2>2, <2>3, <3>1, <3>2, <3>3
    <3> QED BY <1>0, <1>a, <3>3, <3>4 DEF Numbered
  <2>7. m - Pending(q) = n - Pending(p) BY <1>a, <2>2, <2>3
  <2>8. Stored(t, n, p, st) => Stored(t, m, q, st) BY <1>2, <2>7 DEF Stored
  <2>9. ASSUME Silent(p, st)
        PROVE  \A i \in 1..Len(q.queue) : q.queue[i].kind = "completed" => i = lq + 1 /\ q.queue[i] = e
    <3> SUFFICES ASSUME NEW i \in 1..(lq + 1), i # lq + 1 PROVE q.queue[i].kind # "completed"
      BY <2>1
    <3>1. i \in 1..lq OBVIOUS
    <3> QED BY <1>a, <2>1, <2>9, <3>1 DEF Silent, Says
  <2>10. Silent(p, st) => SaysLast(q, st)
    BY <1>0, <2>1, <2>9 DEF Silent, Says, SaysLast
  <2>11. Silent(p, st) /\ e.kind # "completed" => Silent(q, st)
    BY <1>0, <2>9 DEF Silent, Says
  <2> QED BY <1>0, <1>d, <2>2, <2>6, <2>8, <2>10, <2>11 DEF Adds
<1> QED BY <1>1, <1>2, PutAdds

LEMMA AddsTwice ==
  ASSUME NEW t, NEW st, NEW n \in Nat, NEW p, PumpType(p), NEW i \in Nat, NEW q, NEW m \in Nat, NEW w,
         Adds(t, n, p, i, q, st), Adds(t, i, q, m, w, st)
  PROVE  Adds(t, n, p, m, w, st)
<1>1. PumpType(q) /\ PumpType(w) BY DEF Adds
<1>2. PICK a \in Nat, b \in Nat, c \in Nat :
        Len(p.queue) = a /\ Len(q.queue) = b /\ Len(w.queue) = c
  BY <1>1, PumpFacts
<1>3. i = n + b - a /\ m = i + c - b BY <1>2 DEF Adds
<1>4. m = n + c - a BY <1>3
<1> QED BY <1>2, <1>4 DEF Adds

(* An entry added to the stream: the one the pump's task holds.            *)
LEMMA StoreKeeps ==
  ASSUME NEW t \in Nat, NEW n \in Nat, NEW p, PumpType(p), NEW st \in Seq(Event),
         Numbered(t, n, p, st), Ordered(st), SaysLast(p, st), p.busy # <<>>,
         NEW q, PumpType(q), q.busy = <<>>,
         q.queue = p.queue \/ q.queue = <<>>
  PROVE  /\ st \o p.busy \in Seq(Event)
         /\ Numbered(t, n, q, st \o p.busy) /\ Ordered(st \o p.busy)
         /\ SaysLast(q, st \o p.busy)
         /\ Stored(t, n, p, st) /\ ~p.failed /\ q.queue = p.queue =>
              Stored(t, n, q, st \o p.busy)
         /\ Says(q.queue) \/ Says(q.busy) \/ Says(st \o p.busy) => ~Silent(p, st)
<1> DEFINE new == st \o p.busy
           e == p.busy[1]
<1>0. p.queue \in Seq(Event) /\ p.busy \in Seq(Event) BY PumpFacts
<1>a. PICK lq \in Nat, lb \in {0, 1} :
        Len(p.queue) = lq /\ Len(p.busy) = lb /\ Pending(p) = lq + lb
  BY PumpFacts
<1>b. lb = 1 BY <1>0, <1>a, EmptySeq
<1>c. Len(p.busy) = 1 /\ Pending(p) = lq + 1 BY <1>a, <1>b
<1>d. PICK kq \in Nat, kb \in {0, 1} :
        Len(q.queue) = kq /\ Len(q.busy) = kb /\ Pending(q) = kq + kb
  BY PumpFacts
<1>e. kb = 0 /\ Pending(q) = kq
  <2>1. kb = 0 BY <1>d, EmptySeq
  <2> QED BY <1>d, <2>1
<1>f. kq <= lq /\ (q.queue = p.queue => kq = lq)
  <2>1. CASE q.queue = p.queue BY <1>a, <1>d, <2>1
  <2>2. CASE q.queue = <<>>
    <3>1. kq = 0 BY <1>d, <2>2, EmptySeq
    <3> QED BY <1>a, <1>d, <2>2, <3>1
  <2> QED BY <2>1, <2>2
<1>g. PICK l \in Nat : Len(st) = l BY StreamFacts
<1>h. \A i \in 1..l : st[i] \in Event BY <1>g, ElementOfSeq
<1>1. /\ new \in Seq(Event) /\ Len(new) = l + 1
      /\ \A i \in 1..l : new[i] = st[i]
      /\ new[l + 1] = e /\ e \in Event
  <2>1. new \in Seq(Event) /\ Len(new) = Len(st) + Len(p.busy) BY <1>0, ConcatProperties
  <2>2. \A i \in 1..(Len(st) + Len(p.busy)) :
          new[i] = IF i <= Len(st) THEN st[i] ELSE p.busy[i - Len(st)]
    BY <1>0, ConcatProperties
  <2>3. \A i \in 1..(l + 1) : new[i] = IF i <= l THEN st[i] ELSE p.busy[i - l]
    BY <1>c, <1>g, <2>2
  <2>4. Len(new) = l + 1 BY <1>c, <1>g, <2>1
  <2>5. PICK j \in 1..(l + 1) : j = l + 1 /\ ~(j <= l) /\ j - l = 1 OBVIOUS
  <2>6. \A i \in 1..l : i \in 1..(l + 1) /\ i <= l OBVIOUS
  <2>7. e \in Event BY <1>0, <1>c, ElementOfSeq
  <2>8. new[l + 1] = e BY <2>3, <2>5
  <2>9. \A i \in 1..l : new[i] = st[i] BY <2>3, <2>6
  <2> QED BY <2>1, <2>4, <2>7, <2>8, <2>9
<1>2. e.token = t /\ e.nr = n - lq BY <1>a, <1>c DEF Numbered
<1>i. lq + 1 <= n BY <1>c DEF Numbered
<1>j. \A i \in 1..l : st[i].token <= t /\ (st[i].token = t => st[i].nr <= n - (lq + 1))
  BY <1>c, <1>g DEF Numbered
<1>k. \A i \in 1..(l + 1) : i = l + 1 \/ i \in 1..l OBVIOUS
<1> HIDE DEF new, e
<1>4. Numbered(t, n, q, new)
  <2>1. \A i \in 1..Len(q.queue) : q.queue[i].token = t /\ q.queue[i].nr = n - Len(q.queue) + i
    <3>1. CASE q.queue = p.queue BY <3>1 DEF Numbered
    <3>2. CASE q.queue = <<>> BY <3>2
    <3> QED BY <3>1, <3>2
  <2>2. ASSUME NEW i \in 1..(l + 1)
        PROVE  new[i].token <= t /\ (new[i].token = t => new[i].nr <= n - kq)
    <3>1. CASE i = l + 1 BY <1>1, <1>2, <1>f, <3>1
    <3>2. CASE i \in 1..l
      <4>1. new[i] = st[i] /\ st[i].nr \in Nat BY <1>1, <1>h, <3>2 DEF Event
      <4>2. st[i].token <= t /\ (st[i].token = t => st[i].nr <= n - (lq + 1)) BY <1>j, <3>2
      <4>3. n - (lq + 1) <= n - kq BY <1>f
      <4>4. st[i].nr <= n - (lq + 1) => st[i].nr <= n - kq
        BY <4>1, <4>3
      <4> QED BY <4>1, <4>2, <4>4
    <3> QED BY <1>k, <3>1, <3>2
  <2>3. kq <= n BY <1>f, <1>i
  <2>4. \A i \in 1..Len(q.busy) : q.busy[i].token = t /\ q.busy[i].nr = n - Len(q.queue)
    BY <1>d, <1>e
  <2> QED BY <1>1, <1>d, <1>e, <2>1, <2>2, <2>3, <2>4 DEF Numbered
<1>5. Ordered(new)
  <2> SUFFICES ASSUME NEW i \in 1..(l + 1), NEW j \in 1..(l + 1), i < j
               PROVE  \/ new[i].token < new[j].token
                      \/ new[i].token = new[j].token /\ new[i].nr < new[j].nr
    BY <1>1 DEF Ordered
  <2>1. i \in 1..l OBVIOUS
  <2>2. new[i] = st[i] /\ st[i].token \in Nat /\ st[i].nr \in Nat
    BY <1>1, <1>h, <2>1 DEF Event
  <2>3. CASE j = l + 1
    <3>1. st[i].token <= t /\ (st[i].token = t => st[i].nr <= n - (lq + 1)) BY <1>j, <2>1
    <3>2. new[j].token = t /\ new[j].nr = n - lq BY <1>1, <1>2, <2>3
    <3>3. PICK a \in Nat, b \in Nat : a = st[i].token /\ b = st[i].nr BY <2>2
    <3>4. a <= t /\ (a = t => b <= n - (lq + 1)) BY <3>1, <3>3
    <3>5. a < t \/ (a = t /\ b < n - lq) BY <3>4
    <3> QED BY <2>2, <3>2, <3>3, <3>5
  <2>4. CASE j \in 1..l
    <3>1. new[j] = st[j] BY <1>1, <2>4
    <3> QED BY <1>g, <2>1, <2>2, <2>4, <3>1 DEF Ordered
  <2> QED BY <1>k, <2>3, <2>4
<1>6. SaysLast(q, new)
  <2>1. ASSUME NEW i \in 1..(l + 1), new[i].kind = "completed"
        PROVE  i = l + 1 /\ Pending(q) = 0
    <3>1. CASE i = l + 1
      <4>1. Says(p.busy) BY <1>1, <1>c, <2>1, <3>1 DEF Says, e
      <4>2. p.queue = <<>> BY <4>1 DEF SaysLast
      <4>3. lq = 0 BY <1>a, <4>2, EmptySeq
      <4>4. kq = 0 BY <1>f, <4>3
      <4> QED BY <1>e, <3>1, <4>4
    <3>2. CASE i \in 1..l
      <4>1. new[i] = st[i] BY <1>1, <3>2
      <4>2. Pending(p) = 0 BY <1>g, <2>1, <3>2, <4>1 DEF SaysLast
      <4>3. lq + 1 = 0 BY <1>c, <4>2
      <4> QED BY <4>3
    <3> QED BY <1>k, <3>1, <3>2
  <2>2. ~Says(q.busy) BY <1>d, <1>e DEF Says
  <2>3. \A i \in 1..Len(q.queue) : q.queue[i].kind = "completed" => i = Len(q.queue)
    <3>1. CASE q.queue = p.queue BY <3>1 DEF SaysLast
    <3>2. CASE q.queue = <<>> BY <3>2
    <3> QED BY <3>1, <3>2
  <2> QED BY <1>1, <2>1, <2>2, <2>3 DEF SaysLast
<1>7. ASSUME Stored(t, n, p, st), ~p.failed, q.queue = p.queue
      PROVE  Stored(t, n, q, new)
  <2>1. PICK k \in Nat : k = n - (lq + 1) BY <1>i
  <2>2. kq = lq /\ n - Pending(q) = k + 1 /\ n - Pending(p) = k
    BY <1>7, <1>a, <1>c, <1>e, <1>f, <2>1
  <2>3. EndsWith(t, k, st) BY <1>7, <2>2 DEF Stored
  <2>4. /\ k <= l
        /\ \A i \in 1..(l - k) : st[i].token # t
        /\ \A i \in 1..k : st[l - k + i].token = t /\ st[l - k + i].nr = i
    BY <1>g, <2>3 DEF EndsWith
  <2>5. EndsWith(t, k + 1, new)
    <3>1. Len(new) - (k + 1) = l - k /\ l - k >= 0 BY <1>1, <2>4
    <3>2. \A i \in 1..(l - k) : new[i].token # t
      <4>1. \A i \in 1..(l - k) : i \in 1..l OBVIOUS
      <4> QED BY <1>1, <2>4, <4>1
    <3>3. ASSUME NEW i \in 1..(k + 1)
          PROVE  new[l - k + i].token = t /\ new[l - k + i].nr = i
      <4>1. CASE i = k + 1
        <5>1. l - k + i = l + 1 BY <4>1
        <5>2. e.nr = i BY <1>2, <2>1, <4>1
        <5> QED BY <1>1, <1>2, <5>1, <5>2
      <4>2. CASE i # k + 1
        <5>1. i \in 1..k /\ l - k + i \in 1..l BY <2>4, <4>2
        <5> QED BY <1>1, <2>4, <5>1
      <4> QED BY <4>1, <4>2
    <3> QED BY <3>1, <3>2, <3>3 DEF EndsWith
  <2> QED BY <2>2, <2>5 DEF Stored
<1>8. ASSUME Says(q.queue) \/ Says(q.busy) \/ Says(new) PROVE ~Silent(p, st)
  <2>1. ~Says(q.busy) BY <1>d, <1>e DEF Says
  <2>2. CASE Says(q.queue)
    <3>1. q.queue = p.queue
      <4>1. CASE q.queue = <<>>
        <5>1. kq = 0 BY <1>d, <4>1, EmptySeq
        <5> QED BY <1>d, <2>2, <5>1 DEF Says
      <4> QED BY <4>1
    <3> QED BY <2>2, <3>1 DEF Silent
  <2>3. CASE Says(new)
    <3>1. PICK i \in 1..(l + 1) : new[i].kind = "completed" BY <1>1, <2>3 DEF Says
    <3>2. CASE i = l + 1 BY <1>1, <1>c, <3>1, <3>2 DEF Silent, Says, e
    <3>3. CASE i \in 1..l BY <1>1, <1>g, <3>1, <3>3 DEF Silent, Says
    <3> QED BY <1>k, <3>2, <3>3
  <2> QED BY <1>8, <2>1, <2>2, <2>3
<1> QED BY <1>1, <1>4, <1>5, <1>6, <1>7, <1>8 DEF new

(* The pump's task has taken the oldest event; it is done with it.         *)
Taken(p)      == [p EXCEPT !.queue = Tail(@), !.busy = <<Head(p.queue)>>]
Emptied(p, b) == [p EXCEPT !.busy = <<>>, !.failed = b]

LEMMA EmptiedType ==
  ASSUME NEW p, PumpType(p), NEW b \in BOOLEAN
  PROVE  /\ PumpType(Emptied(p, b)) /\ Emptied(p, b).busy = <<>>
         /\ Emptied(p, b).queue = p.queue /\ Emptied(p, b).failed = b
<1>1. p \in Pump /\ Len(p.queue) <= MaxQueue BY DEF PumpType
<1>2. /\ Emptied(p, b) \in Pump /\ Emptied(p, b).busy = <<>>
      /\ Emptied(p, b).queue = p.queue /\ Emptied(p, b).failed = b
  <2>1. /\ [p EXCEPT !.busy = <<>>, !.failed = TRUE] \in Pump
        /\ [p EXCEPT !.busy = <<>>, !.failed = FALSE] \in Pump
    BY <1>1, EmptySeq DEF Pump
  <2>2. Emptied(p, TRUE).failed /\ ~Emptied(p, FALSE).failed
    BY <1>1 DEF Emptied, Pump
  <2>3. Emptied(p, b).busy = <<>> /\ Emptied(p, b).queue = p.queue
    BY <1>1 DEF Emptied, Pump
  <2>4. CASE b = TRUE BY <2>1, <2>2, <2>3, <2>4 DEF Emptied
  <2>5. CASE b = FALSE BY <2>1, <2>2, <2>3, <2>5 DEF Emptied
  <2> QED BY <2>4, <2>5
<1> QED BY <1>1, <1>2 DEF PumpType

(* The pump's task takes the oldest event.                                 *)
LEMMA TakeKeeps ==
  ASSUME NEW t \in Nat, NEW n \in Nat, NEW p, PumpType(p), NEW st \in Seq(Event),
         p.queue # <<>>, p.busy = <<>>,
         NEW q, q = Taken(p),
         Numbered(t, n, p, st), SaysLast(p, st)
  PROVE  /\ PumpType(q) /\ Numbered(t, n, q, st) /\ SaysLast(q, st)
         /\ Stored(t, n, p, st) => Stored(t, n, q, st)
         /\ Silent(p, st) => Silent(q, st)
<1>0. p \in Pump /\ p.queue \in Seq(Event) /\ p.busy \in Seq(Event)
  BY PumpFacts DEF PumpType
<1>a. PICK lq \in Nat, lb \in {0, 1} :
        Len(p.queue) = lq /\ Len(p.busy) = lb /\ Pending(p) = lq + lb
  BY PumpFacts
<1>b. lb = 0 BY <1>a, EmptySeq
<1>c. PICK k \in Nat : lq = k + 1
  <2>1. lq # 0 BY <1>0, <1>a, EmptySeq
  <2>2. lq - 1 \in Nat /\ lq = (lq - 1) + 1 BY <2>1
  <2> QED BY <2>2
<1>d. /\ Tail(p.queue) \in Seq(Event) /\ Len(Tail(p.queue)) = k
      /\ \A i \in 1..k : Tail(p.queue)[i] = p.queue[i + 1]
      /\ Head(p.queue) = p.queue[1] /\ Head(p.queue) \in Event
  <2>1. /\ Tail(p.queue) \in Seq(Event) /\ Len(Tail(p.queue)) = Len(p.queue) - 1
        /\ \A i \in 1..Len(Tail(p.queue)) : Tail(p.queue)[i] = p.queue[i + 1]
        /\ Head(p.queue) = p.queue[1] /\ Head(p.queue) \in Event
    BY <1>0, HeadTailProperties
  <2>2. Len(Tail(p.queue)) = k BY <1>a, <1>c, <2>1
  <2> QED BY <2>1, <2>2
<1>1. /\ q \in Pump /\ q.queue = Tail(p.queue) /\ q.busy = <<p.queue[1]>>
      /\ q.failed = p.failed
  <2>1. p.queue[1] \in Event BY <1>d
  <2>2. <<p.queue[1]>> \in Seq(Event) BY <2>1
  <2>3. q = [p EXCEPT !.queue = Tail(p.queue), !.busy = <<p.queue[1]>>] BY <1>d DEF Taken
  <2> QED BY <1>0, <1>d, <2>2, <2>3 DEF Pump
<1>2. /\ Len(q.queue) = k /\ Len(q.busy) = 1 /\ q.busy[1] = p.queue[1]
      /\ \A i \in 1..k : q.queue[i] = p.queue[i + 1]
      /\ Pending(q) = k + 1 /\ Pending(p) = k + 1
  <2>1. /\ Len(q.queue) = k /\ Len(q.busy) = 1 /\ q.busy[1] = p.queue[1]
        /\ \A i \in 1..k : q.queue[i] = p.queue[i + 1]
    BY <1>1, <1>d
  <2>2. Pending(q) = k + 1 BY <2>1 DEF Pending
  <2>3. lq + lb = k + 1 BY <1>b, <1>c
  <2> QED BY <1>a, <2>1, <2>2, <2>3
<1>3. PumpType(q)
  <2>1. k + 1 <= MaxQueue BY <1>a, <1>c DEF PumpType
  <2>2. k <= MaxQueue BY <2>1, MaxQueueAssumption
  <2> QED BY <1>1, <1>2, <2>2 DEF PumpType
<1>4. /\ \A i \in 1..(k + 1) : p.queue[i].token = t /\ p.queue[i].nr = n - (k + 1) + i
      /\ k + 1 <= n
  BY <1>a, <1>c, <1>2 DEF Numbered
<1>5. Numbered(t, n, q, st)
  <2>1. ASSUME NEW i \in 1..k PROVE q.queue[i].token = t /\ q.queue[i].nr = n - k + i
    <3>1. PICK j \in 1..(k + 1) : j = i + 1 OBVIOUS
    <3>2. n - (k + 1) + j = n - k + i BY <3>1
    <3> QED BY <1>2, <1>4, <3>1, <3>2
  <2>2. q.busy[1].token = t /\ q.busy[1].nr = n - k
    <3>1. PICK j \in 1..(k + 1) : j = 1 OBVIOUS
    <3>2. n - (k + 1) + j = n - k BY <3>1
    <3> QED BY <1>2, <1>4, <3>1, <3>2
  <2>3. \A i \in 1..1 : i = 1 OBVIOUS
  <2> QED BY <1>2, <1>4, <2>1, <2>2, <2>3 DEF Numbered
<1>6. SaysLast(q, st)
  <2>0. \A i \in 1..(k + 1) : p.queue[i].kind = "completed" => i = k + 1
    BY <1>a, <1>c DEF SaysLast
  <2>1. ASSUME NEW i \in 1..k, q.queue[i].kind = "completed" PROVE i = k
    <3>1. PICK j \in 1..(k + 1) : j = i + 1 OBVIOUS
    <3>2. j = k + 1 BY <1>2, <2>0, <2>1, <3>1
    <3> QED BY <3>1, <3>2
  <2>2. Says(q.busy) => q.queue = <<>>
    <3>1. ASSUME Says(q.busy) PROVE q.queue = <<>>
      <4>1. PICK j \in 1..(k + 1) : j = 1 OBVIOUS
      <4>2. \A i \in 1..1 : i = 1 OBVIOUS
      <4>3. p.queue[1].kind = "completed" BY <1>2, <3>1, <4>2 DEF Says
      <4>4. j = k + 1 BY <2>0, <4>1, <4>3
      <4>5. k = 0 BY <4>1, <4>4
      <4> QED BY <1>1, <1>d, <4>5, EmptySeq
    <3> QED BY <3>1
  <2> QED BY <1>2, <2>1, <2>2 DEF SaysLast
<1>7. Stored(t, n, p, st) => Stored(t, n, q, st) BY <1>1, <1>2 DEF Stored
<1>8. ASSUME Silent(p, st) PROVE Silent(q, st)
  <2>0. \A i \in 1..(k + 1) : p.queue[i].kind # "completed"
    BY <1>a, <1>c, <1>8 DEF Silent, Says
  <2>1. \A i \in 1..k : i + 1 \in 1..(k + 1) OBVIOUS
  <2>2. 1 \in 1..(k + 1) /\ \A i \in 1..1 : i = 1 OBVIOUS
  <2>3. ~Says(q.queue)
    <3>1. ASSUME NEW i \in 1..k PROVE q.queue[i].kind # "completed"
      <4>1. PICK j \in 1..(k + 1) : j = i + 1 BY <2>1
      <4> QED BY <1>2, <2>0, <3>1, <4>1
    <3> QED BY <1>2, <3>1 DEF Says
  <2>4. ~Says(q.busy)
    <3>1. q.busy[1].kind # "completed" BY <1>2, <2>0, <2>2
    <3> QED BY <1>2, <2>2, <3>1 DEF Says
  <2> QED BY <1>8, <2>3, <2>4 DEF Silent
<1> QED BY <1>3, <1>5, <1>6, <1>7, <1>8

(* Events that are gone before they were stored.                           *)
LEMMA DropKeeps ==
  ASSUME NEW t \in Nat, NEW n \in Nat, NEW p, PumpType(p), NEW st \in Seq(Event),
         NEW q, PumpType(q), q.busy = <<>>, q.queue = p.queue \/ q.queue = <<>>,
         Numbered(t, n, p, st), SaysLast(p, st)
  PROVE  Numbered(t, n, q, st) /\ SaysLast(q, st) /\ (Silent(p, st) => Silent(q, st))
<1>a. PICK lq \in Nat, lb \in {0, 1} :
        Len(p.queue) = lq /\ Len(p.busy) = lb /\ Pending(p) = lq + lb
  BY PumpFacts
<1>b. PICK kq \in Nat, kb \in {0, 1} :
        Len(q.queue) = kq /\ Len(q.busy) = kb /\ Pending(q) = kq + kb
  BY PumpFacts
<1>c. kb = 0 BY <1>b, EmptySeq
<1>d. kq <= lq
  <2>1. CASE q.queue = p.queue BY <1>a, <1>b, <2>1
  <2>2. CASE q.queue = <<>>
    <3>1. kq = 0 BY <1>b, <2>2, EmptySeq
    <3> QED BY <3>1
  <2> QED BY <2>1, <2>2
<1>e. PICK k \in Nat, l \in Nat : k = lq + lb /\ l = kq + kb /\ l <= k BY <1>c, <1>d
<1>f. k <= n BY <1>a, <1>e DEF Numbered
<1>1. \A i \in 1..Len(q.queue) : q.queue[i].token = t /\ q.queue[i].nr = n - Len(q.queue) + i
  <2>1. CASE q.queue = p.queue BY <2>1 DEF Numbered
  <2>2. CASE q.queue = <<>> BY <2>2
  <2> QED BY <2>1, <2>2
<1>2. ASSUME NEW i \in 1..Len(st), st[i].token = t PROVE st[i].nr <= n - l
  <2>1. PICK m \in Nat : st[i].nr = m BY StreamFacts
  <2>2. m <= n - k BY <1>2, <1>a, <1>e, <2>1 DEF Numbered
  <2>3. m <= n - l BY <1>e, <2>2
  <2> QED BY <2>1, <2>3
<1>3. l <= n BY <1>e, <1>f
<1>4. Numbered(t, n, q, st)
  <2>1. \A i \in 1..Len(q.busy) : q.busy[i].token = t /\ q.busy[i].nr = n - Len(q.queue)
    BY <1>b, <1>c
  <2>2. Pending(q) = l BY <1>b, <1>e
  <2> QED BY <1>1, <1>2, <1>3, <2>1, <2>2 DEF Numbered
<1>5. SaysLast(q, st)
  <2>1. ~Says(q.busy) BY <1>b, <1>c DEF Says
  <2>2. \A i \in 1..Len(q.queue) : q.queue[i].kind = "completed" => i = Len(q.queue)
    <3>1. CASE q.queue = p.queue BY <3>1 DEF SaysLast
    <3>2. CASE q.queue = <<>> BY <3>2
    <3> QED BY <3>1, <3>2
  <2>3. k = 0 => l = 0 BY <1>e
  <2>4. Pending(p) = 0 => Pending(q) = 0 BY <1>a, <1>b, <1>e, <2>3
  <2> QED BY <2>1, <2>2, <2>4 DEF SaysLast
<1>6. ASSUME Silent(p, st) PROVE Silent(q, st)
  <2>1. ~Says(q.busy) BY <1>b, <1>c DEF Says
  <2>2. ~Says(q.queue)
    <3>1. CASE q.queue = p.queue BY <1>6, <3>1 DEF Silent
    <3>2. CASE q.queue = <<>> BY <3>2 DEF Says
    <3> QED BY <3>1, <3>2
  <2> QED BY <1>6, <2>1, <2>2 DEF Silent
<1> QED BY <1>4, <1>5, <1>6

---------------------------------------------------------------------------
(* The steps of one execution.                                             *)

(* What a step of run r's execution, pump or stream may change.            *)
Touches(r) ==
  /\ exec' = [exec EXCEPT ![r] = exec'[r]]
  /\ pump' = [pump EXCEPT ![r] = pump'[r]]
  /\ stream' = [stream EXCEPT ![r] = stream'[r]]

Typed(r) == exec'[r] \in Exec /\ PumpType(pump'[r]) /\ stream'[r] \in Seq(Event)

(* What it may change of what the run's row knows.                         *)
Minds(r) ==
  /\ exec'[r].token # exec[r].token =>
       run[r].status = "queued" /\ exec'[r].token = session'[Home(r)].fence
  /\ exec'[r].pc # "idle" => exec'[r].worker \in Workers /\ exec'[r].token # 0
  /\ exec'[r].pc = "recording" => exec[r].pc = "recording" \/ run'[r].status = "completed"
  /\ ~Silent(pump'[r], stream'[r]) =>
       ~Silent(pump[r], stream[r]) \/ exec[r].pc = "recording"
  /\ run[r].status = "absent" => exec'[r].pc = "idle" /\ exec'[r].token = exec[r].token

Sound(r) == Touches(r) /\ Typed(r) /\ FlowInv(exec'[r], pump'[r], stream'[r]) /\ Minds(r)

LEMMA Facts ==
  ASSUME EventInv, NEW r \in Runs
  PROVE  /\ exec \in [Runs -> Exec] /\ pump \in [Runs -> Pump]
         /\ stream \in [Runs -> Seq(Event)]
         /\ exec[r] \in Exec /\ PumpType(pump[r]) /\ stream[r] \in Seq(Event)
         /\ exec[r].token \in Nat /\ exec[r].nr \in Nat /\ exec[r].pc \in PC
         /\ exec[r].worker \in Workers \union {Nil}
         /\ FlowInv(exec[r], pump[r], stream[r]) /\ RowInv(r)
BY DEF EventInv, EventTypeOK, RunInv, PumpType, Exec

(* The execution goes on, with nothing published.                          *)
GoesOn(r) ==
  /\ \E pc \in PC \ {"idle", "marking"} :
       /\ exec[r].pc \in Over => pc \in Over
       /\ pc = "recording" => run'[r].status = "completed"
       /\ Goto(r, pc) \/ RaiseTo(r, pc)
  /\ exec[r].pc \notin {"idle", "marking"}
  /\ UNCHANGED <<pump, stream>>

LEMMA GoingOnIsSound ==
  ASSUME EventInv, NEW r \in Runs, GoesOn(r)
  PROVE  Sound(r)
<1>0. PICK pc \in PC \ {"idle", "marking"} :
        /\ exec[r].pc \in Over => pc \in Over
        /\ pc = "recording" => run'[r].status = "completed"
        /\ Goto(r, pc) \/ RaiseTo(r, pc)
  BY DEF GoesOn
<1>f. /\ exec \in [Runs -> Exec] /\ pump \in [Runs -> Pump] /\ stream \in [Runs -> Seq(Event)]
      /\ exec[r] \in Exec /\ PumpType(pump[r]) /\ stream[r] \in Seq(Event)
      /\ FlowInv(exec[r], pump[r], stream[r]) /\ RowInv(r)
      /\ exec[r].pc \notin {"idle", "marking"} /\ pump' = pump /\ stream' = stream
  BY Facts DEF GoesOn
<1>1. /\ exec'[r] \in Exec /\ exec' = [exec EXCEPT ![r] = exec'[r]] /\ exec'[r].pc = pc
      /\ exec'[r].token = exec[r].token /\ exec'[r].nr = exec[r].nr
      /\ exec'[r].worker = exec[r].worker
  <2>1. CASE Goto(r, pc)
    <3>1. exec' = [exec EXCEPT ![r] = [exec[r] EXCEPT !.pc = pc]] BY <2>1 DEF Goto
    <3>2. [exec[r] EXCEPT !.pc = pc] \in Exec BY <1>f DEF Exec
    <3>3. exec'[r] = [exec[r] EXCEPT !.pc = pc] BY <1>f, <3>1
    <3> QED BY <1>f, <3>1, <3>2, <3>3 DEF Exec
  <2>2. CASE RaiseTo(r, pc)
    <3>1. exec' = [exec EXCEPT ![r] = [exec[r] EXCEPT !.pc = pc, !.raised = TRUE]]
      BY <2>2 DEF RaiseTo
    <3>2. [exec[r] EXCEPT !.pc = pc, !.raised = TRUE] \in Exec BY <1>f DEF Exec
    <3>3. exec'[r] = [exec[r] EXCEPT !.pc = pc, !.raised = TRUE] BY <1>f, <3>1
    <3> QED BY <1>f, <3>1, <3>2, <3>3 DEF Exec
  <2> QED BY <1>0, <2>1, <2>2
<1>2. Touches(r) /\ Typed(r) BY <1>1, <1>f DEF Touches, Typed
<1>3. FlowInv(exec'[r], pump'[r], stream'[r]) BY <1>0, <1>1, <1>f DEF FlowInv
<1>4. Minds(r)
  <2>1. run[r].status # "absent" BY <1>f DEF RowInv
  <2>2. exec'[r].worker \in Workers /\ exec'[r].token # 0 BY <1>1, <1>f DEF RowInv
  <2> QED BY <1>0, <1>1, <1>f, <2>1, <2>2 DEF Minds
<1> QED BY <1>2, <1>3, <1>4 DEF Sound

(* The execution ends; what its pump held and did not store is gone.       *)
Ends(r) ==
  /\ exec[r].pc # "idle"
  /\ \E how \in {"ok", "raised", "crashed"} : End(r, how)
  /\ pump' = [pump EXCEPT ![r] = NoPump]
  /\ stream' = stream \/ stream' = [stream EXCEPT ![r] = @ \o pump[r].busy]

LEMMA EndingIsSound ==
  ASSUME EventInv, NEW r \in Runs, Ends(r)
  PROVE  Sound(r)
<1>f. /\ exec \in [Runs -> Exec] /\ pump \in [Runs -> Pump] /\ stream \in [Runs -> Seq(Event)]
      /\ exec[r] \in Exec /\ PumpType(pump[r]) /\ stream[r] \in Seq(Event)
      /\ exec[r].token \in Nat /\ exec[r].nr \in Nat
      /\ FlowInv(exec[r], pump[r], stream[r]) /\ RowInv(r)
  BY Facts
<1>1. /\ exec'[r] \in Exec /\ exec' = [exec EXCEPT ![r] = exec'[r]] /\ exec'[r].pc = "idle"
      /\ exec'[r].token = exec[r].token /\ exec'[r].nr = exec[r].nr
  <2>1. PICK how \in {"ok", "raised", "crashed"} : End(r, how) BY DEF Ends
  <2>2. exec' = [exec EXCEPT ![r] = [exec[r] EXCEPT !.pc = "idle", !.ended = how]]
    BY <2>1 DEF End
  <2>3. [exec[r] EXCEPT !.pc = "idle", !.ended = how] \in Exec BY <1>f DEF Exec, PC
  <2>4. exec'[r] = [exec[r] EXCEPT !.pc = "idle", !.ended = how] BY <1>f, <2>2
  <2> QED BY <1>f, <2>2, <2>3, <2>4 DEF Exec
<1>2. pump'[r] = NoPump /\ pump' = [pump EXCEPT ![r] = pump'[r]] BY <1>f DEF Ends
<1>3. /\ stream' = [stream EXCEPT ![r] = stream'[r]]
      /\ stream'[r] = stream[r] \/ stream'[r] = stream[r] \o pump[r].busy
  BY <1>f DEF Ends
<1>4. /\ Numbered(exec[r].token, exec[r].nr, pump[r], stream[r])
      /\ Ordered(stream[r]) /\ SaysLast(pump[r], stream[r])
  BY <1>f DEF FlowInv
<1>5. /\ stream'[r] \in Seq(Event)
      /\ Numbered(exec[r].token, exec[r].nr, NoPump, stream'[r])
      /\ Ordered(stream'[r]) /\ SaysLast(NoPump, stream'[r])
      /\ ~Silent(NoPump, stream'[r]) => ~Silent(pump[r], stream[r])
  <2>1. CASE stream'[r] = stream[r]
    BY <1>f, <1>4, <2>1, NoPumpType, DropKeeps
  <2>2. CASE stream'[r] = stream[r] \o pump[r].busy /\ pump[r].busy = <<>>
    <3>1. stream'[r] = stream[r] BY <1>f, <2>2, ConcatEmptySeq
    <3> QED BY <2>1, <3>1
  <2>3. CASE stream'[r] = stream[r] \o pump[r].busy /\ pump[r].busy # <<>>
    BY <1>f, <1>4, <2>3, NoPumpType, StoreKeeps DEF Silent
  <2> QED BY <1>3, <2>1, <2>2, <2>3
<1>6. Touches(r) /\ Typed(r) BY <1>1, <1>2, <1>3, <1>5, NoPumpType DEF Touches, Typed
<1>7. FlowInv(exec'[r], pump'[r], stream'[r]) BY <1>1, <1>2, <1>5 DEF FlowInv, Over
<1>8. Minds(r) BY <1>1, <1>2, <1>5 DEF Minds
<1> QED BY <1>6, <1>7, <1>8 DEF Sound

(* Pump p is run r's after it published.                                   *)
Published(r, p) ==
  /\ \E m \in Nat : Adds(exec[r].token, exec[r].nr, pump[r], m, p, stream[r])
  /\ SaysLast(p, stream[r])

LEMMA OnePublication ==
  ASSUME EventInv, NEW r \in Runs, NEW k \in Kinds, Silent(pump[r], stream[r])
  PROVE  LET p == Put(pump[r], EventOf(exec[r], exec[r].nr + 1, k)) IN
         Published(r, p) /\ (k # "completed" => Silent(p, stream[r]))
<1> DEFINE t == exec[r].token
           n == exec[r].nr
           e == EventOf(exec[r], exec[r].nr + 1, k)
           p == Put(pump[r], e)
<1>f. /\ PumpType(pump[r]) /\ stream[r] \in Seq(Event) /\ t \in Nat /\ n \in Nat
      /\ Numbered(t, n, pump[r], stream[r])
  BY Facts DEF FlowInv
<1>1. e \in Event /\ Follows(e, t, n, pump[r]) /\ e.kind = k
  BY <1>f DEF EventOf, Event, Follows
<1> HIDE DEF t, n, e
<1>2. /\ \E m \in Nat : Adds(t, n, pump[r], m, p, stream[r])
      /\ SaysLast(p, stream[r])
      /\ e.kind # "completed" => Silent(p, stream[r])
  BY <1>f, <1>1, PutKeeps
<1> QED BY <1>1, <1>2 DEF Published, t, n, e

LEMMA TwoPublications ==
  ASSUME EventInv, NEW r \in Runs, NEW k1 \in Kinds, NEW k2 \in Kinds,
         k1 # "completed", Silent(pump[r], stream[r])
  PROVE  LET p == Put(Put(pump[r], EventOf(exec[r], exec[r].nr + 1, k1)),
                      EventOf(exec[r], exec[r].nr + 2, k2)) IN
         Published(r, p) /\ (k2 # "completed" => Silent(p, stream[r]))
<1> DEFINE t == exec[r].token
           n == exec[r].nr
           d == EventOf(exec[r], exec[r].nr + 1, k1)
           e == EventOf(exec[r], exec[r].nr + 2, k2)
           q == Put(pump[r], d)
           p == Put(q, e)
<1>f. /\ PumpType(pump[r]) /\ stream[r] \in Seq(Event) /\ t \in Nat /\ n \in Nat
      /\ Numbered(t, n, pump[r], stream[r])
  BY Facts DEF FlowInv
<1>1. /\ d \in Event /\ Follows(d, t, n, pump[r]) /\ d.kind = k1
      /\ e \in Event /\ e.token = t /\ e.nr = n + 2 /\ e.kind = k2
  BY <1>f DEF EventOf, Event, Follows
<1> HIDE DEF t, n, d, e
<1>2. /\ \E m \in Nat : Adds(t, n, pump[r], m, q, stream[r]) /\ (q.failed \/ m = n + 1)
      /\ Silent(q, stream[r])
  BY <1>f, <1>1, PutKeeps
<1>3. PICK i \in Nat : Adds(t, n, pump[r], i, q, stream[r]) /\ (q.failed \/ i = n + 1)
  BY <1>2
<1> HIDE DEF q
<1>4. Follows(e, t, i, q)
  <2>1. i = n + 1 => n + 2 = i + 1 BY <1>f
  <2> QED BY <1>1, <1>3, <2>1 DEF Follows
<1>5. PumpType(q) /\ Numbered(t, i, q, stream[r]) BY <1>3 DEF Adds
<1>6. /\ \E m \in Nat : Adds(t, i, q, m, p, stream[r]) /\ (p.failed \/ m = i + 1)
      /\ SaysLast(p, stream[r])
      /\ e.kind # "completed" => Silent(p, stream[r])
  BY <1>f, <1>1, <1>2, <1>4, <1>5, PutKeeps
<1>7. \E m \in Nat : Adds(t, n, pump[r], m, p, stream[r])
  <2> HIDE DEF p
  <2>1. PICK m \in Nat : Adds(t, i, q, m, p, stream[r]) BY <1>6
  <2>2. Adds(t, n, pump[r], m, p, stream[r]) BY <1>3, <1>f, <2>1, AddsTwice
  <2> QED BY <2>2
<1> QED BY <1>1, <1>6, <1>7 DEF Published, t, n, e, d, q

LEMMA PublishingIsSound ==
  ASSUME EventInv, NEW r \in Runs, NEW p, Published(r, p),
         NEW pc \in PC \ {"idle", "marking"}, NEW raised \in BOOLEAN,
         exec[r].pc \notin {"idle", "marking"},
         pump' = [pump EXCEPT ![r] = p],
         exec' = [exec EXCEPT ![r].pc = pc, ![r].raised = raised,
                              ![r].nr = @ + Len(p.queue) - Len(pump[r].queue)],
         stream' = stream,
         Silent(p, stream[r]) \/ (pc \in Over /\ exec[r].pc = "recording"),
         pc # "recording"
  PROVE  Sound(r)
<1>f. /\ exec \in [Runs -> Exec] /\ pump \in [Runs -> Pump] /\ stream \in [Runs -> Seq(Event)]
      /\ exec[r] \in Exec /\ stream[r] \in Seq(Event)
      /\ FlowInv(exec[r], pump[r], stream[r]) /\ RowInv(r)
  BY Facts
<1>1. PICK m \in Nat :
        /\ m = exec[r].nr + Len(p.queue) - Len(pump[r].queue)
        /\ PumpType(p) /\ Numbered(exec[r].token, m, p, stream[r])
        /\ Stored(exec[r].token, exec[r].nr, pump[r], stream[r]) =>
             Stored(exec[r].token, m, p, stream[r])
  BY DEF Published, Adds
<1>2. /\ exec'[r] \in Exec /\ exec' = [exec EXCEPT ![r] = exec'[r]] /\ exec'[r].pc = pc
      /\ exec'[r].token = exec[r].token /\ exec'[r].nr = m
      /\ exec'[r].worker = exec[r].worker
  <2>1. exec' = [exec EXCEPT ![r] = [exec[r] EXCEPT !.pc = pc, !.raised = raised, !.nr = m]]
    BY <1>1
  <2>2. [exec[r] EXCEPT !.pc = pc, !.raised = raised, !.nr = m] \in Exec BY <1>f DEF Exec
  <2>3. exec'[r] = [exec[r] EXCEPT !.pc = pc, !.raised = raised, !.nr = m] BY <1>f, <2>1
  <2> QED BY <1>f, <2>1, <2>2, <2>3 DEF Exec
<1>3. /\ pump'[r] = p /\ pump' = [pump EXCEPT ![r] = pump'[r]]
      /\ stream'[r] = stream[r] /\ stream' = [stream EXCEPT ![r] = stream'[r]]
  BY <1>f
<1>4. Touches(r) /\ Typed(r) BY <1>1, <1>2, <1>3, <1>f DEF Touches, Typed
<1>5. FlowInv(exec'[r], pump'[r], stream'[r]) BY <1>1, <1>2, <1>3, <1>f DEF FlowInv, Published
<1>6. Minds(r)
  <2>1. run[r].status # "absent" BY <1>f DEF RowInv
  <2>2. exec'[r].worker \in Workers /\ exec'[r].token # 0 BY <1>2, <1>f DEF RowInv
  <2>3. ~Silent(p, stream[r]) => exec[r].pc = "recording" OBVIOUS
  <2> QED BY <1>2, <1>3, <2>1, <2>2, <2>3 DEF Minds
<1> QED BY <1>4, <1>5, <1>6 DEF Sound

(* A claim allocates a token above all that the stream has.                *)
LEMMA ClaimIsSound ==
  ASSUME EventInv, NEW r \in Runs, NEW w \in Workers, Claim(r, w)
  PROVE  Sound(r)
<1>f. /\ exec \in [Runs -> Exec] /\ pump \in [Runs -> Pump] /\ stream \in [Runs -> Seq(Event)]
      /\ exec[r] \in Exec /\ PumpType(pump[r]) /\ stream[r] \in Seq(Event)
      /\ exec[r].token \in Nat /\ exec[r].nr \in Nat
      /\ FlowInv(exec[r], pump[r], stream[r]) /\ RowInv(r)
  BY Facts
<1>0. /\ run[r].status = "queued" /\ exec[r].pc = "idle" /\ pump[r] = NoPump
      /\ Silent(pump[r], stream[r])
  BY <1>f DEF Claim, At, FlowInv, RowInv, Answered
<1> DEFINE t == session'[Home(r)].fence
<1>1. exec[r].token < t /\ t \in Nat
  <2>1. /\ Home(r) \in Sessions /\ session[Home(r)] \in SessionRow
        /\ session \in [Sessions -> SessionRow]
    BY <1>0, HomeIsASession DEF EventInv, EventTypeOK, RepoTypeOK
  <2>2. PICK n \in Nat : session[Home(r)].fence = n BY <2>1 DEF SessionRow
  <2>3. t = n + 1 BY <2>1, <2>2 DEF Claim, AllocateFencingToken, Home
  <2>4. PICK k \in Nat : exec[r].token = k BY <1>f
  <2>5. k <= n BY <1>0, <1>f, <2>2, <2>4 DEF RowInv
  <2>6. k < n + 1 BY <2>5
  <2> QED BY <2>3, <2>4, <2>6
<1>2. PICK x \in Exec :
        /\ exec' = [exec EXCEPT ![r] = x]
        /\ x.pc = "marking" /\ x.worker = w /\ x.token = t /\ x.nr = 0
  <2> DEFINE x == [NoExec EXCEPT !.pc = "marking", !.worker = w, !.token = t]
  <2>1. exec' = [exec EXCEPT ![r] = x] BY DEF Claim, Home
  <2>2. /\ x \in Exec /\ x.pc = "marking" /\ x.worker = w /\ x.token = t /\ x.nr = 0
    BY <1>1 DEF NoExec, Exec, PC
  <2> QED BY <2>1, <2>2
<1>3. /\ exec'[r] = x /\ pump' = pump /\ stream' = stream
  BY <1>2, <1>f DEF Claim, Quiet, Watched
<1>4. /\ Numbered(t, 0, NoPump, stream[r]) /\ Stored(t, 0, NoPump, stream[r])
  <2>1. Len(NoPump.queue) = 0 /\ Len(NoPump.busy) = 0 /\ Pending(NoPump) = 0
    BY DEF NoPump, Pending
  <2>2. PICK l \in Nat : Len(stream[r]) = l BY <1>f, StreamFacts
  <2>3. ASSUME NEW i \in 1..l PROVE stream[r][i].token <= t /\ stream[r][i].token # t
    <3>1. PICK a \in Nat, k \in Nat, n \in Nat :
            a = stream[r][i].token /\ k = exec[r].token /\ n = t
      BY <1>1, <1>f, <2>2, StreamFacts
    <3>2. a <= k BY <1>f, <2>2, <3>1 DEF FlowInv, Numbered
    <3>3. k < n BY <1>1, <3>1
    <3>4. a <= n /\ a # n BY <3>2, <3>3
    <3> QED BY <3>1, <3>4
  <2>4. Numbered(t, 0, NoPump, stream[r]) BY <2>1, <2>2, <2>3 DEF Numbered
  <2>5. \A i \in 1..(Len(stream[r]) - 0) : stream[r][i].token # t BY <2>2, <2>3
  <2>6. EndsWith(t, 0, stream[r]) BY <2>2, <2>5 DEF EndsWith
  <2> QED BY <2>1, <2>4, <2>6 DEF Stored
<1> HIDE DEF t
<1>5. Touches(r) /\ Typed(r) BY <1>2, <1>3, <1>f DEF Touches, Typed
<1>6. FlowInv(exec'[r], pump'[r], stream'[r])
  BY <1>0, <1>2, <1>3, <1>4, <1>f DEF FlowInv
<1>7. Minds(r)
  <2>1. t # 0 BY <1>1, <1>f
  <2> QED BY <1>0, <1>2, <1>3, <2>1 DEF Minds, t
<1> QED BY <1>5, <1>6, <1>7 DEF Sound

(* The first publication meets an empty queue.                             *)
LEMMA BeginIsSound ==
  ASSUME EventInv, NEW r \in Runs, Begin(r)
  PROVE  Sound(r)
<1>f. /\ exec \in [Runs -> Exec] /\ pump \in [Runs -> Pump] /\ stream \in [Runs -> Seq(Event)]
      /\ exec[r] \in Exec /\ PumpType(pump[r]) /\ stream[r] \in Seq(Event)
      /\ exec[r].token \in Nat /\ exec[r].nr \in Nat
      /\ FlowInv(exec[r], pump[r], stream[r]) /\ RowInv(r)
  BY Facts
<1>0. /\ exec[r].pc = "marking" /\ run[r].status = "queued"
      /\ pump[r] = NoPump /\ exec[r].nr = 0
      /\ Silent(NoPump, stream[r])
  BY <1>f DEF Begin, At, MarkRunning, FlowInv, Over
<1> DEFINE e == EventOf(exec[r], 1, "running")
           t == exec[r].token
           q == Put(NoPump, e)
<1>1. e \in Event /\ Follows(e, t, 0, NoPump) /\ e.kind = "running"
  BY <1>f DEF EventOf, Event, Follows, Kinds
<1>2. Numbered(t, 0, NoPump, stream[r]) /\ Stored(t, 0, NoPump, stream[r])
  BY <1>0, <1>f DEF FlowInv
<1>3. q.queue = <<e>> /\ ~q.failed
  <2>1. Len(NoPump.queue) # MaxQueue BY MaxQueueAssumption DEF NoPump
  <2>2. q = [NoPump EXCEPT !.queue = Append(<<>>, e)] BY <2>1 DEF Put, NoPump
  <2> QED BY <2>2 DEF NoPump
<1> HIDE DEF e, t, q
<1>4. PICK m \in Nat : Adds(t, 0, NoPump, m, q, stream[r]) /\ (q.failed \/ m = 0 + 1)
  BY <1>1, <1>2, <1>f, NoPumpType, PutKeeps DEF q, t
<1>5. /\ PumpType(q) /\ Numbered(t, 1, q, stream[r]) /\ Stored(t, 1, q, stream[r])
      /\ Silent(q, stream[r])
  <2>1. m = 1 BY <1>3, <1>4
  <2>2. Silent(q, stream[r])
    BY <1>0, <1>1, <1>2, <1>f, NoPumpType, PutKeeps DEF q, t
  <2> QED BY <1>2, <1>4, <2>1, <2>2 DEF Adds
<1>6. /\ session[Home(r)].next \in Nat
  <2>1. session[Home(r)] \in SessionRow
    BY <1>0, HomeIsASession DEF EventInv, EventTypeOK
  <2> QED BY <2>1 DEF SessionRow
<1>7. PICK x \in Exec :
        /\ exec' = [exec EXCEPT ![r] = x]
        /\ x.pc = "graph" /\ x.worker = exec[r].worker /\ x.token = t /\ x.nr = 1
  <2> DEFINE x == [exec[r] EXCEPT !.pc = "graph", !.nr = 1, !.seen = session[Home(r)].next]
  <2>1. exec' = [exec EXCEPT ![r] = x] BY DEF Begin, Home
  <2>2. /\ x \in Exec /\ x.pc = "graph" /\ x.worker = exec[r].worker /\ x.token = t /\ x.nr = 1
    BY <1>6, <1>f DEF Exec, PC, t
  <2> QED BY <2>1, <2>2
<1>8. /\ exec'[r] = x /\ pump' = [pump EXCEPT ![r] = q] /\ pump'[r] = q /\ stream' = stream
  BY <1>7, <1>f DEF Begin, Quiet, Watched, q, e
<1>9. Touches(r) /\ Typed(r) BY <1>5, <1>7, <1>8, <1>f DEF Touches, Typed
<1>10. FlowInv(exec'[r], pump'[r], stream'[r])
  BY <1>5, <1>7, <1>8, <1>f, SilentLast DEF FlowInv
<1>11. Minds(r)
  BY <1>0, <1>5, <1>7, <1>8, <1>f DEF Minds, RowInv, t
<1> QED BY <1>9, <1>10, <1>11 DEF Sound

(* Only the pump and its stream move.                                      *)
LEMMA PumpingIsSound ==
  ASSUME EventInv, NEW r \in Runs, PumpStep(r) \/ PumpFails(r)
  PROVE  Sound(r)
<1> DEFINE t == exec[r].token
           n == exec[r].nr
           p == pump[r]
           st == stream[r]
<1>f. /\ exec \in [Runs -> Exec] /\ pump \in [Runs -> Pump] /\ stream \in [Runs -> Seq(Event)]
      /\ exec[r] \in Exec /\ PumpType(p) /\ st \in Seq(Event) /\ t \in Nat /\ n \in Nat
      /\ FlowInv(exec[r], p, st) /\ RowInv(r)
  BY Facts
<1>0. exec' = exec /\ (p.queue # <<>> \/ p.busy # <<>>)
  BY DEF PumpStep, PumpTakes, PumpStores, PumpFails
<1>1. exec[r].pc \notin {"idle", "marking"} BY <1>0, <1>f, NoPumpType DEF FlowInv
<1>2. /\ Numbered(t, n, p, st) /\ Stored(t, n, p, st) /\ Ordered(st) /\ SaysLast(p, st)
      /\ Silent(p, st) \/ exec[r].pc \in Over
  BY <1>1, <1>f DEF FlowInv
<1> DEFINE Good(q, new) ==
             /\ PumpType(q) /\ new \in Seq(Event)
             /\ Numbered(t, n, q, new) /\ Stored(t, n, q, new)
             /\ Ordered(new) /\ SaysLast(q, new)
             /\ Silent(p, st) => Silent(q, new)
<1>3. \E q, new : /\ pump' = [pump EXCEPT ![r] = q]
                  /\ stream' = [stream EXCEPT ![r] = new]
                  /\ Good(q, new)
  <2>1. CASE PumpTakes(r)
    <3> DEFINE q == Taken(p)
    <3>1. p.queue # <<>> /\ p.busy = <<>> /\ pump' = [pump EXCEPT ![r] = q]
      BY <2>1 DEF PumpTakes, Taken
    <3>2. stream' = [stream EXCEPT ![r] = st] BY <2>1, <1>f DEF PumpTakes, Quiet, Watched
    <3> HIDE DEF t, n, p, st
    <3>3. /\ PumpType(q) /\ Numbered(t, n, q, st) /\ SaysLast(q, st)
          /\ Stored(t, n, p, st) => Stored(t, n, q, st)
          /\ Silent(p, st) => Silent(q, st)
      BY <1>2, <1>f, <3>1, TakeKeeps
    <3> HIDE DEF q
    <3>4. Good(q, st) BY <1>2, <1>f, <3>3
    <3> QED BY <3>1, <3>2, <3>4
  <2>2. CASE PumpStores(r) \/ (PumpFails(r) /\ stream' = [stream EXCEPT ![r] = st \o p.busy])
    <3>1. PICK b \in BOOLEAN : /\ pump' = [pump EXCEPT ![r] = Emptied(p, b)]
                               /\ ~b => ~p.failed
      <4>1. CASE PumpStores(r)
        <5>1. p \in Pump /\ p.failed \in BOOLEAN BY <1>f DEF PumpType, Pump
        <5>2. [p EXCEPT !.busy = <<>>] = Emptied(p, p.failed) BY <5>1 DEF Emptied, Pump
        <5>3. pump' = [pump EXCEPT ![r] = Emptied(p, p.failed)]
          BY <4>1, <5>2 DEF PumpStores
        <5> QED BY <5>1, <5>3
      <4>2. CASE PumpFails(r)
        <5>1. pump' = [pump EXCEPT ![r] = Emptied(p, TRUE)] BY <4>2 DEF PumpFails, Emptied
        <5> QED BY <5>1
      <4> QED BY <2>2, <4>1, <4>2
    <3> DEFINE q == Emptied(p, b)
    <3>2. p.busy # <<>> /\ stream' = [stream EXCEPT ![r] = st \o p.busy]
      BY <2>2 DEF PumpStores, PumpFails
    <3>3. PumpType(q) /\ q.busy = <<>> /\ q.queue = p.queue /\ (~q.failed => ~p.failed)
      BY <1>f, <3>1, EmptiedType
    <3> HIDE DEF t, n, p, st, q
    <3>4. /\ st \o p.busy \in Seq(Event)
          /\ Numbered(t, n, q, st \o p.busy) /\ Ordered(st \o p.busy)
          /\ SaysLast(q, st \o p.busy)
          /\ ~p.failed => Stored(t, n, q, st \o p.busy)
          /\ Silent(p, st) => Silent(q, st \o p.busy)
      BY <1>2, <1>f, <3>2, <3>3, StoreKeeps DEF Silent
    <3>5. Good(q, st \o p.busy) BY <3>3, <3>4 DEF Stored
    <3> QED BY <3>1, <3>2, <3>5 DEF q
  <2>3. CASE PumpFails(r) /\ stream' = stream
    <3> DEFINE q == Emptied(p, TRUE)
    <3>1. pump' = [pump EXCEPT ![r] = q] BY <2>3 DEF PumpFails, Emptied
    <3>2. stream' = [stream EXCEPT ![r] = st] BY <2>3, <1>f
    <3>3. PumpType(q) /\ q.busy = <<>> /\ q.queue = p.queue /\ q.failed
      BY <1>f, EmptiedType
    <3> HIDE DEF t, n, p, st, q
    <3>4. Numbered(t, n, q, st) /\ SaysLast(q, st) /\ (Silent(p, st) => Silent(q, st))
      BY <1>2, <1>f, <3>3, DropKeeps
    <3>5. Good(q, st) BY <1>2, <1>f, <3>3, <3>4 DEF Stored
    <3> QED BY <3>1, <3>2, <3>5
  <2>4. PumpFails(r) => stream' = stream \/ stream' = [stream EXCEPT ![r] = st \o p.busy]
    BY DEF PumpFails
  <2> QED BY <2>1, <2>2, <2>3, <2>4 DEF PumpStep
<1>4. PICK q, new : /\ pump' = [pump EXCEPT ![r] = q]
                    /\ stream' = [stream EXCEPT ![r] = new]
                    /\ Good(q, new)
  BY <1>3
<1>5. pump'[r] = q /\ stream'[r] = new /\ Good(q, new) BY <1>4, <1>f
<1> HIDE DEF p, st
<1>6. Touches(r) /\ Typed(r) BY <1>0, <1>4, <1>5, <1>f DEF Touches, Typed
<1>7. FlowInv(exec'[r], pump'[r], stream'[r])
  BY <1>0, <1>1, <1>2, <1>5, <1>f DEF FlowInv
<1>8. Minds(r)
  BY <1>0, <1>1, <1>5, <1>f DEF Minds, RowInv, p, st
<1> QED BY <1>6, <1>7, <1>8 DEF Sound

(* A stream expires between executions.                                    *)
LEMMA ExpiringIsSound ==
  ASSUME EventInv, NEW r \in Runs, Expire(r)
  PROVE  Sound(r)
<1>f. /\ exec \in [Runs -> Exec] /\ pump \in [Runs -> Pump] /\ stream \in [Runs -> Seq(Event)]
      /\ exec[r] \in Exec /\ exec[r].nr \in Nat
      /\ FlowInv(exec[r], pump[r], stream[r]) /\ RowInv(r)
  BY Facts
<1>0. /\ exec[r].pc = "idle" /\ pump[r] = NoPump /\ exec' = exec /\ pump' = pump
      /\ stream' = [stream EXCEPT ![r] = <<>>] /\ stream'[r] = <<>>
  BY <1>f DEF Expire, At, FlowInv
<1>1. /\ Len(NoPump.queue) = 0 /\ Len(NoPump.busy) = 0 /\ Pending(NoPump) = 0
  BY DEF NoPump, Pending
<1>2. /\ Numbered(exec[r].token, exec[r].nr, NoPump, <<>>) /\ Ordered(<<>>)
      /\ SaysLast(NoPump, <<>>) /\ Silent(NoPump, <<>>)
  BY <1>1, <1>f DEF Numbered, Ordered, SaysLast, Silent, Says, NoPump
<1>3. Touches(r) /\ Typed(r)
  BY <1>0, <1>f, NoPumpType DEF Touches, Typed
<1>4. FlowInv(exec'[r], pump'[r], stream'[r]) BY <1>0, <1>2 DEF FlowInv
<1>5. Minds(r) BY <1>0, <1>2 DEF Minds
<1> QED BY <1>3, <1>4, <1>5 DEF Sound

LEMMA ExecStepIsSound ==
  ASSUME EventInv, NEW r \in Runs, ExecStep(r) \/ GraphEvent(r)
  PROVE  Sound(r)
<1>f. /\ exec \in [Runs -> Exec] /\ pump \in [Runs -> Pump] /\ stream \in [Runs -> Seq(Event)]
      /\ exec[r] \in Exec /\ exec[r].pc \in PC /\ PumpType(pump[r])
      /\ exec[r].pc \in Over \/ Silent(pump[r], stream[r])
      /\ exec[r].pc \in {"idle", "marking"} => pump[r] = NoPump
  BY Facts DEF FlowInv
<1>1. CASE Begin(r) BY <1>1, BeginIsSound
<1>2. CASE BeginRefused(r)
  <2>1. Ends(r)
    BY <1>2, <1>f DEF BeginRefused, Ends, At, Quiet, Watched
  <2> QED BY <2>1, EndingIsSound
<1>3. CASE GraphEnds(r) \/ Refused(r)
  <2>1. GoesOn(r) BY <1>3 DEF GraphEnds, Refused, GoesOn, At, Over, PC, Quiet, Watched
  <2> QED BY <2>1, GoingOnIsSound
<1>4. CASE Flush(r, "pauseflush") \/ Flush(r, "leaving")
  <2>1. GoesOn(r) BY <1>4 DEF Flush, GoesOn, At, Over, PC, Quiet, Watched
  <2> QED BY <2>1, GoingOnIsSound
<1>5. CASE Commit(r)
  <2>1. run'[r].status = "completed"
    <3>1. run \in [Runs -> Row] BY DEF EventInv, EventTypeOK, RepoTypeOK
    <3> QED BY <1>5, <3>1 DEF Commit, CompleteWithTurn, SetRow, Row
  <2>2. GoesOn(r) BY <1>5, <2>1 DEF Commit, GoesOn, At, Over, PC, Quiet, Watched
  <2> QED BY <2>2, GoingOnIsSound
<1>6. CASE Close(r)
  <2>1. Ends(r) BY <1>6 DEF Close, Ends, Quiet, Watched
  <2> QED BY <2>1, EndingIsSound
<1>7. ASSUME NEW p, NEW ok \in PC \ {"idle", "marking", "recording"},
             NEW ko \in PC \ {"idle", "marking", "recording"},
             Published(r, p), Publish(r, p, ok, ko), stream' = stream,
             exec[r].pc \notin {"idle", "marking"},
             Silent(p, stream[r]) \/ ({ok, ko} \subseteq Over /\ exec[r].pc = "recording")
      PROVE  Sound(r)
  <2>1. PICK pc \in {ok, ko}, raised \in BOOLEAN :
          exec' = [exec EXCEPT ![r].pc = pc, ![r].raised = raised,
                               ![r].nr = @ + Len(p.queue) - Len(pump[r].queue)]
    <3>1. p.failed \in BOOLEAN /\ exec[r].raised \in BOOLEAN
      BY <1>7, <1>f DEF Published, Adds, PumpType, Pump, Exec
    <3>2. CASE p.failed
      <4>1. exec' = [exec EXCEPT ![r].pc = ko, ![r].raised = TRUE,
                                 ![r].nr = @ + Len(p.queue) - Len(pump[r].queue)]
        BY <1>7, <3>2 DEF Publish
      <4> QED BY <4>1
    <3>3. CASE ~p.failed
      <4>1. exec' = [exec EXCEPT ![r].pc = ok, ![r].raised = exec[r].raised,
                                 ![r].nr = @ + Len(p.queue) - Len(pump[r].queue)]
        BY <1>7, <3>1, <3>3 DEF Publish
      <4> QED BY <3>1, <4>1
    <3> QED BY <3>1, <3>2, <3>3
  <2>2. pump' = [pump EXCEPT ![r] = p] BY <1>7 DEF Publish
  <2> QED BY <1>7, <2>1, <2>2, PublishingIsSound
<1>8. CASE GraphEvent(r)
  <2> DEFINE p == Put(pump[r], EventOf(exec[r], exec[r].nr + 1, "graph"))
  <2>1. /\ exec[r].pc = "graph" /\ stream' = stream
        /\ \E ko \in {"failingbus", "graph"} : Publish(r, p, "graph", ko)
    BY <1>8 DEF GraphEvent, At, Quiet, Watched, Publish1
  <2>2. Silent(pump[r], stream[r]) BY <1>f, <2>1 DEF Over
  <2>3. Published(r, p) /\ Silent(p, stream[r]) BY <2>2, OnePublication DEF Kinds
  <2> HIDE DEF p
  <2> QED BY <1>7, <2>1, <2>3 DEF PC
<1>9. CASE Pause(r)
  <2> DEFINE p == Put(Put(pump[r], EventOf(exec[r], exec[r].nr + 1, "checkpoint")),
                      EventOf(exec[r], exec[r].nr + 2, "waiting_input"))
  <2>1. /\ exec[r].pc = "pausing" /\ stream' = stream
        /\ Publish(r, p, "pauseflush", "closing")
    BY <1>9 DEF Pause, At, Quiet, Watched, Publish2
  <2>2. Silent(pump[r], stream[r]) BY <1>f, <2>1 DEF Over
  <2>3. Published(r, p) /\ Silent(p, stream[r]) BY <2>2, TwoPublications DEF Kinds
  <2> HIDE DEF p
  <2> QED BY <1>7, <2>1, <2>3 DEF PC
<1>10. CASE Announce(r)
  <2> DEFINE p == Put(Put(pump[r], EventOf(exec[r], exec[r].nr + 1, "result")),
                      EventOf(exec[r], exec[r].nr + 2, "completed"))
  <2>1. /\ exec[r].pc = "recording" /\ stream' = stream
        /\ Publish(r, p, "leaving", "closing")
    BY <1>10 DEF Announce, At, Quiet, Watched, Publish2
  <2>2. Silent(pump[r], stream[r]) BY <1>f, <2>1 DEF Over
  <2>3. Published(r, p) BY <2>2, TwoPublications DEF Kinds, Terminal
  <2> HIDE DEF p
  <2> QED BY <1>7, <2>1, <2>3 DEF PC, Over
<1>11. ASSUME NEW k \in {"failed", "cancelled", "interrupted"}, Say(r, k), stream' = stream,
              exec[r].pc \in {"failing", "cancelling"}
       PROVE  Sound(r)
  <2> DEFINE p == Put(pump[r], EventOf(exec[r], exec[r].nr + 1, k))
  <2>1. Silent(pump[r], stream[r]) BY <1>f, <1>11 DEF Over
  <2>2. k \in Kinds /\ k # "completed" BY DEF Kinds, Terminal
  <2>3. Published(r, p) /\ Silent(p, stream[r]) BY <2>1, <2>2, OnePublication
  <2>4. /\ pump' = [pump EXCEPT ![r] = p]
        /\ exec' = [exec EXCEPT ![r].pc = "closing", ![r].raised = TRUE,
                                ![r].nr = @ + Len(p.queue) - Len(pump[r].queue)]
    BY <1>11 DEF Say
  <2> HIDE DEF p
  <2> QED BY <1>11, <2>3, <2>4, PublishingIsSound DEF PC
<1>12. CASE Fail(r)
  <2>1. CASE At(r, "failing")
    BY <1>11, <1>12, <2>1 DEF Fail, At, Watched
  <2>2. CASE ~At(r, "failing")
    <3>1. GoesOn(r) BY <1>12, <2>2 DEF Fail, GoesOn, At, Over, PC, Watched
    <3> QED BY <3>1, GoingOnIsSound
  <2> QED BY <2>1, <2>2
<1>13. CASE CancelEnds(r)
  <2>1. exec[r].pc = "cancelling" /\ stream' = stream /\ (Say(r, "cancelled") \/ Say(r, "interrupted"))
    BY <1>13 DEF CancelEnds, At, Watched
  <2> QED BY <1>11, <2>1
<1> QED BY <1>1, <1>2, <1>3, <1>4, <1>5, <1>6, <1>8, <1>9, <1>10, <1>12, <1>13 DEF ExecStep

LEMMA AccidentIsSound ==
  ASSUME EventInv, NEW r \in Runs, Accident(r)
  PROVE  Sound(r)
<1>f. /\ exec \in [Runs -> Exec] /\ pump \in [Runs -> Pump] /\ stream \in [Runs -> Seq(Event)]
      /\ exec[r] \in Exec /\ exec[r].pc \in PC
      /\ exec[r].pc \in {"idle", "marking"} => pump[r] = NoPump
  BY Facts DEF FlowInv
<1>1. CASE BeginBreaks(r)
  <2>1. Ends(r) BY <1>1, <1>f DEF BeginBreaks, Ends, At, Watched
  <2> QED BY <2>1, EndingIsSound
<1>2. CASE CallFails(r)
  <2>1. GoesOn(r) BY <1>2 DEF CallFails, GoesOn, At, Over, PC, Watched
  <2> QED BY <2>1, GoingOnIsSound
<1>3. CASE CancelAtAwait(r)
  <2>1. GoesOn(r)
    <3>1. /\ exec[r].pc \notin {"idle", "marking", "reaping"}
          /\ RaiseTo(r, CancelTarget(exec[r].pc)) /\ UNCHANGED <<pump, stream>>
      BY <1>3 DEF CancelAtAwait, Watched
    <3>2. /\ CancelTarget(exec[r].pc) \in {"cancelling", "reaping", "closing"}
          /\ exec[r].pc \in Over => CancelTarget(exec[r].pc) \in Over
      BY <3>1 DEF CancelTarget, Over
    <3> QED BY <3>1, <3>2 DEF GoesOn, PC
  <2> QED BY <2>1, GoingOnIsSound
<1>4. CASE CancelPump(r)
  <2>1. Ends(r) BY <1>4 DEF CancelPump, Ends, At
  <2> QED BY <2>1, EndingIsSound
<1>5. CASE Crash(r)
  <2>1. Ends(r) BY <1>5 DEF Crash, Ends, At, Watched
  <2> QED BY <2>1, EndingIsSound
<1>6. CASE PumpFails(r) BY <1>6, PumpingIsSound
<1> QED BY <1>1, <1>2, <1>3, <1>4, <1>5, <1>6 DEF Accident

LEMMA StepIsSound ==
  ASSUME EventInv, [EventNext]_vars
  PROVE  UNCHANGED <<exec, pump, stream>> \/ \E r \in Runs : Sound(r)
<1>1. CASE RowStep BY <1>1 DEF RowStep, eventVars
<1>2. CASE UNCHANGED vars BY <1>2 DEF vars
<1>3. ASSUME NEW r \in Runs,
             \/ \E w \in Workers : Claim(r, w)
             \/ ExecStep(r) \/ GraphEvent(r) \/ PumpStep(r) \/ Accident(r) \/ Expire(r)
      PROVE  Sound(r)
  BY <1>3, ClaimIsSound, ExecStepIsSound, PumpingIsSound, AccidentIsSound, ExpiringIsSound
<1>4. ASSUME NEW r \in Runs, NEW c \in Clients,
             Connect(r, c) \/ SubStep(r, c) \/ StreamFails(r, c) \/ Disconnect(r, c)
      PROVE  UNCHANGED <<exec, pump, stream>>
  BY <1>4 DEF Connect, SubStep, Read, Look, Wait, StreamFails, Disconnect, SetSub
<1> QED BY <1>1, <1>2, <1>3, <1>4 DEF EventNext

---------------------------------------------------------------------------
(* The steps of one client's stream.                                       *)

(* The client's row after a step: it has the next n lines, or one made up   *)
(* from an ended row, or starts over.                                      *)
Hears(r, c, n, row) ==
  /\ Delivers(r, c, n)
  /\ \/ /\ row.cursor = sub[r][c].cursor + n /\ row.made = sub[r][c].made
        /\ row.seen = sub[r][c].seen \union {stream[r][sub[r][c].cursor + m] : m \in 1..n}
     \/ /\ run[r].status \in Terminal
        /\ row.cursor = sub[r][c].cursor + 1 /\ row.seen = sub[r][c].seen
        /\ row.made = sub[r][c].made \union {sub[r][c].cursor + 1}
     \/ row.cursor = 0 /\ row.seen = {} /\ row.made = {}
  /\ \/ row.by = sub[r][c].by /\ row.end = sub[r][c].end
     \/ row.by # "recovery" /\ row.end = "none"
     \/ /\ n > 0 /\ EndsStream(stream[r][sub[r][c].cursor + n])
        /\ row.by = "event" /\ row.end = stream[r][sub[r][c].cursor + n].kind
     \/ run[r].status \in Terminal /\ row.by = "recovery" /\ row.end = run[r].status

Told(r, c, row) ==
  /\ row \in Sub
  /\ sub' = [sub EXCEPT ![r][c] = row]
  /\ \E n \in 0..MaxBatch : Hears(r, c, n, row)
  /\ UNCHANGED <<run, stream>>

LEMMA SubFacts ==
  ASSUME EventInv, NEW r \in Runs, NEW c \in Clients
  PROVE  /\ sub \in [Runs -> [Clients -> Sub]] /\ sub[r][c] \in Sub /\ sub[r][c].cursor \in Nat
         /\ sub[r][c].seen \subseteq Event
         /\ 0 \in 0..MaxBatch /\ Delivers(r, c, 0)
         /\ sub[r][c].seen \union {stream[r][sub[r][c].cursor + m] : m \in 1..0} = sub[r][c].seen
<1>1. sub \in [Runs -> [Clients -> Sub]] BY DEF EventInv, EventTypeOK
<1>2. sub[r][c] \in Sub BY <1>1
<1>3. 0 \in 0..MaxBatch /\ 0 <= MaxBatch /\ 1..0 = {} /\ 1..(0 - 1) = {} BY MaxBatchAssumption
<1>4. Delivers(r, c, 0) BY <1>3 DEF Delivers
<1> QED BY <1>1, <1>2, <1>3, <1>4 DEF Sub

(* The next lines are events.                                              *)
LEMMA LinesAreEvents ==
  ASSUME EventInv, NEW r \in Runs, NEW c \in Clients, NEW n \in 0..MaxBatch, Delivers(r, c, n)
  PROVE  \A m \in 1..n : /\ sub[r][c].cursor + m \in 1..Len(stream[r])
                         /\ stream[r][sub[r][c].cursor + m] \in Event
<1> TAKE m \in 1..n
<1>1. PICK k \in Nat : k = sub[r][c].cursor BY SubFacts
<1>2. stream[r] \in Seq(Event) BY Facts
<1>3. PICK l \in Nat : Len(stream[r]) = l BY <1>2, StreamFacts
<1>4. k + m <= l BY <1>1, <1>3 DEF Delivers
<1>5. k + m \in 1..l BY <1>4
<1> QED BY <1>1, <1>2, <1>3, <1>5, ElementOfSeq

LEMMA ReceivedType ==
  ASSUME EventInv, NEW r \in Runs, NEW c \in Clients, NEW n \in 0..MaxBatch, Delivers(r, c, n)
  PROVE  /\ Receive(r, c, n) \in Sub
         /\ Receive(r, c, n).cursor = sub[r][c].cursor + n
         /\ Receive(r, c, n).made = sub[r][c].made
         /\ Receive(r, c, n).seen =
              sub[r][c].seen \union {stream[r][sub[r][c].cursor + m] : m \in 1..n}
         /\ Receive(r, c, n).by = sub[r][c].by /\ Receive(r, c, n).end = sub[r][c].end
<1>1. sub[r][c] \in Sub /\ sub[r][c].cursor + n \in Nat BY SubFacts
<1>2. sub[r][c].seen \union {stream[r][sub[r][c].cursor + m] : m \in 1..n} \in SUBSET Event
  BY SubFacts, LinesAreEvents
<1> QED BY <1>1, <1>2 DEF Receive, Sub

LEMMA ClientSteps ==
  ASSUME EventInv, NEW r \in Runs, NEW c \in Clients,
         Connect(r, c) \/ SubStep(r, c) \/ StreamFails(r, c) \/ Disconnect(r, c)
  PROVE  \E row : Told(r, c, row)
<1>f. sub[r][c] \in Sub BY SubFacts
<1>s. ASSUME NEW row, SetSub(r, c, row)
      PROVE  sub' = [sub EXCEPT ![r][c] = row] /\ UNCHANGED <<run, stream>>
  BY <1>s DEF SetSub
(* No line, and the cursor stays.                                          *)
<1>0. ASSUME NEW row \in Sub, SetSub(r, c, row),
             row.cursor = sub[r][c].cursor, row.seen = sub[r][c].seen,
             row.made = sub[r][c].made,
             \/ row.by = sub[r][c].by /\ row.end = sub[r][c].end
             \/ row.by # "recovery" /\ row.end = "none"
             \/ run[r].status \in Terminal /\ row.by = "recovery" /\ row.end = run[r].status
      PROVE  Told(r, c, row)
  <2>1. sub[r][c].cursor + 0 = sub[r][c].cursor BY SubFacts
  <2>2. Hears(r, c, 0, row) BY <1>0, <2>1, SubFacts DEF Hears
  <2> QED BY <1>0, <1>s, <2>2, SubFacts DEF Told
<1>1. CASE Connect(r, c)
  <2>1. PICK old \in {NoSub, sub[r][c]} :
          SetSub(r, c, [old EXCEPT !.pc = "reading", !.by = "none", !.end = "none"])
    BY <1>1 DEF Connect
  <2> DEFINE row == [old EXCEPT !.pc = "reading", !.by = "none", !.end = "none"]
  <2>2. /\ row \in Sub /\ row.by = "none" /\ row.end = "none"
        /\ row.cursor = old.cursor /\ row.seen = old.seen /\ row.made = old.made
    <3>1. NoSub \in Sub BY DEF NoSub, Sub
    <3>2. old \in Sub BY <1>f, <3>1
    <3> QED BY <3>2 DEF Sub
  <2>3. SetSub(r, c, row) BY <2>1
  <2> HIDE DEF row
  <2>4. CASE old = sub[r][c] BY <1>0, <2>2, <2>3, <2>4
  <2>5. CASE old = NoSub
    <3>1. Hears(r, c, 0, row) BY <2>2, <2>5, SubFacts DEF Hears, NoSub
    <3> QED BY <1>s, <2>2, <2>3, <3>1, SubFacts DEF Told
  <2> QED BY <2>4, <2>5
<1>2. CASE Read(r, c)
  <2>1. PICK n \in 0..MaxBatch :
          LET last == stream[r][sub[r][c].cursor + n] IN
          /\ Delivers(r, c, n)
          /\ SetSub(r, c, IF n > 0 /\ EndsStream(last)
                          THEN Done(Receive(r, c, n), "event", last.kind)
                          ELSE [Receive(r, c, n) EXCEPT !.pc = "looking"])
    BY <1>2 DEF Read
  <2> DEFINE last == stream[r][sub[r][c].cursor + n]
             got == Receive(r, c, n)
  <2>2. /\ got \in Sub /\ got.cursor = sub[r][c].cursor + n /\ got.made = sub[r][c].made
        /\ got.seen = sub[r][c].seen \union {stream[r][sub[r][c].cursor + m] : m \in 1..n}
        /\ got.by = sub[r][c].by /\ got.end = sub[r][c].end
    BY <2>1, ReceivedType
  <2> HIDE DEF last, got
  <2>3. CASE n > 0 /\ EndsStream(last)
    <3> DEFINE row == Done(got, "event", last.kind)
    <3>1. SetSub(r, c, row) BY <2>1, <2>3 DEF last, got
    <3>2. row \in Sub BY <2>2, <2>3 DEF Done, Sub, EndsStream
    <3>3. /\ row.cursor = got.cursor /\ row.seen = got.seen /\ row.made = got.made
          /\ row.by = "event" /\ row.end = last.kind
      BY <2>2 DEF Done, Sub
    <3> HIDE DEF row
    <3>4. Hears(r, c, n, row) BY <2>1, <2>2, <2>3, <3>3 DEF Hears, last
    <3> QED BY <1>s, <3>1, <3>2, <3>4 DEF Told
  <2>4. CASE ~(n > 0 /\ EndsStream(last))
    <3> DEFINE row == [got EXCEPT !.pc = "looking"]
    <3>0. SetSub(r, c, IF n > 0 /\ EndsStream(last)
                       THEN Done(got, "event", last.kind) ELSE row)
      BY <2>1 DEF last, got
    <3>1. SetSub(r, c, row) BY <2>4, <3>0 DEF SetSub
    <3>2. /\ row \in Sub /\ row.cursor = got.cursor /\ row.seen = got.seen /\ row.made = got.made
          /\ row.by = got.by /\ row.end = got.end
      BY <2>2 DEF Sub
    <3> HIDE DEF row
    <3>3. Hears(r, c, n, row) BY <2>1, <2>2, <3>2 DEF Hears
    <3> QED BY <1>s, <3>1, <3>2, <3>3 DEF Told
  <2> QED BY <2>3, <2>4
<1>3. CASE Look(r, c)
  <2>1. CASE run[r].status \in Terminal
    <3> DEFINE row == Done(MakeUp(sub[r][c]), "recovery", run[r].status)
    <3>1. SetSub(r, c, row) BY <1>3, <2>1 DEF Look, SetSub, Active, Terminal
    <3>2. MakeUp(sub[r][c]) \in Sub
      <4>1. PICK k \in Nat : sub[r][c].cursor = k BY SubFacts
      <4>2. k + 1 \in Nat OBVIOUS
      <4>3. sub[r][c].made \union {k + 1} \in SUBSET Nat BY <1>f, <4>2 DEF Sub
      <4> QED BY <1>f, <4>1, <4>2, <4>3 DEF MakeUp, Sub
    <3>3. /\ row \in Sub /\ row.cursor = sub[r][c].cursor + 1 /\ row.seen = sub[r][c].seen
          /\ row.made = sub[r][c].made \union {sub[r][c].cursor + 1}
          /\ row.by = "recovery" /\ row.end = run[r].status
      BY <1>f, <2>1, <3>2 DEF Done, MakeUp, Sub
    <3> HIDE DEF row
    <3>4. Hears(r, c, 0, row) BY <2>1, <3>3, SubFacts DEF Hears
    <3> QED BY <1>s, <3>1, <3>3, <3>4, SubFacts DEF Told
  <2>2. CASE run[r].status \in Active
    <3> DEFINE row == [sub[r][c] EXCEPT !.pc = "waiting"]
    <3>1. SetSub(r, c, row) BY <1>3, <2>2 DEF Look, SetSub, Active, Terminal
    <3>2. /\ row \in Sub /\ row.cursor = sub[r][c].cursor /\ row.seen = sub[r][c].seen
          /\ row.made = sub[r][c].made
          /\ row.by = sub[r][c].by /\ row.end = sub[r][c].end
      BY <1>f DEF Sub
    <3> QED BY <1>0, <3>1, <3>2
  <2>3. CASE run[r].status \notin Active \union Terminal
    <3> DEFINE row == Done(sub[r][c], "lost", "none")
    <3>1. SetSub(r, c, row) BY <1>3, <2>3 DEF Look, SetSub
    <3>2. /\ row \in Sub /\ row.cursor = sub[r][c].cursor /\ row.seen = sub[r][c].seen
          /\ row.made = sub[r][c].made
          /\ row.by = "lost" /\ row.end = "none"
      BY <1>f DEF Done, Sub
    <3> QED BY <1>0, <3>1, <3>2
  <2> QED BY <2>1, <2>2, <2>3
<1>4. CASE Wait(r, c)
  <2> DEFINE row == [sub[r][c] EXCEPT !.pc = "reading"]
  <2>1. SetSub(r, c, row) BY <1>4 DEF Wait
  <2>2. /\ row \in Sub /\ row.cursor = sub[r][c].cursor /\ row.seen = sub[r][c].seen
        /\ row.made = sub[r][c].made
        /\ row.by = sub[r][c].by /\ row.end = sub[r][c].end
    BY <1>f DEF Sub
  <2> QED BY <1>0, <2>1, <2>2
<1>5. CASE StreamFails(r, c)
  <2> DEFINE row == Done(sub[r][c], "error", "none")
  <2>1. SetSub(r, c, row) BY <1>5 DEF StreamFails
  <2>2. /\ row \in Sub /\ row.cursor = sub[r][c].cursor /\ row.seen = sub[r][c].seen
        /\ row.made = sub[r][c].made
        /\ row.by = "error" /\ row.end = "none"
    BY <1>f DEF Done, Sub
  <2> QED BY <1>0, <2>1, <2>2
<1>6. CASE Disconnect(r, c)
  <2>1. PICK n \in 0..MaxBatch :
          /\ Delivers(r, c, n)
          /\ SetSub(r, c, Done(Receive(r, c, n), "lost", "none"))
    BY <1>6 DEF Disconnect
  <2> DEFINE got == Receive(r, c, n)
             row == Done(got, "lost", "none")
  <2>2. /\ got \in Sub /\ got.cursor = sub[r][c].cursor + n /\ got.made = sub[r][c].made
        /\ got.seen = sub[r][c].seen \union {stream[r][sub[r][c].cursor + m] : m \in 1..n}
    BY <2>1, ReceivedType
  <2>3. SetSub(r, c, row) BY <2>1
  <2> HIDE DEF got
  <2>4. /\ row \in Sub /\ row.cursor = got.cursor /\ row.seen = got.seen /\ row.made = got.made
        /\ row.by = "lost" /\ row.end = "none"
    BY <2>2 DEF Done, Sub
  <2> HIDE DEF row
  <2>5. Hears(r, c, n, row) BY <2>1, <2>2, <2>4 DEF Hears
  <2> QED BY <1>s, <2>3, <2>4, <2>5 DEF Told
<1> QED BY <1>1, <1>2, <1>3, <1>4, <1>5, <1>6 DEF SubStep

LEMMA SubMoves ==
  ASSUME EventInv, [EventNext]_vars
  PROVE  sub' = sub \/ \E r \in Runs, c \in Clients, row \in Sub : Told(r, c, row)
<1>1. CASE RowStep BY <1>1 DEF RowStep, eventVars
<1>2. CASE UNCHANGED vars BY <1>2 DEF vars
<1>3. ASSUME NEW r \in Runs,
             \/ \E w \in Workers : Claim(r, w)
             \/ GraphEvent(r) \/ PumpStep(r) \/ Accident(r) \/ Expire(r)
      PROVE  sub' = sub
  BY <1>3 DEF Claim, GraphEvent, PumpStep, PumpTakes, PumpStores, Accident, BeginBreaks,
              CallFails, CancelAtAwait, CancelPump, Crash, PumpFails, Expire, Quiet, Watched
<1>4. ASSUME NEW r \in Runs, ExecStep(r) PROVE sub' = sub
  BY <1>4 DEF ExecStep, Begin, BeginRefused, GraphEnds, Pause, Commit, Refused, Announce, Fail,
              CancelEnds, Close, Flush, Quiet, Watched
<1>5. ASSUME NEW r \in Runs, NEW c \in Clients,
             Connect(r, c) \/ SubStep(r, c) \/ StreamFails(r, c) \/ Disconnect(r, c)
      PROVE  \E row \in Sub : Told(r, c, row)
  BY <1>5, ClientSteps DEF Told
<1> QED BY <1>1, <1>2, <1>3, <1>4, <1>5 DEF EventNext

---------------------------------------------------------------------------
(* The invariant.                                                          *)

LEMMA EventInitInv == EventInit => EventInv
<1> SUFFICES ASSUME EventInit PROVE EventInv OBVIOUS
<1>1. RepoTypeOK BY InitType DEF EventInit
<1>2. NoExec \in Exec BY DEF NoExec, Exec, PC
<1>3. NoSub \in Sub BY DEF NoSub, Sub
<1>4. EventTypeOK
  BY <1>1, <1>2, <1>3, NoPumpType DEF EventInit, EventTypeOK, PumpType
<1>5. ASSUME NEW r \in Runs PROVE RunInv(r)
  <2>1. /\ run[r].status = "absent" /\ exec[r] = NoExec /\ pump[r] = NoPump
        /\ stream[r] = <<>>
    BY DEF EventInit, RepoInit, NewRow
  <2>2. /\ Len(NoPump.queue) = 0 /\ Len(NoPump.busy) = 0 /\ Pending(NoPump) = 0
    BY DEF NoPump, Pending
  <2>3. /\ Numbered(0, 0, NoPump, <<>>) /\ Ordered(<<>>)
        /\ SaysLast(NoPump, <<>>) /\ Silent(NoPump, <<>>)
    BY <2>2 DEF Numbered, Ordered, SaysLast, Silent, Says, NoPump
  <2>4. /\ NoExec.pc = "idle" /\ NoExec.token = 0 /\ NoExec.nr = 0 BY DEF NoExec
  <2> QED BY <2>1, <2>3, <2>4 DEF RunInv, FlowInv, RowInv
<1> QED BY <1>4, <1>5 DEF EventInv

(* An answered run stays answered, or goes with its session.               *)
LEMMA AnsweredStays ==
  ASSUME RepoTypeOK, [RepoNext]_repoVars, NEW r \in Runs, NEW x \in Terminal,
         run[r].status \in {x, "deleted"}
  PROVE  run'[r].status \in {x, "deleted"}
<1>1. CASE UNCHANGED repoVars BY <1>1 DEF repoVars
<1>2. CASE RepoNext BY <1>2, RowSteps, DeletedStays
<1> QED BY <1>1, <1>2

LEMMA TypesStay ==
  ASSUME EventInv, [EventNext]_vars
  PROVE  EventTypeOK'
<1>1. RepoTypeOK' BY StepsAllowed, StepType DEF EventInv, EventTypeOK
<1>2. /\ exec' \in [Runs -> Exec]
      /\ \A r \in Runs : PumpType(pump'[r])
      /\ pump' \in [Runs -> Pump]
      /\ stream' \in [Runs -> Seq(Event)]
  <2>f. /\ exec \in [Runs -> Exec] /\ pump \in [Runs -> Pump] /\ stream \in [Runs -> Seq(Event)]
        /\ \A r \in Runs : PumpType(pump[r])
    BY Facts DEF EventInv, EventTypeOK
  <2>1. CASE UNCHANGED <<exec, pump, stream>> BY <2>1, <2>f
  <2>2. ASSUME NEW r \in Runs, Sound(r)
        PROVE  /\ exec' \in [Runs -> Exec]
               /\ \A o \in Runs : PumpType(pump'[o])
               /\ pump' \in [Runs -> Pump]
               /\ stream' \in [Runs -> Seq(Event)]
    BY <2>2, <2>f DEF Sound, Touches, Typed, PumpType
  <2> QED BY <2>1, <2>2, StepIsSound
<1>3. sub' \in [Runs -> [Clients -> Sub]]
  <2>1. sub \in [Runs -> [Clients -> Sub]] BY DEF EventInv, EventTypeOK
  <2>2. ASSUME NEW r \in Runs, NEW c \in Clients, NEW row \in Sub, Told(r, c, row)
        PROVE  sub' \in [Runs -> [Clients -> Sub]]
    BY <2>1, <2>2 DEF Told
  <2> QED BY <2>1, <2>2, SubMoves
<1>4. faults' \in Nat /\ cancels' \in Nat /\ expiries' \in Nat
  <2>0. faults \in Nat /\ cancels \in Nat /\ expiries \in Nat BY DEF EventInv, EventTypeOK
  <2>6. /\ Fault => faults' \in Nat
        /\ Strike => cancels' \in Nat
        /\ UNCHANGED faults => faults' \in Nat
        /\ UNCHANGED cancels => cancels' \in Nat
        /\ UNCHANGED expiries => expiries' \in Nat
        /\ Calm => faults' \in Nat /\ cancels' \in Nat /\ expiries' \in Nat
    BY <2>0 DEF Fault, Strike, Calm
  <2>1. CASE RowStep \/ UNCHANGED vars BY <2>0, <2>1 DEF RowStep, eventVars, vars
  <2>2. ASSUME NEW r \in Runs,
               \/ \E w \in Workers : Claim(r, w)
               \/ GraphEvent(r) \/ PumpStep(r) \/ Expire(r)
        PROVE  faults' \in Nat /\ cancels' \in Nat /\ expiries' \in Nat
    <3>1. ASSUME NEW w \in Workers, Claim(r, w) PROVE Calm BY <3>1 DEF Claim, Quiet
    <3>2. CASE GraphEvent(r) BY <2>6, <3>2 DEF GraphEvent, Quiet
    <3>3. CASE PumpStep(r) BY <2>6, <3>3 DEF PumpStep, PumpTakes, PumpStores, Quiet
    <3>4. CASE Expire(r) BY <2>0, <2>6, <3>4 DEF Expire
    <3> QED BY <2>2, <2>6, <3>1, <3>2, <3>3, <3>4
  <2>3. ASSUME NEW r \in Runs, Accident(r)
        PROVE  faults' \in Nat /\ cancels' \in Nat /\ expiries' \in Nat
    <3>1. CASE BeginBreaks(r) BY <2>0, <2>6, <3>1 DEF BeginBreaks
    <3>2. CASE CallFails(r) BY <2>0, <2>6, <3>2 DEF CallFails
    <3>3. CASE CancelAtAwait(r) BY <2>0, <2>6, <3>3 DEF CancelAtAwait
    <3>4. CASE CancelPump(r) BY <2>0, <2>6, <3>4 DEF CancelPump
    <3>5. CASE Crash(r) BY <2>0, <2>6, <3>5 DEF Crash
    <3>6. CASE PumpFails(r) BY <2>0, <2>6, <3>6 DEF PumpFails
    <3> QED BY <2>3, <3>1, <3>2, <3>3, <3>4, <3>5, <3>6 DEF Accident
  <2>4. ASSUME NEW r \in Runs, ExecStep(r)
        PROVE  faults' \in Nat /\ cancels' \in Nat /\ expiries' \in Nat
    <3>1. CASE Begin(r) BY <2>6, <3>1 DEF Begin, Quiet
    <3>2. CASE BeginRefused(r) BY <2>6, <3>2 DEF BeginRefused, Quiet
    <3>3. CASE GraphEnds(r) BY <2>6, <3>3 DEF GraphEnds, Quiet
    <3>4. CASE Pause(r) BY <2>6, <3>4 DEF Pause, Quiet
    <3>5. CASE Commit(r) BY <2>6, <3>5 DEF Commit, Quiet
    <3>6. CASE Refused(r) BY <2>6, <3>6 DEF Refused, Quiet
    <3>7. CASE Announce(r) BY <2>6, <3>7 DEF Announce, Quiet
    <3>8. CASE Fail(r) BY <2>6, <3>8 DEF Fail, Quiet
    <3>9. CASE CancelEnds(r) BY <2>6, <3>9 DEF CancelEnds, Quiet
    <3>10. CASE Close(r) BY <2>6, <3>10 DEF Close, Quiet
    <3>11. CASE Flush(r, "pauseflush") \/ Flush(r, "leaving") BY <2>6, <3>11 DEF Flush, Quiet
    <3> QED BY <2>4, <3>1, <3>2, <3>3, <3>4, <3>5, <3>6, <3>7, <3>8, <3>9, <3>10, <3>11 DEF ExecStep
  <2>5. ASSUME NEW r \in Runs, NEW c \in Clients,
               Connect(r, c) \/ SubStep(r, c) \/ StreamFails(r, c) \/ Disconnect(r, c)
        PROVE  faults' \in Nat /\ cancels' \in Nat /\ expiries' \in Nat
    <3>1. CASE Connect(r, c) BY <2>6, <3>1 DEF Connect
    <3>2. CASE Read(r, c) BY <2>6, <3>2 DEF Read
    <3>3. CASE Look(r, c) BY <2>6, <3>3 DEF Look
    <3>4. CASE Wait(r, c) BY <2>6, <3>4 DEF Wait
    <3>5. CASE StreamFails(r, c) BY <2>6, <3>5 DEF StreamFails
    <3>6. CASE Disconnect(r, c) BY <2>6, <3>6 DEF Disconnect
    <3> QED BY <2>5, <3>1, <3>2, <3>3, <3>4, <3>5, <3>6 DEF SubStep
  <2> QED BY <2>1, <2>2, <2>3, <2>4, <2>5 DEF EventNext
<1> QED BY <1>1, <1>2, <1>3, <1>4 DEF EventTypeOK, PumpType

LEMMA EventStep ==
  ASSUME EventInv, [EventNext]_vars
  PROVE  EventInv'
<1>1. EventTypeOK' BY TypesStay
<1>2. RepoTypeOK /\ RepoTypeOK' /\ [RepoNext]_repoVars
  BY <1>1, StepsAllowed DEF EventInv, EventTypeOK
<1> SUFFICES ASSUME NEW r \in Runs PROVE RunInv(r)'
  BY <1>1 DEF EventInv
<1>f. /\ FlowInv(exec[r], pump[r], stream[r]) /\ RowInv(r)
      /\ exec \in [Runs -> Exec] /\ pump \in [Runs -> Pump] /\ stream \in [Runs -> Seq(Event)]
  BY Facts
<1>3. FlowInv(exec'[r], pump'[r], stream'[r]) /\ Minds(r)
  <2>1. CASE exec'[r] = exec[r] /\ pump'[r] = pump[r] /\ stream'[r] = stream[r]
    BY <1>f, <2>1 DEF Minds, RowInv
  <2>2. CASE Sound(r) BY <2>2 DEF Sound
  <2>3. ASSUME NEW o \in Runs, Sound(o), o # r
        PROVE  exec'[r] = exec[r] /\ pump'[r] = pump[r] /\ stream'[r] = stream[r]
    BY <1>f, <2>3 DEF Sound, Touches
  <2> QED BY <2>1, <2>2, <2>3, StepIsSound
<1>4. RowInv(r)'
  <2>1. run'[r].status = "absent" => exec'[r].token = 0 /\ exec'[r].pc = "idle"
    <3>1. run'[r].status = "absent" => run[r].status = "absent" BY <1>2, RowsStay
    <3> QED BY <1>3, <1>f, <3>1 DEF Minds, RowInv
  <2>2. ASSUME run'[r].status # "absent" PROVE exec'[r].token <= session'[Home(r)'].fence
    <3>0. /\ session'[Home(r)'].fence \in Nat
      <4>1. /\ session' \in [Sessions -> SessionRow] /\ Home(r)' \in Sessions
        BY <1>2, <2>2 DEF RepoTypeOK, Anchored, Home
      <4> QED BY <4>1 DEF SessionRow
    <3>1. CASE run[r].status = "absent"
      <4>1. exec'[r].token = 0 BY <1>3, <1>f, <3>1 DEF Minds, RowInv
      <4> QED BY <3>0, <4>1
    <3>2. CASE run[r].status # "absent"
      <4>1. Home(r)' = Home(r) /\ session'[Home(r)].fence >= session[Home(r)].fence
        BY <1>2, <3>2, RowsStay DEF Home
      <4>2. session[Home(r)].fence \in Nat
        BY <1>2, <3>2, HomeIsASession DEF SessionRow
      <4>3. PICK a \in Nat, b \in Nat, k \in Nat :
              a = session[Home(r)].fence /\ b = session'[Home(r)].fence /\ k = exec[r].token
        BY <3>0, <4>1, <4>2, Facts
      <4>4. a <= b /\ k <= a BY <1>f, <3>2, <4>1, <4>3 DEF RowInv
      <4>5. k <= b BY <4>4
      <4>6. exec'[r].token = exec[r].token \/ exec'[r].token = session'[Home(r)].fence
        BY <1>3 DEF Minds
      <4> QED BY <4>1, <4>3, <4>5, <4>6
    <3> QED BY <3>1, <3>2
  <2>3. exec'[r].pc # "idle" => exec'[r].worker \in Workers /\ exec'[r].token # 0
    BY <1>3 DEF Minds
  <2>4. exec'[r].pc = "recording" \/ ~Silent(pump'[r], stream'[r]) => run'[r].status \in Answered
    <3>1. run[r].status \in Answered => run'[r].status \in Answered
      <4>1. "completed" \in Terminal BY DEF Terminal
      <4> QED BY <1>2, <4>1, AnsweredStays DEF Answered
    <3> QED BY <1>3, <1>f, <3>1 DEF Minds, RowInv, Answered
  <2> QED BY <2>1, <2>2, <2>3, <2>4 DEF RowInv
<1> QED BY <1>3, <1>4 DEF RunInv

LEMMA EventInvHolds == EventSpec => []EventInv
<1>1. EventInv /\ [EventNext]_vars => EventInv' BY EventStep
<1> QED BY EventInitInv, <1>1, PTL DEF EventSpec

---------------------------------------------------------------------------
(* The theorems.                                                           *)

LEMMA SoundStream == EventInv => StreamIsSound
<1> SUFFICES ASSUME EventInv PROVE StreamIsSound OBVIOUS
<1>1. EventTypeOK BY DEF EventInv
<1>2. ASSUME NEW r \in Runs
      PROVE  /\ DOMAIN stream[r] = 1..Len(stream[r])
             /\ Ordered(stream[r]) /\ SaysLast(pump[r], stream[r])
  BY Facts, LenProperties DEF FlowInv
<1>3. StreamKeepsOrder BY <1>2 DEF StreamKeepsOrder, Ordered
<1>4. CompletedIsLast BY <1>2 DEF CompletedIsLast, SaysLast
<1> QED BY <1>1, <1>3, <1>4 DEF StreamIsSound

(* Only Close says "ok", and only of a drained pump that has not failed.    *)
LEMMA OkMeansClosed ==
  ASSUME EventInv, [EventNext]_vars, NEW r \in Runs,
         exec'[r].ended = "ok", exec[r].ended # "ok"
  PROVE  exec[r].pc # "idle" /\ Drained(r) /\ ~pump[r].failed
<1>f. exec \in [Runs -> Exec] /\ exec[r] \in Exec /\ PumpType(pump[r]) BY Facts
<1>0. ASSUME exec' = exec PROVE FALSE BY <1>0
<1>1. ASSUME NEW o \in Runs, Close(o) PROVE exec[r].pc # "idle" /\ Drained(r) /\ ~pump[r].failed
  <2>1. o = r BY <1>1, <1>f DEF Close, End
  <2>2. ~(exec[r].raised \/ pump[r].failed)
    <3>1. ASSUME exec[r].raised \/ pump[r].failed PROVE FALSE
      <4>1. End(r, "raised") BY <1>1, <2>1, <3>1 DEF Close, End
      <4> QED BY <1>f, <4>1 DEF End, Exec
    <3> QED BY <3>1
  <2> QED BY <1>1, <2>1, <2>2 DEF Close
<1>2. ASSUME NEW o \in Runs, NEW how \in {"raised", "crashed"}, End(o, how) PROVE FALSE
  BY <1>2, <1>f DEF End, Exec
<1>3. ASSUME NEW o \in Runs, NEW pc, Goto(o, pc) \/ RaiseTo(o, pc) PROVE FALSE
  BY <1>3, <1>f DEF Goto, RaiseTo, Exec
<1>4. ASSUME NEW o \in Runs, NEW p, NEW ok, NEW ko, Publish(o, p, ok, ko) PROVE FALSE
  BY <1>4, <1>f DEF Publish, Exec
<1>5. ASSUME NEW o \in Runs, NEW k, Say(o, k) PROVE FALSE
  BY <1>5, <1>f DEF Say, Exec
<1>6. ASSUME NEW o \in Runs, NEW w \in Workers, Claim(o, w) PROVE FALSE
  BY <1>6, <1>f DEF Claim, NoExec, Exec
<1>7. ASSUME NEW o \in Runs, Begin(o) PROVE FALSE
  BY <1>7, <1>f DEF Begin, Exec
<1>8. CASE RowStep \/ UNCHANGED vars BY <1>0, <1>8 DEF RowStep, eventVars, vars
<1>9. ASSUME NEW o \in Runs, ExecStep(o) \/ GraphEvent(o)
      PROVE  exec[r].pc # "idle" /\ Drained(r) /\ ~pump[r].failed
  <2>1. CASE Begin(o) BY <1>7, <2>1
  <2>2. CASE BeginRefused(o) BY <1>2, <2>2 DEF BeginRefused
  <2>3. CASE GraphEnds(o) BY <1>3, <2>3 DEF GraphEnds
  <2>4. CASE Pause(o) BY <1>4, <2>4 DEF Pause, Publish2
  <2>5. CASE Commit(o) BY <1>3, <2>5 DEF Commit
  <2>6. CASE Refused(o) BY <1>3, <2>6 DEF Refused
  <2>7. CASE Announce(o) BY <1>4, <2>7 DEF Announce, Publish2
  <2>8. CASE Fail(o) BY <1>3, <1>5, <2>8 DEF Fail
  <2>9. CASE CancelEnds(o) BY <1>5, <2>9 DEF CancelEnds
  <2>10. CASE Close(o) BY <1>1, <2>10
  <2>11. CASE Flush(o, "pauseflush") \/ Flush(o, "leaving") BY <1>3, <2>11 DEF Flush
  <2>12. CASE GraphEvent(o) BY <1>4, <2>12 DEF GraphEvent, Publish1
  <2> QED BY <1>9, <2>1, <2>2, <2>3, <2>4, <2>5, <2>6, <2>7, <2>8, <2>9, <2>10, <2>11,
             <2>12 DEF ExecStep
<1>10. ASSUME NEW o \in Runs, PumpStep(o) \/ Expire(o) \/ PumpFails(o) PROVE FALSE
  BY <1>0, <1>10 DEF PumpStep, PumpTakes, PumpStores, Expire, PumpFails
<1>11. ASSUME NEW o \in Runs, Accident(o) PROVE FALSE
  <2>1. CASE BeginBreaks(o) BY <1>2, <2>1 DEF BeginBreaks
  <2>2. CASE CallFails(o) BY <1>3, <2>2 DEF CallFails
  <2>3. CASE CancelAtAwait(o) BY <1>3, <2>3 DEF CancelAtAwait
  <2>4. CASE CancelPump(o) BY <1>2, <2>4 DEF CancelPump
  <2>5. CASE Crash(o) BY <1>2, <2>5 DEF Crash
  <2>6. CASE PumpFails(o) BY <1>10, <2>6
  <2> QED BY <1>11, <2>1, <2>2, <2>3, <2>4, <2>5, <2>6 DEF Accident
<1>12. ASSUME NEW o \in Runs, NEW c \in Clients,
              Connect(o, c) \/ SubStep(o, c) \/ StreamFails(o, c) \/ Disconnect(o, c)
       PROVE  FALSE
  BY <1>0, <1>12 DEF Connect, SubStep, Read, Look, Wait, StreamFails, Disconnect, SetSub
<1> QED BY <1>6, <1>8, <1>9, <1>10, <1>11, <1>12 DEF EventNext

LEMMA FlushedStep ==
  ASSUME EventInv, [EventNext]_vars, NEW r \in Runs,
         exec'[r].ended = "ok", exec[r].ended # "ok"
  PROVE  EndsWith(exec[r].token, exec[r].nr, stream[r])
<1>1. exec[r].pc # "idle" /\ Drained(r) /\ ~pump[r].failed BY OkMeansClosed
<1>2. Stored(exec[r].token, exec[r].nr, pump[r], stream[r]) BY <1>1, Facts DEF FlowInv
<1>3. Pending(pump[r]) = 0 BY <1>1 DEF Drained, Pending
<1>4. exec[r].nr - 0 = exec[r].nr BY Facts
<1> QED BY <1>1, <1>2, <1>3, <1>4 DEF Stored

(* Whatever fails, is cancelled, crashes or expires: the stream of a run    *)
(* keeps the order of publication and stores nothing twice, nothing        *)
(* follows "completed", an execution that ends without an exception has    *)
(* stored exactly what it published, and publishing is a stutter of the    *)
(* tables (run_event_pump.py, redis_run_event_bus.py, chat_run_executor).  *)
THEOREM EventsHold == EventSpec => EventsAreSound
<1>1. EventInv /\ [EventNext]_vars => [RepoNext]_repoVars BY StepsAllowed
<1>2. EventInv /\ [EventNext]_vars =>
        [\A r \in Runs :
           exec'[r].ended = "ok" /\ exec[r].ended # "ok" =>
             LET before == Len(stream[r]) - exec[r].nr IN
             /\ before >= 0
             /\ \A i \in 1..before : stream[r][i].token # exec[r].token
             /\ \A i \in 1..exec[r].nr :
                  stream[r][before + i].token = exec[r].token
                    /\ stream[r][before + i].nr = i]_vars
  BY FlushedStep DEF EndsWith
<1>3. EventInit => RepoInit BY DEF EventInit
<1>4. EventSpec => []StreamIsSound BY EventInvHolds, SoundStream, PTL
<1>5. EventSpec => FlushedMeansStored
  BY EventInvHolds, <1>2, PTL DEF EventSpec, FlushedMeansStored
<1>6. EventSpec => ImplementsRepository
  BY EventInvHolds, <1>1, <1>3, PTL DEF EventSpec, ImplementsRepository
<1> QED BY <1>4, <1>5, <1>6 DEF EventsAreSound

(* A line that ended a client's stream and the row agree for good.         *)
EndInv ==
  \A r \in Runs, c \in Clients :
    sub[r][c].end = "completed" \/ sub[r][c].by = "recovery" =>
      sub[r][c].end \in Terminal /\ run[r].status \in {sub[r][c].end, "deleted"}

LEMMA EndStep ==
  ASSUME EventInv, EndInv, [EventNext]_vars
  PROVE  EndInv'
<1> SUFFICES ASSUME NEW r \in Runs, NEW c \in Clients,
                    sub'[r][c].end = "completed" \/ sub'[r][c].by = "recovery"
             PROVE  /\ sub'[r][c].end \in Terminal
                    /\ run'[r].status \in {sub'[r][c].end, "deleted"}
  BY DEF EndInv
<1>1. CASE sub'[r][c] = sub[r][c]
  BY <1>1, AnsweredStays, StepsAllowed DEF EndInv, EventInv, EventTypeOK
<1>2. ASSUME NEW row, Told(r, c, row)
      PROVE  /\ sub'[r][c].end \in Terminal
             /\ run'[r].status \in {sub'[r][c].end, "deleted"}
  <2>1. sub'[r][c] = row /\ run' = run BY <1>2, SubFacts DEF Told
  <2>2. PICK n \in 0..MaxBatch : Hears(r, c, n, row) BY <1>2 DEF Told
  <2>3. CASE row.by = sub[r][c].by /\ row.end = sub[r][c].end
    BY <2>1, <2>3 DEF EndInv
  <2>4. CASE row.by # "recovery" /\ row.end = "none"
    BY <2>1, <2>4
  <2>5. CASE n > 0 /\ row.by = "event" /\ row.end = stream[r][sub[r][c].cursor + n].kind
    <3>1. n \in 1..n BY <2>5
    <3>2. sub[r][c].cursor + n \in 1..Len(stream[r])
      BY <2>2, <3>1, LinesAreEvents DEF Hears
    <3>3. stream[r][sub[r][c].cursor + n].kind = "completed" BY <2>1, <2>5
    <3>4. Says(stream[r]) BY <3>2, <3>3 DEF Says
    <3>5. run[r].status \in Answered BY <3>4, Facts DEF RowInv, Silent
    <3> QED BY <2>1, <2>5, <3>3, <3>5 DEF Answered, Terminal
  <2>6. CASE run[r].status \in Terminal /\ row.by = "recovery" /\ row.end = run[r].status
    BY <2>1, <2>6
  <2> QED BY <2>2, <2>3, <2>4, <2>5, <2>6 DEF Hears
<1>3. ASSUME NEW o \in Runs, NEW d \in Clients, NEW row, Told(o, d, row), o # r \/ d # c
      PROVE  sub'[r][c] = sub[r][c]
  BY <1>3, SubFacts DEF Told
<1> QED BY <1>1, <1>2, <1>3, SubMoves

(* A stream that a client saw end with "completed", or with a line made up  *)
(* from the row, told the truth, and the row can never say anything else   *)
(* again, even if the stream expires, the execution is cancelled after its *)
(* commit or the process dies (chat_run_routes.py, stream_run_events).     *)
THEOREM EndsHold == EventSpec => []EndsAreTrue
<1>1. EventInit => EndInv
  BY DEF EventInit, NoSub, EndInv
<1>2. EventInv /\ EndInv /\ [EventNext]_vars => EndInv' BY EndStep
<1>3. EndInv => EndsAreTrue BY DEF EndInv, EndsAreTrue
<1> QED BY EventInvHolds, <1>1, <1>2, <1>3, PTL DEF EventSpec

(* A stream that does not expire only grows.                               *)
Grows(st, new) ==
  /\ Len(st) <= Len(new)
  /\ \A i \in 1..Len(st) : new[i] = st[i]

LEMMA StreamGrows ==
  ASSUME EventInv, [EventNext]_vars, MaxExpiries = 0, NEW r \in Runs
  PROVE  Grows(stream[r], stream'[r])
<1>f. stream \in [Runs -> Seq(Event)] /\ stream[r] \in Seq(Event) /\ PumpType(pump[r])
  BY Facts
<1>1. ASSUME stream'[r] = stream[r] PROVE Grows(stream[r], stream'[r])
  <2>1. PICK l \in Nat : Len(stream[r]) = l BY <1>f, StreamFacts
  <2> QED BY <1>1, <2>1 DEF Grows
<1>2. ASSUME stream'[r] = stream[r] \o pump[r].busy PROVE Grows(stream[r], stream'[r])
  <2>1. PICK l \in Nat : Len(stream[r]) = l BY <1>f, StreamFacts
  <2>2. pump[r].busy \in Seq(Event) BY <1>f, PumpFacts
  <2>3. PICK b \in Nat : Len(pump[r].busy) = b BY <2>2, LenProperties
  <2>4. /\ Len(stream'[r]) = Len(stream[r]) + Len(pump[r].busy)
        /\ \A i \in 1..(Len(stream[r]) + Len(pump[r].busy)) :
             stream'[r][i] = IF i <= Len(stream[r]) THEN stream[r][i]
                             ELSE pump[r].busy[i - Len(stream[r])]
    BY <1>2, <1>f, <2>2, ConcatProperties
  <2>5. \A i \in 1..l : i \in 1..(l + b) /\ i <= l OBVIOUS
  <2>6. l <= l + b OBVIOUS
  <2> QED BY <2>1, <2>3, <2>4, <2>5, <2>6 DEF Grows
<1>3. ASSUME NEW o \in Runs,
             stream' = stream \/ stream' = [stream EXCEPT ![o] = @ \o pump[o].busy]
      PROVE  Grows(stream[r], stream'[r])
  <2>1. stream'[r] = stream[r] \/ stream'[r] = stream[r] \o pump[r].busy BY <1>3, <1>f
  <2> QED BY <1>1, <1>2, <2>1
<1>4. CASE RowStep \/ UNCHANGED vars BY <1>1, <1>4 DEF RowStep, eventVars, vars
<1>5. ASSUME NEW o \in Runs, (\E w \in Workers : Claim(o, w)) \/ ExecStep(o) \/ GraphEvent(o)
      PROVE  stream' = stream
  BY <1>5 DEF Claim, GraphEvent, ExecStep, Begin, BeginRefused, GraphEnds, Pause, Commit,
              Refused, Announce, Fail, CancelEnds, Close, Flush, Quiet, Watched
<1>6. ASSUME NEW o \in Runs, PumpStep(o) \/ Accident(o)
      PROVE  stream' = stream \/ stream' = [stream EXCEPT ![o] = @ \o pump[o].busy]
  BY <1>6 DEF PumpStep, PumpTakes, PumpStores, Accident, BeginBreaks, CallFails, CancelAtAwait,
              CancelPump, Crash, PumpFails, Quiet, Watched
<1>7. ASSUME NEW o \in Runs, Expire(o) PROVE FALSE
  <2>1. PICK n \in Nat : expiries = n BY DEF EventInv, EventTypeOK
  <2>2. n < 0 BY <1>7, <2>1 DEF Expire
  <2> QED BY <2>2
<1>8. ASSUME NEW o \in Runs, NEW c \in Clients,
             Connect(o, c) \/ SubStep(o, c) \/ StreamFails(o, c) \/ Disconnect(o, c)
      PROVE  stream' = stream
  BY <1>8 DEF Connect, SubStep, Read, Look, Wait, StreamFails, Disconnect, SetSub
<1> QED BY <1>1, <1>3, <1>4, <1>5, <1>6, <1>7, <1>8 DEF EventNext

(* A client has everything up to its cursor but what made-up lines hide.   *)
Has(r, c, i) ==
  i \in sub[r][c].made \/ (i <= Len(stream[r]) /\ stream[r][i] \in sub[r][c].seen)

Caught(r, c) ==
  /\ \A i \in 1..sub[r][c].cursor : Has(r, c, i)
  /\ sub[r][c].made # {} => run[r].status \in Terminal \union {"deleted"}

LEMMA CaughtStep ==
  ASSUME EventInv, [EventNext]_vars, MaxExpiries = 0,
         NEW r \in Runs, NEW c \in Clients, Caught(r, c)
  PROVE  Caught(r, c)'
<1>1. PICK k \in Nat : sub[r][c].cursor = k BY SubFacts
<1>2. PICK l \in Nat : Len(stream[r]) = l BY Facts, StreamFacts
<1>3. \A i \in 1..k : Has(r, c, i) BY <1>1 DEF Caught
<1>4. CASE sub'[r][c] = sub[r][c]
  <2>1. stream'[r] \in Seq(Event) BY EventStep, Facts DEF EventInv, EventTypeOK
  <2>2. PICK m \in Nat : Len(stream'[r]) = m BY <2>1, StreamFacts
  <2>3. l <= m /\ \A i \in 1..l : stream'[r][i] = stream[r][i]
    BY <1>2, <2>2, StreamGrows DEF Grows
  <2>4. ASSUME NEW i \in 1..k PROVE Has(r, c, i)'
    <3>1. CASE i \in sub[r][c].made BY <1>4, <3>1 DEF Has
    <3>2. CASE i <= l /\ stream[r][i] \in sub[r][c].seen
      <4>1. i \in 1..l /\ i <= m BY <2>3, <3>2
      <4> QED BY <1>4, <2>2, <2>3, <3>2, <4>1 DEF Has
    <3> QED BY <1>2, <1>3, <3>1, <3>2 DEF Has
  <2>5. sub'[r][c].made # {} => run'[r].status \in Terminal \union {"deleted"}
    <3>1. ASSUME NEW x \in Terminal, run[r].status \in {x, "deleted"}
          PROVE  run'[r].status \in {x, "deleted"}
      BY <3>1, AnsweredStays, StepsAllowed DEF EventInv, EventTypeOK
    <3>2. "completed" \in Terminal BY DEF Terminal
    <3> QED BY <1>4, <3>1, <3>2 DEF Caught
  <2>6. sub'[r][c].cursor = k BY <1>1, <1>4
  <2> QED BY <2>4, <2>5, <2>6 DEF Caught
<1>5. ASSUME NEW row, Told(r, c, row) PROVE Caught(r, c)'
  <2>1. sub'[r][c] = row /\ stream' = stream /\ run' = run BY <1>5, SubFacts DEF Told
  <2>2. PICK n \in 0..MaxBatch : Hears(r, c, n, row) BY <1>5 DEF Told
  <2>3. CASE row.cursor = 0 /\ row.made = {} BY <2>1, <2>3 DEF Caught
  <2>4. CASE /\ row.cursor = sub[r][c].cursor + n /\ row.made = sub[r][c].made
             /\ row.seen = sub[r][c].seen \union
                             {stream[r][sub[r][c].cursor + m] : m \in 1..n}
    <3>1. row.cursor = k + n
          /\ row.seen = sub[r][c].seen \union {stream[r][k + m] : m \in 1..n}
      BY <1>1, <2>4
    <3>0. n \in Nat BY MaxBatchAssumption
    <3>2. ASSUME NEW i \in 1..(k + n) PROVE Has(r, c, i)'
      <4>1. CASE i \in 1..k
        <5>1. Has(r, c, i) BY <1>3, <4>1
        <5> QED BY <2>1, <2>4, <5>1 DEF Has
      <4>2. CASE i \notin 1..k
        <5>1. PICK m \in 1..n : i = k + m
          <6>1. i - k \in 1..n /\ i = k + (i - k) BY <3>0, <4>2
          <6> QED BY <6>1
        <5>2. k + m <= l BY <1>1, <1>2, <2>2, <5>1 DEF Hears, Delivers
        <5>3. stream[r][i] \in row.seen BY <3>1, <5>1
        <5> QED BY <1>2, <2>1, <5>1, <5>2, <5>3 DEF Has
      <4> QED BY <4>1, <4>2
    <3>3. row.made # {} => run[r].status \in Terminal \union {"deleted"} BY <2>4 DEF Caught
    <3> QED BY <2>1, <3>1, <3>2, <3>3 DEF Caught
  <2>5. CASE /\ run[r].status \in Terminal
             /\ row.cursor = sub[r][c].cursor + 1 /\ row.seen = sub[r][c].seen
             /\ row.made = sub[r][c].made \union {sub[r][c].cursor + 1}
    <3>1. row.cursor = k + 1 /\ row.made = sub[r][c].made \union {k + 1} BY <1>1, <2>5
    <3>2. ASSUME NEW i \in 1..(k + 1) PROVE Has(r, c, i)'
      <4>1. CASE i = k + 1 BY <2>1, <3>1, <4>1 DEF Has
      <4>2. CASE i # k + 1
        <5>1. i \in 1..k BY <4>2
        <5>2. Has(r, c, i) BY <1>3, <5>1
        <5> QED BY <2>1, <2>5, <5>2 DEF Has
      <4> QED BY <4>1, <4>2
    <3> QED BY <2>1, <2>5, <3>1, <3>2 DEF Caught
  <2> QED BY <2>2, <2>3, <2>4, <2>5 DEF Hears
<1>6. ASSUME NEW o \in Runs, NEW d \in Clients, NEW row, Told(o, d, row), o # r \/ d # c
      PROVE  sub'[r][c] = sub[r][c]
  BY <1>6, SubFacts DEF Told
<1> QED BY <1>4, <1>5, <1>6, SubMoves

(* While no stream outlives its time to live, a client that goes on after   *)
(* its last sequence, over disconnects, batches and segments, has every     *)
(* stored event up to there save those whose sequence a made-up line took,  *)
(* has such a line only of a run that had ended, and saw no false end       *)
(* (chat_run_routes.py, stream_run_events).  After an expiry the numbering  *)
(* restarts below the cursors; see the README.                             *)
THEOREM FollowersHold ==
  ASSUME MaxExpiries = 0
  PROVE  EventSpec => []FollowersAreTold
<1> DEFINE AllCaught == \A r \in Runs, c \in Clients : Caught(r, c)
<1>1. EventInit => AllCaught
  <2> SUFFICES ASSUME EventInit, NEW r \in Runs, NEW c \in Clients PROVE Caught(r, c)
    OBVIOUS
  <2>1. sub[r][c] = NoSub BY DEF EventInit
  <2>2. NoSub.cursor = 0 /\ NoSub.made = {} BY DEF NoSub
  <2> QED BY <2>1, <2>2 DEF Caught
<1>2. EventInv /\ AllCaught /\ [EventNext]_vars => AllCaught'
  <2> SUFFICES ASSUME EventInv, AllCaught, [EventNext]_vars, NEW r \in Runs, NEW c \in Clients
               PROVE  Caught(r, c)'
    OBVIOUS
  <2> QED BY CaughtStep
<1>3. EventInv /\ AllCaught => OnlyMadeUpLinesSkip
  <2> SUFFICES ASSUME EventInv, AllCaught, NEW r \in Runs, NEW c \in Clients
               PROVE  /\ \A i \in DOMAIN stream[r] :
                           i <= sub[r][c].cursor =>
                             stream[r][i] \in sub[r][c].seen \/ i \in sub[r][c].made
                      /\ sub[r][c].made # {} => run[r].status \in Terminal \union {"deleted"}
    BY DEF OnlyMadeUpLinesSkip
  <2>1. PICK k \in Nat : sub[r][c].cursor = k BY SubFacts
  <2>2. ASSUME NEW i \in DOMAIN stream[r], i <= k
        PROVE  stream[r][i] \in sub[r][c].seen \/ i \in sub[r][c].made
    <3>1. DOMAIN stream[r] = 1..Len(stream[r]) BY Facts, LenProperties
    <3>2. PICK l \in Nat : Len(stream[r]) = l BY Facts, StreamFacts
    <3>3. i \in 1..k BY <2>2, <3>1, <3>2
    <3> QED BY <2>1, <3>3 DEF Caught, Has
  <2> QED BY <2>1, <2>2 DEF Caught
<1> HIDE DEF AllCaught
<1>4. EventSpec => []OnlyMadeUpLinesSkip
  BY EventInvHolds, <1>1, <1>2, <1>3, PTL DEF EventSpec
<1> QED BY <1>4, EndsHold, PTL DEF FollowersAreTold
==============================================================================
