----------------------------- MODULE RunLedger -----------------------------
(***************************************************************************)
(* What a client of durable chat runs may rely on, without workers, tokens *)
(* or clocks: each run moves through its phases, a session works on one    *)
(* run at a time, and a session's dialogue only grows at its end, by one   *)
(* entry in the very step that makes a run answered.                       *)
(***************************************************************************)
EXTENDS Integers, Sequences

CONSTANTS Sessions, Requests, Runs, Nil

VARIABLES
  phase,       \* [Runs -> Phases]
  home,        \* [Runs -> Sessions \union {Nil}]: the session of a run
  dialogue,    \* [Sessions -> sequence of entries]
  forgotten    \* sessions deleted

ledgerVars == <<phase, home, dialogue, forgotten>>

Live   == {"working", "asking", "stopping"}
Ended  == {"answered", "failed", "cancelled", "interrupted"}
Phases == Live \union Ended \union {"none", "gone"}
Entry  == [request: Requests, by: Runs \union {Nil}]

Init ==
  /\ phase = [r \in Runs |-> "none"]
  /\ home = [r \in Runs |-> Nil]
  /\ dialogue = [s \in Sessions |-> <<>>]
  /\ forgotten = {}

Move(r, from, to) == phase[r] = from /\ phase' = [phase EXCEPT ![r] = to]

Submit(r, s) ==
  /\ s \notin forgotten
  /\ \A o \in Runs : home[o] = s => phase[o] \notin Live
  /\ Move(r, "none", "working")
  /\ home' = [home EXCEPT ![r] = s]
  /\ UNCHANGED <<dialogue, forgotten>>

(* The run stops at a question, and goes on with the chosen option.        *)
Ask(r)    == Move(r, "working", "asking") /\ UNCHANGED <<home, dialogue, forgotten>>
Resume(r) == Move(r, "asking", "working") /\ UNCHANGED <<home, dialogue, forgotten>>

(* A stop request ends a waiting run at once and a working one later.      *)
Stop(r) ==
  /\ Move(r, "working", "stopping") \/ Move(r, "asking", "cancelled")
  /\ UNCHANGED <<home, dialogue, forgotten>>

Cancel(r) == Move(r, "stopping", "cancelled") /\ UNCHANGED <<home, dialogue, forgotten>>
Fail(r)   == Move(r, "working", "failed") /\ UNCHANGED <<home, dialogue, forgotten>>

(* Any number of runs may be given up in one step.                         *)
Interrupt(lost) ==
  /\ lost # {}
  /\ \A r \in lost : phase[r] \in {"working", "stopping"}
  /\ phase' = [r \in Runs |-> IF r \in lost THEN "interrupted" ELSE phase[r]]
  /\ UNCHANGED <<home, dialogue, forgotten>>

Write(s, q, by) ==
  /\ s \notin forgotten
  /\ \A i \in DOMAIN dialogue[s] : dialogue[s][i].request # q
  /\ dialogue' = [dialogue EXCEPT ![s] = Append(@, [request |-> q, by |-> by])]
  /\ UNCHANGED <<home, forgotten>>

Answer(r, q) == Move(r, "working", "answered") /\ Write(home[r], q, r)

(* A turn of the product chat, which is not a run.                         *)
Note(s, q) == Write(s, q, Nil) /\ UNCHANGED phase

Forget(s) ==
  /\ s \notin forgotten
  /\ forgotten' = forgotten \union {s}
  /\ dialogue' = [dialogue EXCEPT ![s] = <<>>]
  /\ phase' = [r \in Runs |-> IF home[r] = s THEN "gone" ELSE phase[r]]
  /\ UNCHANGED home

Next ==
  \/ \E r \in Runs :
       \/ \E s \in Sessions : Submit(r, s)
       \/ Ask(r) \/ Resume(r) \/ Stop(r) \/ Cancel(r) \/ Fail(r)
       \/ \E q \in Requests : Answer(r, q)
  \/ \E lost \in SUBSET Runs : Interrupt(lost)
  \/ \E s \in Sessions : Forget(s) \/ \E q \in Requests : Note(s, q)

Spec == Init /\ [][Next]_ledgerVars
=============================================================================
