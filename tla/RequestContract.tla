---------------------------- MODULE RequestContract ----------------------------
(***************************************************************************)
(* What a session store promises of requests and turns, whatever keeps     *)
(* them (application/session_store.py, the methods of SessionStore): a     *)
(* request is owned by its newest claim, a turn comes with the completion  *)
(* of one, a completed request is not executed again while it is           *)
(* remembered.  Ended requests may be forgotten, a session as a whole.     *)
(***************************************************************************)
EXTENDS Integers, FiniteSets

CONSTANTS Rooms,      \* the sessions
          Keys        \* the requests

VARIABLES ledger,     \* per session and request, its status and owner
          told,       \* per session, turns so far
          overdue     \* per session, the requests whose record is past its time

contractVars == <<ledger, told, overdue>>

Unheard == [status |-> "none", owner |-> 0]
Ended(entry) == entry.status \in {"completed", "failed"}
NoneHeard == [k \in Keys |-> Unheard]

ContractInit ==
  ledger = [s \in Rooms |-> NoneHeard] /\ told = [s \in Rooms |-> 0] /\ overdue = [s \in Rooms |-> {}]

(* The others stay, or are ended and forgotten *)
OthersOf(s, k) ==
  \A other \in Keys \ {k} :
    \/ ledger'[s][other] = ledger[s][other]
    \/ Ended(ledger[s][other]) /\ ledger'[s][other] = Unheard

(* A claim takes what nobody has completed, or what is past its time *)
Claim(s, k) ==
  /\ ledger[s][k].status # "completed" \/ k \in overdue[s]
  /\ ledger'[s][k].status = "in_progress" /\ ledger'[s][k].owner # ledger[s][k].owner
  /\ told'[s] = told[s] /\ OthersOf(s, k)

(* An end keeps the owner; a store that is full may forget it at once *)
EndsAs(s, k, status) ==
  /\ ledger[s][k].status = "in_progress"
  /\ ledger'[s][k] \in {[ledger[s][k] EXCEPT !.status = status], Unheard}
  /\ OthersOf(s, k)

Complete(s, k) == EndsAs(s, k, "completed") /\ told'[s] = told[s] + 1
Fail(s, k) == EndsAs(s, k, "failed") /\ told'[s] = told[s]
Tell(s) == ledger'[s] = ledger[s] /\ told'[s] = told[s] + 1
Forget(s) ==
  /\ told'[s] = told[s]
  /\ \A k \in Keys : ledger'[s][k] = ledger[s][k] \/ (Ended(ledger[s][k]) /\ ledger'[s][k] = Unheard)
Clear(s) == ledger'[s] = NoneHeard /\ told'[s] = 0

RoomStep(s) ==
  \/ \E k \in Keys : Claim(s, k) \/ Complete(s, k) \/ Fail(s, k)
  \/ Tell(s) \/ Forget(s) \/ Clear(s)

ContractNext == \A s \in Rooms : RoomStep(s)

ContractSpec == ContractInit /\ [][ContractNext]_contractVars
=============================================================================
