------------------------------ MODULE MCProduct ------------------------------
(***************************************************************************)
(* Product chat, the browser that shows it, homepage, and the catalog they *)
(* serve, one part at a time: a behaviour explores the part it begins      *)
(* with, and the others rest in their initial states.                      *)
(***************************************************************************)
EXTENDS ProductChat, RecentSeries, SeriesLoad, DataUpdates, ThreadView, TLC

VARIABLE part

AllParts == {"chat", "series", "load", "updates", "browser"}

Init ==
  /\ part \in AllParts
  /\ ProductInit /\ SeriesInit /\ LoadInit /\ UpdatesInit /\ ViewInit
  (* The part that begins in one of several states does so when explored *)
  /\ part # "updates" => pointer = Unset

Next ==
  /\ UNCHANGED part
  /\ \/ /\ part = "chat" /\ ProductNext
        /\ UNCHANGED <<seriesVars, loadVars, updateVars, viewVars>>
     \/ /\ part = "series" /\ SeriesNext
        /\ UNCHANGED <<productVars, loadVars, updateVars, viewVars>>
     \/ /\ part = "load" /\ LoadNext
        /\ UNCHANGED <<productVars, seriesVars, updateVars, viewVars>>
     \/ /\ part = "updates" /\ UpdatesNext
        /\ UNCHANGED <<productVars, seriesVars, loadVars, viewVars>>
     \/ /\ part = "browser" /\ ViewNext
        /\ UNCHANGED <<productVars, seriesVars, loadVars, updateVars>>

allVars ==
  <<part, productVars, seriesVars, loadVars, updateVars, viewVars>>

Spec == Init /\ [][Next]_allVars

(* The user is shown what the server holds: the client's copy of an answer *)
(* is the server's view, also between the operations of an update no state *)
(* that never was, and the browser's conversation mixes up, repeats and    *)
(* drops nothing and never falls back to an older edition of an answer.    *)
UserSeesTheAnswer ==
  /\ [](ClientSeesTheView /\ ConversationIsSound)
  /\ UpdatesAreNeverTorn
  /\ NothingOlderIsShown

(* The data the answers and the homepage are made from: a refresh leaves   *)
(* no task behind that still writes into it, and the published catalog is  *)
(* whole, of one patch, and written by one command at a time.              *)
DataIsSound == LoadIsClean /\ UpdatesAreSafe

(* No failure, restart, cancellation or late task takes back the data that *)
(* was served before: the homepage's snapshot, the catalog.                *)
NothingGoesBack == SnapshotsMoveForward /\ CatalogMovesForward

(* Parts share their model values, so that a small group serves all: the   *)
(* commands are named as the clients.                                      *)
Symmetry ==
  Permutations(Clients) \cup Permutations(Requests) \cup Permutations(Queries)
=============================================================================
