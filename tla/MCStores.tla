------------------------------- MODULE MCStores -------------------------------
(***************************************************************************)
(* What the system keeps, one part at a time: the tables, the pictures,    *)
(* the guides, and the making of a catalog.  A behaviour explores the part *)
(* it begins with, and the others rest in their initial states.            *)
(***************************************************************************)
EXTENDS RunRepository, DisplayFiles, GuideFiles, CatalogBuild, TLC

VARIABLE part

Init ==
  /\ part \in {"tables", "display", "guides", "build"}
  /\ RepoInit /\ DisplayInit /\ GuidesInit /\ BuildInit
  (* The part that begins in one of several states does so when explored *)
  /\ part # "guides" => guideHashes = [p \in Parts |-> NoGuide]

Next ==
  /\ UNCHANGED part
  /\ \/ /\ part = "tables" /\ RepoNext
        /\ UNCHANGED <<displayVars, guideVars, buildVars>>
     \/ /\ part = "display" /\ DisplayNext
        /\ UNCHANGED <<repoVars, guideVars, buildVars>>
     \/ /\ part = "guides" /\ GuidesNext
        /\ UNCHANGED <<repoVars, displayVars, buildVars>>
     \/ /\ part = "build" /\ BuildNext
        /\ UNCHANGED <<repoVars, displayVars, guideVars>>

Spec == Init /\ [][Next]_<<part, repoVars, displayVars, guideVars, buildVars>>

(* The files are sound for their readers: the pictures and their records,  *)
(* the guides and the reports about them, the catalog that is built.       *)
FilesAreSound == PicturesAreSound /\ GuidesAreSound /\ BuildIsSound

(* No failure, crash or restart takes back what a file has given: a        *)
(* picture, a partition's guides.                                          *)
FilesMoveForward == PicturesStay /\ GuidesAreKept

(* Valve publishes once more: a hero's second ability, which its list then *)
(* names, beside an ability of no hero.                                    *)
MCOwned == <<[h \in Heroes |-> {"a"}], [h \in Heroes |-> {"a", "b"}]>>
MCListed == <<{"a", "s"}, {"a", "b", "s"}>>

(* Parts share their model values, so that a small group serves all: the   *)
(* contents are named as the runs, the addresses as the workers.           *)
Symmetry == Permutations(Runs) \cup Permutations(Requests) \cup Permutations(Workers)
=============================================================================
