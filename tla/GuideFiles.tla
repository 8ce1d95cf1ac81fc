------------------------------ MODULE GuideFiles ------------------------------
(***************************************************************************)
(* Hero guides (hero_guides/): one file per partition with its last good   *)
(* snapshot and its last attempt, the refresher that visits the partitions *)
(* one after the other, and the import of the partitions an earlier        *)
(* release kept in Redis.  Either may be killed between two partitions.    *)
(***************************************************************************)
EXTENDS Integers, FiniteSets

CONSTANTS
  Partitions,    \* 1..Partitions, in the order they are visited
  MaxAttempts,   \* bound: requests to the provider
  MaxDamaged     \* bound: files that are damaged from outside

ASSUME GuidesAssumption ==
  Partitions \in Nat \ {0} /\ MaxAttempts \in Nat /\ MaxDamaged \in Nat

Parts == 1..Partitions
NoSnapshot == -1

VARIABLES
  guideFiles,   \* the partition files
  guideHashes,  \* the partitions in Redis
  tick,         \* the clock: every request has a time of its own
  worker,       \* the refresh or the migration that runs
  damaged       \* files damaged

guideVars == <<guideFiles, guideHashes, tick, worker, damaged>>

GuideEntry(snap, tried, err) == [state |-> "entry", snap |-> snap, tried |-> tried, err |-> err]
NoGuide == [GuideEntry(NoSnapshot, NoSnapshot, FALSE) EXCEPT !.state = "missing"]
BrokenGuide == [NoGuide EXCEPT !.state = "broken"]

(* _validate_guide_cache_entry *)
LegalEntry(e) == e.state = "entry" => e.tried >= 0 /\ (e.snap >= 0 \/ e.err)

NoWorker == [job |-> "none", at |-> 1, began |-> 0, tried |-> 0,
            published |-> 0, failures |-> 0, status |-> "none"]

GuidesInit ==
  /\ guideFiles = [p \in Parts |-> NoGuide]
  /\ guideHashes \in [Parts -> {NoGuide, GuideEntry(0, 0, FALSE), GuideEntry(NoSnapshot, 0, TRUE)}]
  /\ tick = 1 /\ worker = NoWorker /\ damaged = 0
-----------------------------------------------------------------------------
(* refresh_all asks for the heroes first; without them it has failed *)
BeginGuides ==
  /\ worker.job = "none"
  /\ worker' = [NoWorker EXCEPT !.job = "ask", !.began = tick]
  /\ UNCHANGED <<guideFiles, guideHashes, tick, damaged>>

NoHeroes ==
  /\ worker.job = "none"
  /\ worker' = [NoWorker EXCEPT !.job = "report", !.began = tick, !.status = "failed", !.at = 0]
  /\ UNCHANGED <<guideFiles, guideHashes, tick, damaged>>

(* A partition is asked for; its answer is parsed, or an error kept *)
AskProvider ==
  /\ worker.job = "ask" /\ tick <= MaxAttempts
  /\ tick' = tick + 1
  /\ \E next \in {"publish", "record"} : worker' = [worker EXCEPT !.job = next, !.tried = tick]
  /\ UNCHANGED <<guideFiles, guideHashes, damaged>>

(* The status of a refresh, from what it counted *)
GuideStatus(published, failures) ==
  IF failures = 0 THEN "success" ELSE IF published > 0 THEN "partial" ELSE "failed"

VisitedPart(published, failures) ==
  worker' = IF worker.at < Partitions
            THEN [worker EXCEPT !.job = "ask", !.at = @ + 1,
                    !.published = published, !.failures = failures]
            ELSE [worker EXCEPT !.job = "report", !.published = published,
                    !.failures = failures, !.status = GuideStatus(published, failures)]

(* publish replaces the partition's file *)
PublishGuide ==
  /\ worker.job = "publish"
  /\ guideFiles' = [guideFiles EXCEPT ![worker.at] = GuideEntry(worker.tried, worker.tried, FALSE)]
  /\ VisitedPart(worker.published + 1, worker.failures)
  /\ UNCHANGED <<guideHashes, tick, damaged>>

(* BrokenGuide variant: a failure is recorded in place of the entry *)
WithFailureAlone(e) == GuideEntry(NoSnapshot, worker.tried, TRUE)

(* record_failure keeps the snapshot of the entry it reads *)
WithFailure(e) == GuideEntry(e.snap, worker.tried, TRUE)

RecordGuideFailure ==
  /\ worker.job = "record" /\ guideFiles[worker.at].state # "broken"
  /\ guideFiles' = [guideFiles EXCEPT ![worker.at] = WithFailure(@)]
  /\ VisitedPart(worker.published, worker.failures + 1)
  /\ UNCHANGED <<guideHashes, tick, damaged>>
-----------------------------------------------------------------------------
(* migrate_redis_guides *)
BeginMigration ==
  /\ worker.job = "none"
  /\ worker' = [NoWorker EXCEPT !.job = "import"]
  /\ UNCHANGED <<guideFiles, guideHashes, tick, damaged>>

NextImport ==
  worker' = IF worker.at < Partitions THEN [worker EXCEPT !.job = "import", !.at = @ + 1]
            ELSE [worker EXCEPT !.job = "report", !.status = "imported"]

(* import_entry writes where there is no file, and takes an equal one for  *)
(* imported; any other is a conflict that ends the command.                *)
ImportPartition ==
  /\ worker.job = "import"
  /\ LET e == guideHashes[worker.at] IN
       IF e = NoGuide THEN NextImport /\ UNCHANGED guideFiles
       ELSE /\ guideFiles[worker.at] \in {NoGuide, e}
            /\ guideFiles' = [guideFiles EXCEPT ![worker.at] = e]
            /\ worker' = [worker EXCEPT !.job = "verify"]
  /\ UNCHANGED <<guideHashes, tick, damaged>>

(* What was imported is read back *)
VerifyImport ==
  /\ worker.job = "verify" /\ guideFiles[worker.at] = guideHashes[worker.at]
  /\ NextImport
  /\ UNCHANGED <<guideFiles, guideHashes, tick, damaged>>
-----------------------------------------------------------------------------
(* The report is printed, or the command ends without one: killed, a       *)
(* damaged file, a conflict, a full disk.                                  *)
EndGuides ==
  /\ worker.job # "none" /\ worker' = NoWorker
  /\ UNCHANGED <<guideFiles, guideHashes, tick, damaged>>

DamageGuide ==
  /\ damaged < MaxDamaged /\ damaged' = damaged + 1 /\ worker.job # "report"
  /\ \E p \in Parts : guideFiles' = [guideFiles EXCEPT ![p] = BrokenGuide]
  /\ UNCHANGED <<guideHashes, tick, worker>>

GuidesNext ==
  \/ BeginGuides \/ NoHeroes \/ AskProvider \/ PublishGuide \/ RecordGuideFailure
  \/ BeginMigration \/ ImportPartition \/ VerifyImport \/ EndGuides \/ DamageGuide

GuidesSpec == GuidesInit /\ [][GuidesNext]_guideVars
-----------------------------------------------------------------------------
(* A report says what is on disk: after a success every partition that was *)
(* not damaged since has a snapshot of this refresh, after any report every *)
(* partition was tried, and after an import each has Redis's entry         *)
(* (refresh.py 160, migration.py 86).                                      *)
ReportsAreTrue ==
  worker.job = "report" =>
    \A p \in {q \in Parts : guideFiles[q].state # "broken"} : LET e == guideFiles[p] IN
      /\ worker.status = "success" => ~e.err /\ e.snap >= worker.began
      /\ worker.status # "imported" /\ worker.at # 0 => e.tried >= worker.began
      /\ worker.status = "imported" => guideHashes[p] \in {NoGuide, e}

(* An entry has a snapshot or an error, and no snapshot younger than its   *)
(* last attempt (cache.py 394).                                            *)
EntriesAreLegal == \A p \in Parts : LegalEntry(guideFiles[p]) /\ guideFiles[p].snap <= guideFiles[p].tried

GuidesAreSound == ReportsAreTrue /\ EntriesAreLegal

(* No failure, restart or import loses a partition's snapshot, or puts an  *)
(* older one in its place (file_cache.py 125, 147).                        *)
GuidesAreKept ==
  [][\A p \in Parts : guideFiles'[p].state # "broken" => guideFiles'[p].snap >= guideFiles[p].snap]_guideVars
=============================================================================
