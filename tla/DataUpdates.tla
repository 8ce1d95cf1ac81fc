----------------------------- MODULE DataUpdates -----------------------------
(***************************************************************************)
(* The data-update commands (data_updates/cli.py, refresh_all.py), the     *)
(* catalog store they publish to, and the loader that serves from it.  A   *)
(* command is a process that takes the file lock or exits; what it does to *)
(* the files it does in worker threads, which a cancellation does not stop.*)
(* Revisions are numbered in the order of their directories.               *)
(***************************************************************************)
EXTENDS Integers, Sequences, FiniteSets

CONSTANTS
  Offered,       \* bound: the operations that are started, of Operations
  Commands,      \* processes running data_updates.main
  NoCommand,     \* the lock is free
  MaxLaunches,   \* bound: commands started
  MaxPatch,      \* bound: patches Valve releases
  MaxFaults,     \* bound: failing reads of the store, by the loader
  MaxSnapshots   \* bound: catalog directories

ASSUME UpdatesAssumption ==
  /\ Offered \subseteq STRING
  /\ NoCommand \notin Commands /\ MaxPatch \in Nat \ {0}
  /\ {MaxLaunches, MaxFaults, MaxSnapshots} \subseteq Nat

Unset == 0     \* no current.json
Damaged == -1  \* a current.json that does not parse, or names no valid snapshot

VARIABLES
  latest,     \* the patch Valve's data feed announces
  snapshots,  \* the catalog directories, by the patch they describe
  pointer,    \* current.json
  notes,      \* the patches whose notes file is on disk
  pictured,   \* the patch the image manifest was last brought up to
  flock,      \* .update.lock
  command,    \* the processes
  launches,   \* commands started
  api,        \* the loader: where its poll is, what it serves
  faults      \* reads that failed

updateVars == <<latest, snapshots, pointer, notes, pictured, flock, command, launches, api, faults>>
filesVars == <<snapshots, pointer, notes, pictured>>

AllJobs == {"catalog", "patches", "guides", "images", "teams"}
Jobs == AllJobs \cup {"init", "migrate"}
Operations == (Jobs \ {"teams"}) \cup {"all"}   \* teams has no command of its own

NotRunning == [pc |-> "none", op |-> "all", force |-> FALSE, stop |-> FALSE,
               job |-> [j \in Jobs |-> "off"], seen |-> Unset, rev |-> Unset, target |-> 0,
               exit |-> -1]

UpdatesInit ==
  /\ latest = 1 /\ pointer \in {Unset, Damaged, 1}
  /\ snapshots = IF pointer = 1 THEN <<1>> ELSE <<>>
  /\ notes = {} /\ pictured = 0 /\ flock = NoCommand
  /\ command = [c \in Commands |-> NotRunning] /\ launches = 0
  /\ api = [pc |-> "down", serves |-> Unset, stop |-> FALSE] /\ faults = 0
-----------------------------------------------------------------------------
(* load_current, when nothing fails: no pointer, a pointer to a valid      *)
(* snapshot, or one that is refused.                                       *)
Loaded ==
  IF pointer \in DOMAIN snapshots THEN pointer
  ELSE IF pointer = Unset THEN Unset ELSE Damaged

IsOpen(c) == command[c].pc = "open"
LiveJobs(c) == {j \in Jobs : command[c].job[j] \in {"run", "rename", "switch"}}
EndStates == {"success", "skipped", "partial", "failed", "blocked"}
JobsOf(op) == IF op = "all" THEN AllJobs ELSE {op}

SetJob(c, j, s) == command' = [command EXCEPT ![c].job[j] = s]

(* Valve publishes a patch *)
ReleasePatch ==
  /\ latest < MaxPatch /\ latest' = latest + 1
  /\ UNCHANGED <<filesVars, flock, command, launches, api, faults>>

(* Where a job begins: the images, the initialisation and the migration    *)
(* load the current snapshot first.                                        *)
FirstStep(j) ==
  CASE j = "init" -> IF Loaded = Unset THEN "rename"
                     ELSE IF Loaded = Damaged THEN "failed" ELSE "skipped"
    [] j \in {"images", "migrate"} -> IF Loaded > 0 THEN "run" ELSE "failed"
    [] OTHER -> "run"

LockIsFree == flock = NoCommand

(* main: the lock is taken without waiting, or the command exits with 3;   *)
(* refresh_all starts three of its tasks at once.                          *)
Launch(c) ==
  /\ command[c].pc = "none" /\ launches < MaxLaunches
  /\ launches' = launches + 1
  /\ IF ~LockIsFree THEN UNCHANGED <<flock, command>>
     ELSE /\ flock' = c
          /\ \E op \in Operations \cap Offered, f \in BOOLEAN :
               /\ f => op \in {"all", "catalog"}
               /\ command' = [command EXCEPT ![c] =
                    [NotRunning EXCEPT !.pc = "open", !.op = op, !.force = f,
                       !.target = IF op = "init" THEN 1 ELSE 0,
                       !.seen = IF op = "images" THEN Loaded ELSE Unset,
                       !.job = [j \in Jobs |-> IF j \notin JobsOf(op) THEN "off"
                                  ELSE IF op = "all" /\ j \in {"images", "teams"} THEN "due"
                                  ELSE FirstStep(j)]]]
  /\ UNCHANGED <<latest, filesVars, api, faults>>

(* Broken variant: images do not wait for the catalog *)
InTurnEager(c, j) == j = "teams" => command[c].job["images"] \in EndStates

(* refresh_all: images after the catalog, teams after the images' phase *)
InTurn(c, j) ==
  LET job == command[c].job
  IN  /\ j = "images" => job["catalog"] \in {"success", "skipped"}
      /\ j = "teams" => job["images"] \in EndStates

MayStart(c, j) ==
  IsOpen(c) /\ command[c].job[j] = "due" /\ ~command[c].stop /\ InTurn(c, j)

StartJob(c, j) ==
  /\ MayStart(c, j)
  /\ command' = [command EXCEPT ![c].job[j] = FirstStep(j),
                    ![c].seen = IF j = "images" THEN Loaded ELSE @]
  /\ UNCHANGED <<latest, filesVars, flock, launches, api, faults>>

(* Without a catalog there is nothing to fetch images for *)
MayBlock(c) ==
  /\ IsOpen(c) /\ ~command[c].stop /\ command[c].op = "all"
  /\ command[c].job["images"] = "due" /\ command[c].job["catalog"] = "failed"

BlockImages(c) ==
  /\ MayBlock(c)
  /\ SetJob(c, "images", "blocked")
  /\ UNCHANGED <<latest, filesVars, flock, launches, api, faults>>

(* A thread fails: a remote call, an invalid bundle or file, the disk *)
JobFails(c, j) ==
  /\ IsOpen(c) /\ j \in LiveJobs(c)
  /\ SetJob(c, j, "failed")
  /\ UNCHANGED <<latest, filesVars, flock, launches, api, faults>>

(* The latest patch, which the tasks of one command ask for once: they     *)
(* share the fetch session and its answers.                                *)
Announced(c) == IF command[c].target = 0 THEN latest ELSE command[c].target

(* refresh_catalog: the current snapshot is loaded and the latest patch    *)
(* asked for; an unchanged one is skipped, another's bundle built.         *)
CheckPatch(c) ==
  /\ IsOpen(c) /\ command[c].job["catalog"] = "run"
  /\ LET same == Loaded > 0 /\ ~command[c].force /\ snapshots[Loaded] = Announced(c)
     IN  command' = [command EXCEPT ![c].job["catalog"] = IF same THEN "skipped" ELSE "rename",
                                     ![c].target = Announced(c)]
  /\ UNCHANGED <<latest, filesVars, flock, launches, api, faults>>

(* publish_from_directory gives a directory with validated files its       *)
(* revision's name ...                                                     *)
RenameDirectory(c, j) ==
  /\ IsOpen(c) /\ j \in {"catalog", "init"} /\ command[c].job[j] = "rename"
  /\ Len(snapshots) < MaxSnapshots
  /\ snapshots' = Append(snapshots, command[c].target)
  /\ command' = [command EXCEPT ![c].job[j] = "switch", ![c].rev = Len(snapshots) + 1]
  /\ UNCHANGED <<latest, pointer, notes, pictured, flock, launches, api, faults>>

(* ... and replaces current.json *)
SwitchPointer(c, j) ==
  /\ IsOpen(c) /\ j \in {"catalog", "init"} /\ command[c].job[j] = "switch"
  /\ pointer' = command[c].rev /\ SetJob(c, j, "success")
  /\ UNCHANGED <<latest, snapshots, notes, pictured, flock, launches, api, faults>>

(* refresh_patches: the latest notes are fetched, or kept when present *)
SavePatchNotes(c) ==
  /\ IsOpen(c) /\ command[c].job["patches"] = "run"
  /\ notes' = notes \cup {Announced(c)}
  /\ command' = [command EXCEPT ![c].target = Announced(c),
       ![c].job["patches"] = IF Announced(c) \in notes THEN "skipped" ELSE "success"]
  /\ UNCHANGED <<latest, snapshots, pointer, pictured, flock, launches, api, faults>>

(* refresh_images, for the snapshot it loaded; some downloads may fail *)
SaveImages(c, s) ==
  /\ IsOpen(c) /\ command[c].job["images"] = "run"
  /\ pictured' = IF s = "success" THEN snapshots[command[c].seen] ELSE pictured
  /\ SetJob(c, "images", s)
  /\ UNCHANGED <<latest, snapshots, pointer, notes, flock, launches, api, faults>>

(* Guides and teams, whose files GuideFiles and DisplayFiles model, and     *)
(* the migration of the guides.                                            *)
OtherJob(c, j, s) ==
  /\ IsOpen(c) /\ j \in {"guides", "teams", "migrate"} /\ command[c].job[j] = "run"
  /\ s = "partial" => j # "migrate"
  /\ SetJob(c, j, s)
  /\ UNCHANGED <<latest, filesVars, flock, launches, api, faults>>

(* The first SIGINT or SIGTERM cancels the tasks; the threads go on.  An   *)
(* init-catalog works in the main thread, and is cut where it is.          *)
Interrupt(c) ==
  /\ IsOpen(c) /\ ~command[c].stop
  /\ command' = [command EXCEPT ![c].stop = TRUE,
                    ![c].job["init"] = IF @ = "off" THEN @ ELSE "failed"]
  /\ UNCHANGED <<latest, filesVars, flock, launches, api, faults>>

(* _overall_result, and the exit codes of the single commands *)
ExitCode(c) ==
  LET s == {command[c].job[j] : j \in JobsOf(command[c].op)}
  IN  IF command[c].stop THEN 130
      ELSE IF s \subseteq {"success", "skipped"} THEN 0
      ELSE IF s \cap {"success", "skipped", "partial"} # {} THEN 4 ELSE 1

(* shutdown_default_executor: the command's end waits for its threads *)
MayExit(c) ==
  /\ LiveJobs(c) = {}
  /\ command[c].stop \/ \A j \in JobsOf(command[c].op) : command[c].job[j] \in EndStates

Exit(c) ==
  /\ IsOpen(c) /\ MayExit(c)
  /\ command' = [command EXCEPT ![c].pc = "exiting", ![c].exit = ExitCode(c)]
  /\ UNCHANGED <<latest, filesVars, flock, launches, api, faults>>

(* The lock is released last, and the process ends *)
ReleaseLock(c) ==
  /\ command[c].pc = "exiting"
  /\ flock' = NoCommand /\ command' = [command EXCEPT ![c] = NotRunning]
  /\ UNCHANGED <<latest, filesVars, launches, api, faults>>

(* The process is killed: its threads stop and the system frees its lock *)
Kill(c) ==
  /\ command[c].pc # "none"
  /\ flock' = NoCommand /\ command' = [command EXCEPT ![c] = NotRunning]
  /\ UNCHANGED <<latest, filesVars, launches, api, faults>>
-----------------------------------------------------------------------------
(* CatalogSnapshotLoader.start: without a valid snapshot the API is not up *)
StartLoader ==
  /\ api.pc = "down" /\ Loaded > 0
  /\ api' = [pc |-> "wait", serves |-> Loaded, stop |-> FALSE]
  /\ UNCHANGED <<latest, filesVars, flock, command, launches, faults>>

(* The poll's interval passes and the pointer is read in a thread; the     *)
(* snapshot is loaded if the pointer names another revision.               *)
PollReads ==
  /\ api.pc = "wait" /\ ~api.stop
  /\ pointer # api.serves
  /\ api' = [api EXCEPT !.pc = "load"]
  /\ UNCHANGED <<latest, filesVars, flock, command, launches, faults>>

(* load_current reads the pointer again, and what is valid is served *)
PollAdopts ==
  /\ api.pc = "load"
  /\ api' = [api EXCEPT !.pc = "wait", !.serves = IF Loaded > 0 THEN Loaded ELSE @]
  /\ UNCHANGED <<latest, filesVars, flock, command, launches, faults>>

(* An error of the store is logged and the poll goes on *)
PollFails ==
  /\ api.pc \in {"wait", "load"} /\ ~api.stop /\ faults < MaxFaults
  /\ faults' = faults + 1 /\ api' = [api EXCEPT !.pc = "wait"]
  /\ UNCHANGED <<latest, filesVars, flock, command, launches>>

(* stop: the event is set, and a refresh that is under way is waited for *)
StopLoader ==
  /\ api.pc # "down" /\ ~api.stop
  /\ api' = [api EXCEPT !.stop = TRUE]
  /\ UNCHANGED <<latest, filesVars, flock, command, launches, faults>>

LoaderStopped ==
  /\ api.pc = "wait" /\ api.stop
  /\ api' = [pc |-> "down", serves |-> Unset, stop |-> FALSE]
  /\ UNCHANGED <<latest, filesVars, flock, command, launches, faults>>
-----------------------------------------------------------------------------
StepOfJob(c) ==
  \/ \E j \in Jobs : StartJob(c, j) \/ RenameDirectory(c, j) \/ SwitchPointer(c, j)
  \/ BlockImages(c) \/ CheckPatch(c) \/ SavePatchNotes(c)
  \/ \E s \in {"success", "partial"} :
       SaveImages(c, s) \/ \E j \in Jobs : OtherJob(c, j, s)

CommandStep(c) == StepOfJob(c) \/ (\E j \in Jobs : JobFails(c, j)) \/ Exit(c) \/ ReleaseLock(c)

LoaderStep == PollReads \/ PollAdopts \/ LoaderStopped

UpdatesNext ==
  \/ ReleasePatch \/ StartLoader \/ LoaderStep \/ PollFails \/ StopLoader
  \/ \E c \in Commands : Launch(c) \/ CommandStep(c) \/ Interrupt(c) \/ Kill(c)

UpdatesSpec == UpdatesInit /\ [][UpdatesNext]_updateVars

(* The poll's timer fires and its task is scheduled *)
UpdatesFairness == WF_updateVars(LoaderStep)
-----------------------------------------------------------------------------
(* One command writes at a time, its threads included, and never the       *)
(* images and the teams together, which share the asset directory          *)
(* (cli.py 784, refresh_all.py 152).                                       *)
OneWriter ==
  /\ \A c \in Commands : LiveJobs(c) # {} => flock = c
  /\ \A c \in Commands : ~({"images", "teams"} \subseteq LiveJobs(c))

(* What current.json names is a directory that has its name, whatever      *)
(* command was killed or failed between which steps (catalog_store.py 77). *)
PointerIsSound == pointer > 0 => pointer \in DOMAIN snapshots

(* While images are fetched, the catalog they are fetched for stays the    *)
(* current one (refresh_all.py 156).                                       *)
ImagesMatchCatalog ==
  \A c \in Commands : command[c].job["images"] = "run" => command[c].seen = pointer

(* A refresh-all that exits with 0 leaves the catalog, the patch notes and *)
(* the images of one patch, also when Valve released another one meanwhile *)
(* (refresh_all.py 280, fetch_session.py 28).                              *)
ExitIsTrue ==
  \A c \in Commands :
    command[c].pc = "exiting" /\ command[c].op = "all" /\ command[c].exit = 0 =>
      /\ pointer > 0 /\ snapshots[pointer] = pictured
      /\ pictured = command[c].target /\ pictured \in notes

(* No command waits for ever for a task of its own: while it is open a     *)
(* thread of it works, a task is next, or it ends (refresh_all.py 151).    *)
CommandsMoveOn ==
  \A c \in Commands :
    IsOpen(c) => LiveJobs(c) # {} \/ MayBlock(c) \/ MayExit(c) \/ \E j \in Jobs : MayStart(c, j)

UpdatesAreSafe == CommandsMoveOn /\ OneWriter /\ PointerIsSound /\ ImagesMatchCatalog /\ ExitIsTrue

(* The pointer, and the snapshot the API serves, only move to later        *)
(* revisions (catalog_loader.py 142).                                      *)
CatalogMovesForward ==
  [][/\ pointer > 0 => pointer' >= pointer
     /\ api.serves > 0 /\ api'.serves > 0 => api'.serves >= api.serves]_updateVars

(* A running API comes to serve the catalog that was published, also when  *)
(* reads of the store fail meanwhile (catalog_loader.py 175).              *)
NewestIsServed == (api.pc = "wait" /\ pointer > 0) ~> (api.serves = pointer \/ api.stop)
=============================================================================
