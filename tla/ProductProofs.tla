---------------------------- MODULE ProductProofs ----------------------------
(***************************************************************************)
(* What product chat and the data behind its pages promise: the streams    *)
(* of a session, the commands that update the game data, the API process   *)
(* that serves the catalog, the cache of the homepage's recent series and  *)
(* the load that fills it, for any number of clients, requests, commands,  *)
(* pages, series and slots.                                                *)
(*                                                                         *)
(* Each of the four models has an inductive invariant.  That of the        *)
(* updates says of the one command that holds the lock which of its jobs   *)
(* may follow which, and that what it will publish is still of the patch   *)
(* it asked for.  That of the cache says that every failure which must     *)
(* hold a refresh back is known to the process or stored, and what a       *)
(* manual refresh found under the lock remains so until it acts on it.     *)
(* That of the load says who may have asked about a team.                  *)
(*                                                                         *)
(* Streams of several clients meet in one session: behind its lock, in the *)
(* table of turns, in the memory of kept answers and, after a save timed   *)
(* out, in a transaction nobody waits for.  ChatInv adds to what is        *)
(* promised                                                                *)
(*   - QueueOK: a stream past waiting holds the lock, so there is one;     *)
(*   - StreamOK: which view, save and client go with which point of a      *)
(*     stream; a save is open only while its answer is not told of;        *)
(*   - TableOK: the answer of a stream that saves is kept, with its query, *)
(*     and while a request runs the table, the landing turn and the kept   *)
(*     answers have none of it: this is why a late landing cannot give a   *)
(*     request a second text;                                              *)
(*   - Agree: two streams of one request, of which one may have ended long *)
(*     ago, agree with each other;                                         *)
(*   - TablesOK: a landing turn is of a kept answer and of no stored turn, *)
(*     and what is kept is what is stored.                                 *)
(***************************************************************************)
EXTENDS MCProduct, FiniteSetTheorems, SequenceTheorems, TLAPS

-----------------------------------------------------------------------------
(* The load of the series                                                  *)

(* What a lookup of the homepage's refresh may be at.                      *)
JobStates == {"none", "queued", "fresh", "reading", "parked"} \cup Over

(* What the variables of the load range over.                              *)
LoadTypes ==
  /\ jobs \in [LoadTasks -> JobStates]
  /\ winner \in [Series -> Winners \cup {NoTeam}]
  /\ asked \in [Winners -> {0, 1}]

(* Before the refresh nothing has happened; a lookup that was counted has  *)
(* a task; a parked candidate knows the team it waits for.                 *)
LookupsHaveTasks ==
  /\ refresh = "none" => /\ \A t \in LoadTasks : jobs[t] = "none"
                         /\ \A w \in Winners : asked[w] = 0
  /\ \A w \in Winners : asked[w] = 1 => jobs[w] # "none"
  /\ \A s \in Series : jobs[s] = "parked" => winner[s] \in Winners

(* No more tasks than the semaphore admits.                                *)
FitsSlots(S) == IsFiniteSet(S) /\ Cardinality(S) <= Slots

(* The inductive invariant of the load.                                    *)
LoadInv == LoadTypes /\ LookupsHaveTasks /\ RefreshOwnsItsTasks /\ FitsSlots(Reading)

(* Who leaves the semaphore makes no one exceed it.                        *)
LEMMA FewerFit ==
  ASSUME NEW S, NEW R \in SUBSET S, FitsSlots(S)
  PROVE  FitsSlots(R)
<1>1. IsFiniteSet(R) /\ Cardinality(R) <= Cardinality(S)
  BY FS_Subset DEF FitsSlots
<1>2. Cardinality(R) \in Nat /\ Cardinality(S) \in Nat
  BY <1>1, FS_CardinalityType DEF FitsSlots
<1> QED BY <1>1, <1>2, LoadAssumption DEF FitsSlots

(* A load that has not begun is clean.                                     *)
LEMMA LoadInitially == LoadInit => LoadInv
<1> SUFFICES ASSUME LoadInit PROVE LoadInv
  OBVIOUS
<1>1. LoadTypes
  BY DEF LoadInit, LoadTypes, JobStates
<1>4. /\ \A t \in LoadTasks : jobs[t] = "none"
      /\ \A w \in Winners : asked[w] = 0 /\ jobs[w] = "none"
      /\ \A s \in Series : jobs[s] = "none"
  BY DEF LoadInit, LoadTasks
<1>5. LookupsHaveTasks /\ RefreshOwnsItsTasks
  BY <1>4 DEF LoadInit, LookupsHaveTasks, RefreshOwnsItsTasks
<1>2. Reading = {}
  BY DEF LoadInit, Reading
<1>3. FitsSlots({})
  BY FS_EmptySet, LoadAssumption DEF FitsSlots
<1> QED BY <1>1, <1>2, <1>3, <1>5 DEF LoadInv

(* No step of the load, its cancellation included, breaks the invariant: a *)
(* task enters the reads only when a slot is free, and a team is asked     *)
(* about once.                                                             *)
LEMMA LoadStep ==
  ASSUME LoadInv, LoadNext
  PROVE  LoadInv'
<1> USE DEF LoadTypes, LookupsHaveTasks, RefreshOwnsItsTasks, JobStates, Over, Live, LoadTasks
<1>a. LoadTypes /\ LookupsHaveTasks /\ RefreshOwnsItsTasks /\ FitsSlots(Reading)
  BY DEF LoadInv
<1>b. SUFFICES (LoadTypes /\ LookupsHaveTasks /\ RefreshOwnsItsTasks)' /\ FitsSlots(Reading')
  BY DEF LoadInv, FitsSlots
<1>c. ASSUME Reading' \subseteq Reading PROVE FitsSlots(Reading')
  BY <1>a, <1>c, FewerFit
<1>1. CASE StartLoad
  <2>1. (LoadTypes /\ LookupsHaveTasks /\ RefreshOwnsItsTasks)'
    BY <1>a, <1>1 DEF StartLoad
  <2>2. Reading' \subseteq Reading
    BY <1>a, <1>1 DEF StartLoad, Reading
  <2> QED BY <2>1, <2>2, <1>c
<1>2. CASE GatherEnds \/ CancelRefresh \/ EndLoad
  <2>1. (LoadTypes /\ LookupsHaveTasks /\ RefreshOwnsItsTasks)'
    BY <1>a, <1>2 DEF GatherEnds, CancelRefresh, EndLoad, StartReaping
  <2>2. Reading' \subseteq Reading
    BY <1>a, <1>2 DEF GatherEnds, CancelRefresh, EndLoad, Reading
  <2> QED BY <2>1, <2>2, <1>c
<1>3. ASSUME NEW chosen \in SUBSET Series, NEW from \in [chosen -> Sources], Select(chosen, from)
      PROVE  (LoadTypes /\ LookupsHaveTasks /\ RefreshOwnsItsTasks)' /\ FitsSlots(Reading')
  <2>1. (LoadTypes /\ LookupsHaveTasks /\ RefreshOwnsItsTasks)'
    BY <1>a, <1>3, LoadAssumption DEF Select
  <2>2. Reading' \subseteq Reading
    BY <1>a, <1>3 DEF Select, Reading
  <2> QED BY <2>1, <2>2, <1>c
<1>4. ASSUME NEW t \in LoadTasks, Reap(t)
      PROVE  (LoadTypes /\ LookupsHaveTasks /\ RefreshOwnsItsTasks)' /\ FitsSlots(Reading')
  <2>1. (LoadTypes /\ LookupsHaveTasks /\ RefreshOwnsItsTasks)'
    BY <1>a, <1>4 DEF Reap, To
  <2>2. Reading' \subseteq Reading
    BY <1>a, <1>4 DEF Reap, To, Reading
  <2> QED BY <2>1, <2>2, <1>c
<1>5. ASSUME NEW t \in LoadTasks, Read(t)
      PROVE  (LoadTypes /\ LookupsHaveTasks /\ RefreshOwnsItsTasks)' /\ FitsSlots(Reading')
  <2>1. (LoadTypes /\ LookupsHaveTasks /\ RefreshOwnsItsTasks)'
    BY <1>a, <1>5 DEF Read, To
  <2>2. Reading' = Reading \cup {t} /\ t \notin Reading
    BY <1>a, <1>5 DEF Read, To, Reading
  <2>3. IsFiniteSet(Reading') /\ Cardinality(Reading') = Cardinality(Reading) + 1
    BY <2>2, <1>a, FS_AddElement DEF FitsSlots
  <2>4. Cardinality(Reading) \in Nat
    BY <1>a, FS_CardinalityType DEF FitsSlots
  <2>5. Cardinality(Reading) + 1 <= Slots
    BY <2>4, <1>5, LoadAssumption DEF Read
  <2> QED BY <2>1, <2>3, <2>5 DEF FitsSlots
<1>6. ASSUME NEW t \in LoadTasks, NEW ok \in BOOLEAN, LifecycleReturns(t, ok) \/ TeamReturns(t, ok)
      PROVE  (LoadTypes /\ LookupsHaveTasks /\ RefreshOwnsItsTasks)' /\ FitsSlots(Reading')
  <2>1. (LoadTypes /\ LookupsHaveTasks /\ RefreshOwnsItsTasks)'
    BY <1>a, <1>6 DEF LifecycleReturns, TeamReturns, To
  <2>2. Reading' \subseteq Reading
    BY <1>a, <1>6 DEF LifecycleReturns, TeamReturns, To, Reading
  <2> QED BY <2>1, <2>2, <1>c
<1>7. ASSUME NEW s \in Series, NEW w \in Winners, Ask(s, w), jobs[s] \in {"fresh", "reading"},
             UNCHANGED <<source, refresh, outcome>>
      PROVE  (LoadTypes /\ LookupsHaveTasks /\ RefreshOwnsItsTasks)' /\ FitsSlots(Reading')
  <2>1. s # w /\ s \in LoadTasks /\ w \in LoadTasks
    BY LoadAssumption
  <2>2. (LoadTypes /\ LookupsHaveTasks /\ RefreshOwnsItsTasks)'
    BY <1>a, <1>7, <2>1 DEF Ask
  <2>3. Reading' \subseteq Reading
    BY <1>a, <1>7, <2>1 DEF Ask, Reading
  <2> QED BY <2>2, <2>3, <1>c
<1>8. ASSUME NEW s \in Series, NEW how \in {"queued", "done", "failed"}, To(s, how),
             jobs[s] \in {"fresh", "reading"}, UNCHANGED <<source, winner, asked, refresh, outcome>>
      PROVE  (LoadTypes /\ LookupsHaveTasks /\ RefreshOwnsItsTasks)' /\ FitsSlots(Reading')
  <2>1. (LoadTypes /\ LookupsHaveTasks /\ RefreshOwnsItsTasks)'
    BY <1>a, <1>8 DEF To
  <2>2. Reading' \subseteq Reading
    BY <1>a, <1>8 DEF To, Reading
  <2> QED BY <2>1, <2>2, <1>c
<1>9. ASSUME NEW s \in Series, TeamAnswers(s)
      PROVE  (LoadTypes /\ LookupsHaveTasks /\ RefreshOwnsItsTasks)' /\ FitsSlots(Reading')
  <2>1. winner[s] \in LoadTasks /\ s \in LoadTasks /\ jobs[winner[s]] \in Over
    BY <1>a, <1>9 DEF TeamAnswers
  <2>2. (LoadTypes /\ LookupsHaveTasks /\ RefreshOwnsItsTasks)'
    BY <1>a, <1>9, <2>1 DEF TeamAnswers, To
  <2>3. Reading' \subseteq Reading
    BY <1>a, <1>9, <2>1 DEF TeamAnswers, To, Reading
  <2> QED BY <2>2, <2>3, <1>c
<1>10. ASSUME NEW t \in LoadTasks, JobStep(t)
       PROVE  (LoadTypes /\ LookupsHaveTasks /\ RefreshOwnsItsTasks)' /\ FitsSlots(Reading')
  <2>1. CASE Read(t)
    BY <2>1, <1>5
  <2>2. CASE \E ok \in BOOLEAN : LifecycleReturns(t, ok) \/ TeamReturns(t, ok)
    BY <2>2, <1>6
  <2>3. CASE t \in Series /\ StartCandidate(t)
    BY <2>3, <1>7, <1>8 DEF StartCandidate
  <2>4. CASE t \in Series /\ TournamentsReturn(t)
    BY <2>4, <1>7, <1>8 DEF TournamentsReturn
  <2>5. CASE t \in Series /\ TeamAnswers(t)
    BY <2>5, <1>9
  <2> QED BY <1>10, <2>1, <2>2, <2>3, <2>4, <2>5 DEF JobStep
<1> QED BY <1>1, <1>2, <1>3, <1>4, <1>10 DEF LoadNext

-----------------------------------------------------------------------------
(* The updates of the game data                                            *)

(* A command is not running, at its jobs, or about to release the lock.    *)
CommandPhases == {"none", "open", "exiting"}

(* What a job of a command may be at.                                      *)
JobSteps == {"off", "due", "run", "rename", "switch"} \cup EndStates

(* How it ends well.                                                       *)
Good == {"success", "skipped"}

(* The pointer names a snapshot that exists.                               *)
IsPublished == pointer \in DOMAIN snapshots

(* A running command.                                                      *)
CommandType ==
  [pc : CommandPhases, op : Operations, force : BOOLEAN, stop : BOOLEAN,
   job : [Jobs -> JobSteps], seen : Int, rev : Int, target : Nat, exit : Int]

(* What the variables of the updates range over: the pointer is unset,     *)
(* damaged or names a revision.                                            *)
UpdatesTypes ==
  /\ latest \in Nat \ {0} /\ snapshots \in Seq(Nat) /\ pointer \in Int
  /\ pointer \in {Unset, Damaged} \/ IsPublished
  /\ command \in [Commands -> CommandType]

(* A command has the jobs of its operation, each in states of that job     *)
JobsFit(c) ==
  LET job == command[c].job
  IN  /\ \A j \in Jobs : job[j] = "off" <=> j \notin JobsOf(command[c].op)
      /\ \A j \in Jobs : job[j] = "due" => command[c].op = "all" /\ j \in {"images", "teams"}
      /\ \A j \in Jobs : job[j] \in {"rename", "switch"} => j \in {"catalog", "init"}
      /\ job["catalog"] \notin {"partial", "blocked"} /\ job["init"] # "run"
      /\ job["images"] # "skipped"

(* Within a refresh of everything the images follow a catalog, and the     *)
(* teams the images.                                                       *)
TakesTurns(c) ==
  LET job == command[c].job
  IN  command[c].op = "all" =>
        /\ job["images"] \notin {"due", "blocked"} => job["catalog"] \in Good
        /\ job["teams"] # "due" => job["images"] \in EndStates

(* What is published, fetched and saved is of the patch the command asked  *)
(* for.                                                                    *)
KeepsPatch(c) ==
  LET k == command[c]
  IN  /\ \A j \in {"catalog", "init"} : k.job[j] \in {"rename", "switch"} => k.target # 0
      /\ \A j \in {"catalog", "init"} :
           k.job[j] = "switch" => /\ k.rev \in DOMAIN snapshots /\ snapshots[k.rev] = k.target
                                  /\ pointer <= k.rev
      /\ k.job["catalog"] \in Good => IsPublished /\ snapshots[pointer] = k.target /\ k.target # 0
      /\ k.job["patches"] \in Good => k.target \in notes /\ k.target # 0

(* The pictures a command fetches are those of the catalog it looked at,   *)
(* and that catalog is still the current one.                              *)
FetchesPictures(c) ==
  LET k == command[c]
  IN  /\ k.job["images"] = "run" => IsPublished /\ k.seen = pointer
      /\ k.job["images"] = "success" => IsPublished /\ pictured = snapshots[pointer]

(* An exit code of zero says that every job ended well.                    *)
ExitsTruly(c) ==
  LET k == command[c]
  IN  k.pc = "exiting" /\ k.exit = 0 => \A j \in JobsOf(k.op) : k.job[j] \in Good

(* What holds of a command that runs.                                      *)
Faithful(c) ==
  JobsFit(c) /\ TakesTurns(c) /\ KeepsPatch(c) /\ FetchesPictures(c) /\ ExitsTruly(c)

(* Only the holder of the file lock runs, and what it does is sound.       *)
CommandIsSound(c) ==
  IF command[c].pc = "none" THEN command[c] = NotRunning ELSE flock = c /\ Faithful(c)

(* The inductive invariant of the catalog's updates.                       *)
UpdatesInv == UpdatesTypes /\ \A c \in Commands : CommandIsSound(c)

(* It holds before the first command.                                      *)
LEMMA UpdatesInitially == UpdatesInit => UpdatesInv
<1> SUFFICES ASSUME UpdatesInit PROVE UpdatesInv
  OBVIOUS
<1>1. NotRunning \in CommandType
  BY DEF NotRunning, CommandType, CommandPhases, Operations, Jobs, AllJobs, JobSteps, Unset
<1>2. \A c \in Commands : command[c] = NotRunning /\ NotRunning.pc = "none"
  BY DEF UpdatesInit, NotRunning
<1>3. command \in [Commands -> CommandType]
  BY <1>1 DEF UpdatesInit
<1>4. snapshots \in Seq(Nat) /\ latest \in Nat \ {0} /\ pointer \in Int
  BY DEF UpdatesInit, Unset, Damaged
<1>5. pointer \in {Unset, Damaged} \/ IsPublished
  BY DEF UpdatesInit, IsPublished
<1> QED BY <1>2, <1>3, <1>4, <1>5 DEF UpdatesInv, UpdatesTypes, CommandIsSound

(* When one command moves and remains sound, the invariant is kept: by the *)
(* lock every other one is not running.                                    *)
LEMMA OneMoves ==
  ASSUME UpdatesInv, UpdatesTypes', NEW c \in Commands, command[c].pc # "none",
         \A d \in Commands \ {c} : command'[d] = command[d],
         command'[c].pc # "none", flock' = flock, Faithful(c)'
  PROVE  UpdatesInv'
<1>1. ASSUME NEW d \in Commands PROVE CommandIsSound(d)'
  <2>1. CASE d = c
    BY <2>1 DEF UpdatesInv, CommandIsSound
  <2>2. CASE d # c
    <3>1. flock = c /\ CommandIsSound(d)
      BY DEF UpdatesInv, CommandIsSound
    <3>2. command[d] = NotRunning /\ command[d].pc = "none"
      BY <2>2, <3>1 DEF CommandIsSound
    <3> QED BY <2>2, <3>2 DEF CommandIsSound
  <2> QED BY <2>1, <2>2
<1> QED BY <1>1 DEF UpdatesInv

(* Setting the state of one job leaves the rest of the command as it was.  *)
LEMMA JobMoves ==
  ASSUME UpdatesInv, NEW c \in Commands, IsOpen(c), NEW j \in Jobs, NEW s \in JobSteps,
         SetJob(c, j, s)
  PROVE  /\ command' \in [Commands -> CommandType]
         /\ \A d \in Commands \ {c} : command'[d] = command[d]
         /\ command'[c].pc = "open" /\ command'[c].op = command[c].op
         /\ command'[c].stop = command[c].stop /\ command'[c].target = command[c].target
         /\ command'[c].seen = command[c].seen /\ command'[c].rev = command[c].rev
         /\ command'[c].job = [command[c].job EXCEPT ![j] = s]
         /\ command[c].job \in [Jobs -> JobSteps]
<1>1. command \in [Commands -> CommandType] /\ command[c] \in CommandType
  BY DEF UpdatesInv, UpdatesTypes
<1> QED BY <1>1 DEF SetJob, IsOpen, CommandType

(* An open command, spelled out                                            *)
LEMMA OpenCommand ==
  ASSUME UpdatesInv, NEW c \in Commands, IsOpen(c)
  PROVE  /\ command \in [Commands -> CommandType] /\ command[c] \in CommandType
         /\ command[c].pc = "open" /\ flock = c /\ Faithful(c)
         /\ command[c].job \in [Jobs -> JobSteps]
<1>1. command \in [Commands -> CommandType] /\ CommandIsSound(c)
  BY DEF UpdatesInv, UpdatesTypes
<1> QED BY <1>1 DEF IsOpen, CommandIsSound, CommandType

(* A job ends, other than the catalog's and the images', or fails          *)
LEMMA JobEnds ==
  ASSUME UpdatesInv, NEW c \in Commands, IsOpen(c), NEW j \in Jobs, NEW s \in EndStates,
         command[c].job[j] \in {"run", "rename", "switch"}, SetJob(c, j, s),
         \/ s = "failed"
         \/ s \in {"success", "partial"} /\ j \in {"guides", "teams", "migrate"},
         UNCHANGED <<latest, filesVars, flock>>
  PROVE  UpdatesInv'
<1>1. s \in JobSteps
  BY DEF JobSteps
<1>2. /\ command' \in [Commands -> CommandType]
      /\ \A d \in Commands \ {c} : command'[d] = command[d]
      /\ command'[c].pc = "open" /\ command'[c].op = command[c].op
      /\ command'[c].target = command[c].target
      /\ command'[c].seen = command[c].seen /\ command'[c].rev = command[c].rev
      /\ command'[c].job = [command[c].job EXCEPT ![j] = s]
      /\ command[c].job \in [Jobs -> JobSteps]
  BY <1>1, JobMoves
<1>3. Faithful(c) /\ command[c].pc = "open"
  BY OpenCommand
<1> USE DEF EndStates, Good
<1>4. JobsFit(c)'
  BY <1>2, <1>3 DEF Faithful, JobsFit, JobsOf, AllJobs, Jobs
<1>5. TakesTurns(c)'
  BY <1>2, <1>3 DEF Faithful, JobsFit, TakesTurns, Jobs, AllJobs
<1>6. KeepsPatch(c)' /\ FetchesPictures(c)' /\ ExitsTruly(c)'
  BY <1>2, <1>3 DEF Faithful, KeepsPatch, FetchesPictures, ExitsTruly, IsPublished, filesVars,
     Jobs, AllJobs
<1>7. UpdatesTypes'
  BY <1>2 DEF UpdatesInv, UpdatesTypes, IsPublished, filesVars
<1> QED BY <1>2, <1>3, <1>4, <1>5, <1>6, <1>7, OneMoves DEF Faithful

(* The pictures fetched are those of the snapshot the images job looked at,*)
(* which nobody replaced meanwhile, as the lock is held.                   *)
LEMMA ImagesEnd ==
  ASSUME UpdatesInv, NEW c \in Commands, NEW s \in {"success", "partial"}, SaveImages(c, s)
  PROVE  UpdatesInv'
<1>1. /\ IsOpen(c) /\ s \in JobSteps /\ "images" \in Jobs /\ SetJob(c, "images", s)
      /\ command[c].job["images"] = "run"
  BY DEF SaveImages, JobSteps, EndStates, Jobs, AllJobs
<1>2. /\ command' \in [Commands -> CommandType]
      /\ \A d \in Commands \ {c} : command'[d] = command[d]
      /\ command'[c].pc = "open" /\ command'[c].op = command[c].op
      /\ command'[c].target = command[c].target
      /\ command'[c].seen = command[c].seen /\ command'[c].rev = command[c].rev
      /\ command'[c].job = [command[c].job EXCEPT !["images"] = s]
      /\ command[c].job \in [Jobs -> JobSteps]
  BY <1>1, JobMoves
<1>3. Faithful(c) /\ command[c].pc = "open"
  BY <1>1, OpenCommand
<1>a. /\ UNCHANGED <<latest, snapshots, pointer, notes, flock>>
      /\ pictured' = IF s = "success" THEN snapshots[command[c].seen] ELSE pictured
  BY DEF SaveImages
<1> USE DEF EndStates, Good
<1>4. JobsFit(c)'
  BY <1>1, <1>2, <1>3 DEF Faithful, JobsFit, JobsOf, AllJobs, Jobs
<1>5. TakesTurns(c)'
  BY <1>1, <1>2, <1>3 DEF Faithful, JobsFit, TakesTurns, Jobs, AllJobs
<1>6. KeepsPatch(c)' /\ ExitsTruly(c)'
  BY <1>1, <1>2, <1>3, <1>a DEF Faithful, KeepsPatch, ExitsTruly, IsPublished, Jobs, AllJobs
<1>7. FetchesPictures(c)'
  BY <1>1, <1>2, <1>3, <1>a DEF Faithful, FetchesPictures, IsPublished, Jobs, AllJobs
<1>8. UpdatesTypes'
  BY <1>2, <1>a DEF UpdatesInv, UpdatesTypes, IsPublished
<1>9. command[c].pc # "none" /\ command'[c].pc # "none"
  BY <1>2, <1>3
<1> QED BY ONLY UpdatesInv, <1>2, <1>4, <1>5, <1>6, <1>7, <1>8, <1>9, <1>a, OneMoves DEF Faithful

(* Within a refresh of everything the images are blocked only by a catalog *)
(* that failed.                                                            *)
LEMMA ImagesBlocked ==
  ASSUME UpdatesInv, NEW c \in Commands, BlockImages(c)
  PROVE  UpdatesInv'
<1>1. /\ IsOpen(c) /\ "blocked" \in JobSteps /\ "images" \in Jobs /\ SetJob(c, "images", "blocked")
      /\ command[c].job["images"] = "due"
  BY DEF BlockImages, MayBlock, JobSteps, EndStates, Jobs, AllJobs
<1>2. /\ command' \in [Commands -> CommandType]
      /\ \A d \in Commands \ {c} : command'[d] = command[d]
      /\ command'[c].pc = "open" /\ command'[c].op = command[c].op
      /\ command'[c].target = command[c].target
      /\ command'[c].seen = command[c].seen /\ command'[c].rev = command[c].rev
      /\ command'[c].job = [command[c].job EXCEPT !["images"] = "blocked"]
      /\ command[c].job \in [Jobs -> JobSteps]
  BY <1>1, JobMoves
<1>3. Faithful(c) /\ command[c].pc = "open"
  BY <1>1, OpenCommand
<1>a. UNCHANGED <<latest, snapshots, pointer, notes, pictured, flock>>
  BY DEF BlockImages, filesVars
<1> USE DEF EndStates, Good
<1>4. JobsFit(c)'
  BY <1>1, <1>2, <1>3 DEF Faithful, JobsFit, JobsOf, AllJobs, Jobs
<1>5. TakesTurns(c)'
  BY <1>1, <1>2, <1>3 DEF Faithful, JobsFit, TakesTurns, Jobs, AllJobs
<1>6. KeepsPatch(c)' /\ ExitsTruly(c)' /\ FetchesPictures(c)'
  BY <1>1, <1>2, <1>3, <1>a DEF Faithful, KeepsPatch, ExitsTruly, FetchesPictures, IsPublished,
     Jobs, AllJobs
<1>8. UpdatesTypes'
  BY <1>2, <1>a DEF UpdatesInv, UpdatesTypes, IsPublished
<1>9. command[c].pc # "none" /\ command'[c].pc # "none"
  BY <1>2, <1>3
<1> QED BY ONLY UpdatesInv, <1>2, <1>4, <1>5, <1>6, <1>8, <1>9, <1>a, OneMoves DEF Faithful

(* The pointer is switched to a snapshot of the patch the command asked    *)
(* for, and never to an earlier revision.                                  *)
LEMMA PointerSwitched ==
  ASSUME UpdatesInv, NEW c \in Commands, NEW j \in Jobs, SwitchPointer(c, j)
  PROVE  UpdatesInv'
<1>1. /\ IsOpen(c) /\ "success" \in JobSteps /\ SetJob(c, j, "success")
      /\ command[c].job[j] = "switch" /\ j \in {"catalog", "init"}
  BY DEF SwitchPointer, JobSteps, EndStates
<1>2. /\ command' \in [Commands -> CommandType]
      /\ \A d \in Commands \ {c} : command'[d] = command[d]
      /\ command'[c].pc = "open" /\ command'[c].op = command[c].op
      /\ command'[c].target = command[c].target
      /\ command'[c].seen = command[c].seen /\ command'[c].rev = command[c].rev
      /\ command'[c].job = [command[c].job EXCEPT ![j] = "success"]
      /\ command[c].job \in [Jobs -> JobSteps]
  BY <1>1, JobMoves
<1>3. Faithful(c) /\ command[c].pc = "open"
  BY <1>1, OpenCommand
<1>a. UNCHANGED <<latest, snapshots, notes, pictured, flock>> /\ pointer' = command[c].rev
  BY DEF SwitchPointer
<1>b. /\ command[c].rev \in DOMAIN snapshots /\ command[c].target # 0
      /\ snapshots[command[c].rev] = command[c].target
  BY <1>1, <1>3 DEF Faithful, KeepsPatch
<1>d. command[c].rev <= command[c].rev
  <2>1. command[c].rev \in Int
    BY <1>1, OpenCommand DEF CommandType
  <2> QED BY <2>1
<1> USE DEF EndStates, Good
<1>4. JobsFit(c)'
  BY <1>1, <1>2, <1>3 DEF Faithful, JobsFit, JobsOf, AllJobs, Jobs
<1>5. TakesTurns(c)'
  BY <1>1, <1>2, <1>3 DEF Faithful, JobsFit, TakesTurns, Jobs, AllJobs
<1>6. KeepsPatch(c)' /\ ExitsTruly(c)'
  BY <1>1, <1>2, <1>3, <1>a, <1>b, <1>d DEF Faithful, KeepsPatch, ExitsTruly, IsPublished, Jobs,
     AllJobs
<1>7. command[c].job["images"] \notin {"run", "success"}
  BY <1>1, <1>2, <1>3 DEF Faithful, JobsFit, TakesTurns, Jobs, AllJobs, JobsOf
<1>c. FetchesPictures(c)'
  BY <1>1, <1>2, <1>7 DEF FetchesPictures, Jobs, AllJobs
<1>8. UpdatesTypes'
  <2>1. command[c].rev \in Int
    BY <1>1, OpenCommand DEF CommandType
  <2> QED BY <2>1, <1>2, <1>a, <1>b DEF UpdatesInv, UpdatesTypes, IsPublished
<1>9. command[c].pc # "none" /\ command'[c].pc # "none"
  BY <1>2, <1>3
<1> QED BY ONLY UpdatesInv, <1>2, <1>4, <1>5, <1>6, <1>c, <1>8, <1>9, <1>a, OneMoves DEF Faithful

(* What Valve announces to a command is a patch, and the one it has asked  *)
(* for already.                                                            *)
LEMMA AnnouncedOnce ==
  ASSUME UpdatesInv, NEW c \in Commands, IsOpen(c)
  PROVE  /\ Announced(c) \in Nat /\ Announced(c) # 0
         /\ command[c].target # 0 => Announced(c) = command[c].target
<1>1. command[c] \in CommandType /\ latest \in Nat \ {0}
  BY OpenCommand DEF UpdatesInv, UpdatesTypes
<1> QED BY <1>1 DEF Announced, CommandType

(* The catalog is skipped only when the current one has the announced      *)
(* patch.                                                                  *)
LEMMA PatchChecked ==
  ASSUME UpdatesInv, NEW c \in Commands, CheckPatch(c)
  PROVE  UpdatesInv'
<1> DEFINE same == Loaded > 0 /\ ~command[c].force /\ snapshots[Loaded] = Announced(c)
           s == IF same THEN "skipped" ELSE "rename"
<1>1. /\ IsOpen(c) /\ s \in JobSteps /\ command[c].job["catalog"] = "run"
      /\ s \in {"skipped", "rename"} /\ "catalog" \in Jobs
  BY DEF CheckPatch, JobSteps, EndStates, Jobs, AllJobs
<1>3. /\ Faithful(c) /\ command[c].pc = "open" /\ command \in [Commands -> CommandType]
      /\ command[c] \in CommandType
  BY <1>1, OpenCommand
<1>b. /\ Announced(c) \in Nat /\ Announced(c) # 0
      /\ command[c].target # 0 => Announced(c) = command[c].target
  BY <1>1, AnnouncedOnce
<1>c. command' = [command EXCEPT ![c].job["catalog"] = s, ![c].target = Announced(c)]
  BY DEF CheckPatch
<1>d. s = "skipped" => IsPublished /\ snapshots[pointer] = Announced(c)
  <2>1. Loaded > 0 => IsPublished /\ Loaded = pointer
    BY DEF Loaded, IsPublished, Unset, Damaged
  <2> QED BY <2>1
<1>a. UNCHANGED <<latest, snapshots, pointer, notes, pictured, flock>>
  BY DEF CheckPatch, filesVars
<1> HIDE DEF s
<1>2. /\ command' \in [Commands -> CommandType]
      /\ \A d \in Commands \ {c} : command'[d] = command[d]
      /\ command'[c].pc = "open" /\ command'[c].op = command[c].op
      /\ command'[c].target = Announced(c)
      /\ command'[c].seen = command[c].seen /\ command'[c].rev = command[c].rev
      /\ command'[c].job = [command[c].job EXCEPT !["catalog"] = s]
      /\ command[c].job \in [Jobs -> JobSteps]
  BY <1>1, <1>3, <1>b, <1>c DEF CommandType
<1> USE DEF EndStates, Good
<1>4. JobsFit(c)'
  BY <1>1, <1>2, <1>3 DEF Faithful, JobsFit, JobsOf, AllJobs, Jobs
<1>5. TakesTurns(c)'
  BY <1>1, <1>2, <1>3 DEF Faithful, JobsFit, TakesTurns, Jobs, AllJobs
<1>e. command[c].job["init"] \notin {"rename", "switch"}
  BY <1>1, <1>3 DEF Faithful, JobsFit, JobsOf, Jobs, AllJobs, CommandType, Operations
<1>6. KeepsPatch(c)'
  BY <1>1, <1>2, <1>3, <1>a, <1>b, <1>d, <1>e DEF Faithful, KeepsPatch, IsPublished, Jobs, AllJobs
<1>f. FetchesPictures(c)' /\ ExitsTruly(c)'
  BY <1>1, <1>2, <1>3, <1>a DEF Faithful, FetchesPictures, ExitsTruly, IsPublished, Jobs, AllJobs
<1>8. UpdatesTypes'
  BY <1>2, <1>a DEF UpdatesInv, UpdatesTypes, IsPublished
<1>9. command[c].pc # "none" /\ command'[c].pc # "none"
  BY <1>2, <1>3
<1> QED BY ONLY UpdatesInv, <1>2, <1>4, <1>5, <1>6, <1>f, <1>8, <1>9, <1>a, OneMoves DEF Faithful

(* The notes saved are those of the patch the command asked for.           *)
LEMMA NotesSaved ==
  ASSUME UpdatesInv, NEW c \in Commands, SavePatchNotes(c)
  PROVE  UpdatesInv'
<1> DEFINE s == IF Announced(c) \in notes THEN "skipped" ELSE "success"
<1>1. /\ IsOpen(c) /\ s \in JobSteps /\ command[c].job["patches"] = "run"
      /\ s \in {"skipped", "success"} /\ "patches" \in Jobs
  BY DEF SavePatchNotes, JobSteps, EndStates, Jobs, AllJobs
<1>3. /\ Faithful(c) /\ command[c].pc = "open" /\ command \in [Commands -> CommandType]
      /\ command[c] \in CommandType
  BY <1>1, OpenCommand
<1>b. /\ Announced(c) \in Nat /\ Announced(c) # 0
      /\ command[c].target # 0 => Announced(c) = command[c].target
  BY <1>1, AnnouncedOnce
<1>c. /\ command' = [command EXCEPT ![c].target = Announced(c), ![c].job["patches"] = s]
      /\ notes' = notes \cup {Announced(c)}
  BY DEF SavePatchNotes
<1>a. UNCHANGED <<latest, snapshots, pointer, pictured, flock>>
  BY DEF SavePatchNotes
<1> HIDE DEF s
<1>2. /\ command' \in [Commands -> CommandType]
      /\ \A d \in Commands \ {c} : command'[d] = command[d]
      /\ command'[c].pc = "open" /\ command'[c].op = command[c].op
      /\ command'[c].target = Announced(c)
      /\ command'[c].seen = command[c].seen /\ command'[c].rev = command[c].rev
      /\ command'[c].job = [command[c].job EXCEPT !["patches"] = s]
      /\ command[c].job \in [Jobs -> JobSteps]
  BY <1>1, <1>3, <1>b, <1>c DEF CommandType
<1> USE DEF EndStates, Good
<1>4. JobsFit(c)'
  BY <1>1, <1>2, <1>3 DEF Faithful, JobsFit, JobsOf, AllJobs, Jobs
<1>5. TakesTurns(c)'
  BY <1>1, <1>2, <1>3 DEF Faithful, JobsFit, TakesTurns, Jobs, AllJobs
<1>6. KeepsPatch(c)'
  BY <1>1, <1>2, <1>3, <1>a, <1>b, <1>c DEF Faithful, KeepsPatch, IsPublished, Jobs, AllJobs
<1>f. FetchesPictures(c)' /\ ExitsTruly(c)'
  BY <1>1, <1>2, <1>3, <1>a DEF Faithful, FetchesPictures, ExitsTruly, IsPublished, Jobs, AllJobs
<1>8. UpdatesTypes'
  BY <1>2, <1>a DEF UpdatesInv, UpdatesTypes, IsPublished
<1>9. command[c].pc # "none" /\ command'[c].pc # "none"
  BY <1>2, <1>3
<1> QED BY ONLY UpdatesInv, <1>2, <1>4, <1>5, <1>6, <1>f, <1>8, <1>9, <1>a, OneMoves DEF Faithful

(* The snapshot that is built becomes the last revision; those before it,  *)
(* and the pointer, keep their place.                                      *)
LEMMA DirectoryRenamed ==
  ASSUME UpdatesInv, NEW c \in Commands, NEW j \in Jobs, RenameDirectory(c, j)
  PROVE  UpdatesInv'
<1>1. /\ IsOpen(c) /\ "switch" \in JobSteps
      /\ command[c].job[j] = "rename" /\ j \in {"catalog", "init"}
  BY DEF RenameDirectory, JobSteps
<1>3. /\ Faithful(c) /\ command[c].pc = "open" /\ command \in [Commands -> CommandType]
      /\ command[c] \in CommandType
  BY <1>1, OpenCommand
<1>b. PICK n \in Nat : /\ n = Len(snapshots) /\ DOMAIN snapshots = 1..n
                       /\ snapshots \in Seq(Nat)
  BY DEF UpdatesInv, UpdatesTypes
<1>c. /\ command' = [command EXCEPT ![c].job[j] = "switch", ![c].rev = n + 1]
      /\ snapshots' = Append(snapshots, command[c].target)
  BY <1>b DEF RenameDirectory
<1>a. UNCHANGED <<latest, pointer, notes, pictured, flock>>
  BY DEF RenameDirectory
<1>d. /\ snapshots' \in Seq(Nat) /\ DOMAIN snapshots' = 1..(n + 1)
      /\ snapshots'[n + 1] = command[c].target
      /\ \A i \in 1..n : snapshots'[i] = snapshots[i]
  <2>1. command[c].target \in Nat
    BY <1>3 DEF CommandType
  <2> QED BY <2>1, <1>b, <1>c, AppendProperties
<1>i. PICK r \in Int : r = n + 1
  BY <1>b
<1>j. command' = [command EXCEPT ![c].job[j] = "switch", ![c].rev = r]
  BY <1>c, <1>i
<1>2. /\ command' \in [Commands -> CommandType]
      /\ \A d \in Commands \ {c} : command'[d] = command[d]
      /\ command'[c].pc = "open" /\ command'[c].op = command[c].op
      /\ command'[c].target = command[c].target
      /\ command'[c].seen = command[c].seen /\ command'[c].rev = r
      /\ command'[c].job = [command[c].job EXCEPT ![j] = "switch"]
      /\ command[c].job \in [Jobs -> JobSteps]
  BY <1>1, <1>3, <1>j DEF CommandType
<1>e. /\ n + 1 \in 1..(n + 1) /\ \A i \in 1..n : i \in 1..(n + 1)
  BY <1>b
<1>g. /\ IsPublished => IsPublished' /\ snapshots'[pointer'] = snapshots[pointer]
  BY <1>a, <1>b, <1>d, <1>e DEF IsPublished
<1>k. pointer <= r
  <2>1. pointer \in {Unset, Damaged} \/ pointer \in 1..n
    BY <1>b DEF UpdatesInv, UpdatesTypes, IsPublished
  <2> QED BY <2>1, <1>b, <1>i DEF Unset, Damaged
<1> USE DEF EndStates, Good
<1>4. JobsFit(c)'
  BY <1>1, <1>2, <1>3 DEF Faithful, JobsFit, JobsOf, AllJobs, Jobs
<1>5. TakesTurns(c)'
  BY <1>1, <1>2, <1>3 DEF Faithful, JobsFit, TakesTurns, Jobs, AllJobs
<1>h. \A i \in {"catalog", "init"} : command[c].job[i] = "switch" => i = j
  BY <1>1, <1>3 DEF Faithful, JobsFit, JobsOf, Jobs, AllJobs, CommandType, Operations
<1>6. KeepsPatch(c)'
  BY <1>1, <1>2, <1>3, <1>a, <1>d, <1>e, <1>g, <1>h, <1>i, <1>k
     DEF Faithful, KeepsPatch, Jobs, AllJobs
<1>f. FetchesPictures(c)' /\ ExitsTruly(c)'
  BY <1>1, <1>2, <1>3, <1>a, <1>g DEF Faithful, FetchesPictures, ExitsTruly, Jobs, AllJobs
<1>8. UpdatesTypes'
  BY <1>2, <1>a, <1>d, <1>g DEF UpdatesInv, UpdatesTypes
<1>9. command[c].pc # "none" /\ command'[c].pc # "none"
  BY <1>2, <1>3
<1> QED BY ONLY UpdatesInv, <1>2, <1>4, <1>5, <1>6, <1>f, <1>8, <1>9, <1>a, OneMoves DEF Faithful

(* A job that was due starts once the one before it has ended.             *)
LEMMA JobStarted ==
  ASSUME UpdatesInv, NEW c \in Commands, NEW j \in Jobs, StartJob(c, j)
  PROVE  UpdatesInv'
<1> DEFINE s == FirstStep(j)
           e == IF j = "images" THEN Loaded ELSE command[c].seen
<1>1. IsOpen(c) /\ command[c].job[j] = "due" /\ InTurn(c, j)
  BY DEF StartJob, MayStart
<1>3. /\ Faithful(c) /\ command[c].pc = "open" /\ command \in [Commands -> CommandType]
      /\ command[c] \in CommandType /\ command[c].job \in [Jobs -> JobSteps]
  BY <1>1, OpenCommand
<1>b. command[c].op = "all" /\ j \in {"images", "teams"}
  BY <1>1, <1>3 DEF Faithful, JobsFit
<1>c. Loaded \in Int /\ (Loaded > 0 => IsPublished /\ Loaded = pointer)
  BY DEF Loaded, IsPublished, Unset, Damaged, UpdatesInv, UpdatesTypes
<1>d. /\ s \in {"run", "failed"} /\ s \in JobSteps
      /\ j = "images" /\ s = "run" => IsPublished /\ e = pointer
  BY <1>b, <1>c DEF FirstStep, JobSteps, EndStates
<1>e. e \in Int
  BY <1>3, <1>c DEF CommandType
<1>g. command' = [command EXCEPT ![c].job[j] = s, ![c].seen = e]
  BY DEF StartJob
<1>a. UNCHANGED <<latest, snapshots, pointer, notes, pictured, flock>>
  BY DEF StartJob, filesVars
<1> HIDE DEF s, e
<1>2. /\ command' \in [Commands -> CommandType]
      /\ \A d \in Commands \ {c} : command'[d] = command[d]
      /\ command'[c].pc = "open" /\ command'[c].op = command[c].op
      /\ command'[c].target = command[c].target
      /\ command'[c].seen = e /\ command'[c].rev = command[c].rev
      /\ command'[c].job = [command[c].job EXCEPT ![j] = s]
      /\ command[c].job \in [Jobs -> JobSteps]
  BY <1>1, <1>3, <1>d, <1>e, <1>g DEF CommandType
<1> USE DEF EndStates, Good
<1>4. JobsFit(c)'
  BY <1>1, <1>2, <1>3, <1>b, <1>d DEF Faithful, JobsFit, JobsOf, AllJobs, Jobs
<1>5. TakesTurns(c)'
  BY <1>1, <1>2, <1>3, <1>b, <1>d DEF Faithful, JobsFit, TakesTurns, InTurn, Jobs, AllJobs
<1>6. KeepsPatch(c)'
  BY <1>1, <1>2, <1>3, <1>a, <1>b, <1>d DEF Faithful, KeepsPatch, IsPublished, Jobs, AllJobs
<1>h. command[c].job["images"] = "run" => j # "teams"
  BY <1>1 DEF InTurn
<1>f. FetchesPictures(c)' /\ ExitsTruly(c)'
  BY <1>1, <1>2, <1>3, <1>a, <1>b, <1>d, <1>h DEF Faithful, FetchesPictures, ExitsTruly,
     IsPublished, Jobs, AllJobs
<1>8. UpdatesTypes'
  BY <1>2, <1>a DEF UpdatesInv, UpdatesTypes, IsPublished
<1>9. command[c].pc # "none" /\ command'[c].pc # "none"
  BY <1>2, <1>3
<1> QED BY ONLY UpdatesInv, <1>2, <1>4, <1>5, <1>6, <1>f, <1>8, <1>9, <1>a, OneMoves DEF Faithful

(* An interrupt ends the jobs under way as failed, and never as good.      *)
LEMMA CommandInterrupted ==
  ASSUME UpdatesInv, NEW c \in Commands, Interrupt(c)
  PROVE  UpdatesInv'
<1> DEFINE s == IF command[c].job["init"] = "off" THEN "off" ELSE "failed"
<1>1. IsOpen(c) /\ s \in JobSteps /\ "init" \in Jobs
  BY DEF Interrupt, JobSteps, EndStates, Jobs
<1>3. /\ Faithful(c) /\ command[c].pc = "open" /\ command \in [Commands -> CommandType]
      /\ command[c] \in CommandType /\ command[c].job \in [Jobs -> JobSteps]
  BY <1>1, OpenCommand
<1>g. command' = [command EXCEPT ![c].stop = TRUE, ![c].job["init"] = s]
  BY <1>1, <1>3 DEF Interrupt, CommandType
<1>a. UNCHANGED <<latest, snapshots, pointer, notes, pictured, flock>>
  BY DEF Interrupt, filesVars
<1>b. s \in {"off", "failed"} /\ (s = "off" <=> command[c].job["init"] = "off")
  OBVIOUS
<1> HIDE DEF s
<1>2. /\ command' \in [Commands -> CommandType]
      /\ \A d \in Commands \ {c} : command'[d] = command[d]
      /\ command'[c].pc = "open" /\ command'[c].op = command[c].op
      /\ command'[c].target = command[c].target
      /\ command'[c].seen = command[c].seen /\ command'[c].rev = command[c].rev
      /\ command'[c].job = [command[c].job EXCEPT !["init"] = s]
      /\ command[c].job \in [Jobs -> JobSteps]
  BY <1>1, <1>3, <1>g DEF CommandType
<1> USE DEF EndStates, Good
<1>4. JobsFit(c)'
  BY <1>1, <1>2, <1>3, <1>b DEF Faithful, JobsFit, JobsOf, AllJobs, Jobs
<1>5. TakesTurns(c)'
  BY <1>1, <1>2, <1>3, <1>b DEF Faithful, TakesTurns, Jobs, AllJobs
<1>6. KeepsPatch(c)' /\ FetchesPictures(c)' /\ ExitsTruly(c)'
  BY <1>1, <1>2, <1>3, <1>a, <1>b DEF Faithful, KeepsPatch, FetchesPictures, ExitsTruly,
     IsPublished, Jobs, AllJobs
<1>8. UpdatesTypes'
  BY <1>2, <1>a DEF UpdatesInv, UpdatesTypes, IsPublished
<1>9. command[c].pc # "none" /\ command'[c].pc # "none"
  BY <1>2, <1>3
<1> QED BY ONLY UpdatesInv, <1>2, <1>4, <1>5, <1>6, <1>8, <1>9, <1>a, OneMoves DEF Faithful

(* The exit code is computed from the jobs' ends.                          *)
LEMMA CommandExits ==
  ASSUME UpdatesInv, NEW c \in Commands, Exit(c)
  PROVE  UpdatesInv'
<1>1. IsOpen(c)
  BY DEF Exit
<1>3. /\ Faithful(c) /\ command[c].pc = "open" /\ command \in [Commands -> CommandType]
      /\ command[c] \in CommandType /\ command[c].job \in [Jobs -> JobSteps]
  BY <1>1, OpenCommand
<1>b. /\ ExitCode(c) \in Int
      /\ ExitCode(c) = 0 => \A j \in JobsOf(command[c].op) : command[c].job[j] \in Good
  BY DEF ExitCode, Good
<1>g. command' = [command EXCEPT ![c].pc = "exiting", ![c].exit = ExitCode(c)]
  BY DEF Exit
<1>a. UNCHANGED <<latest, snapshots, pointer, notes, pictured, flock>>
  BY DEF Exit, filesVars
<1>2. /\ command' \in [Commands -> CommandType]
      /\ \A d \in Commands \ {c} : command'[d] = command[d]
      /\ command'[c].pc = "exiting" /\ command'[c].op = command[c].op
      /\ command'[c].target = command[c].target
      /\ command'[c].seen = command[c].seen /\ command'[c].rev = command[c].rev
      /\ command'[c].job = command[c].job /\ command'[c].exit = ExitCode(c)
  BY <1>1, <1>3, <1>b, <1>g DEF CommandType, CommandPhases
<1>4. JobsFit(c)' /\ TakesTurns(c)'
  BY <1>2, <1>3 DEF Faithful, JobsFit, TakesTurns
<1>6. KeepsPatch(c)' /\ FetchesPictures(c)'
  BY <1>2, <1>3, <1>a DEF Faithful, KeepsPatch, FetchesPictures, IsPublished
<1>7. ExitsTruly(c)'
  BY <1>2, <1>b DEF ExitsTruly
<1>8. UpdatesTypes'
  BY <1>2, <1>a DEF UpdatesInv, UpdatesTypes, IsPublished
<1>9. command[c].pc # "none" /\ command'[c].pc # "none"
  BY <1>2, <1>3
<1> QED BY ONLY UpdatesInv, <1>2, <1>4, <1>6, <1>7, <1>8, <1>9, <1>a, OneMoves DEF Faithful

(* A command that releases the lock, or is killed with it, is not running. *)
LEMMA CommandGone ==
  ASSUME UpdatesInv, NEW c \in Commands, ReleaseLock(c) \/ Kill(c)
  PROVE  UpdatesInv'
<1>1. /\ command[c].pc # "none" /\ flock' = NoCommand
      /\ command' = [command EXCEPT ![c] = NotRunning]
      /\ UNCHANGED <<latest, snapshots, pointer>>
  BY DEF ReleaseLock, Kill, filesVars
<1>2. command \in [Commands -> CommandType] /\ UpdatesTypes /\ \A d \in Commands : CommandIsSound(d)
  BY DEF UpdatesInv, UpdatesTypes
<1>3. \A d \in Commands : d # c => command[d] = NotRunning /\ NotRunning.pc = "none"
  BY <1>1, <1>2 DEF CommandIsSound, NotRunning
<1>4. \A d \in Commands : command'[d] = NotRunning /\ NotRunning.pc = "none"
  BY <1>1, <1>2, <1>3 DEF NotRunning
<1>5. NotRunning \in CommandType
  BY DEF NotRunning, CommandType, CommandPhases, Operations, Jobs, AllJobs, JobSteps, Unset
<1>6. command' \in [Commands -> CommandType]
  BY <1>1, <1>2, <1>5
<1> QED BY <1>1, <1>2, <1>4, <1>6 DEF UpdatesInv, UpdatesTypes, CommandIsSound, IsPublished

(* How a job of a new command begins, and what its images look at.         *)
LEMMA FirstSteps ==
  ASSUME UpdatesInv, NEW op \in Operations, NEW j \in JobsOf(op)
  PROVE  /\ Loaded \in Int /\ (Loaded > 0 => IsPublished /\ Loaded = pointer)
         /\ FirstStep(j) \in {"run", "rename", "failed", "skipped"}
         /\ FirstStep(j) = "run" => j # "init" /\ (j = "images" => Loaded > 0)
         /\ FirstStep(j) \in {"rename", "skipped"} => j = "init"
<1>1. Loaded \in Int /\ (Loaded > 0 => IsPublished /\ Loaded = pointer)
  BY DEF Loaded, IsPublished, Unset, Damaged, UpdatesInv, UpdatesTypes
<1>2. CASE j = "init"
  BY <1>1, <1>2 DEF FirstStep
<1>3. CASE j \in {"images", "migrate"}
  BY <1>1, <1>3 DEF FirstStep
<1>4. CASE j \notin {"init", "images", "migrate"}
  BY <1>1, <1>4 DEF FirstStep
<1> QED BY <1>2, <1>3, <1>4

(* A command as it is launched                                             *)
LaunchedAs(op, f, goal, view, work) ==
  [NotRunning EXCEPT !.pc = "open", !.op = op, !.force = f, !.target = goal, !.seen = view,
                     !.job = work]

(* ... which is a running command with the given jobs.                     *)
LEMMA LaunchedCommand ==
  ASSUME NEW op \in Operations, NEW f \in BOOLEAN, NEW goal \in Nat, NEW view \in Int,
         NEW work \in [Jobs -> JobSteps], NEW k, k = LaunchedAs(op, f, goal, view, work)
  PROVE  /\ k.pc = "open" /\ k.op = op /\ k.target = goal /\ k.seen = view /\ k.job = work
         /\ k \in CommandType
<1>1. NotRunning \in CommandType
  BY DEF NotRunning, CommandType, CommandPhases, Operations, Jobs, AllJobs, JobSteps, Unset
<1>2. "open" \in CommandPhases
  BY DEF CommandPhases
<1> QED BY <1>1, <1>2 DEF CommandType, LaunchedAs

(* A command begins only when nobody holds the lock.                       *)
LEMMA CommandLaunched ==
  ASSUME UpdatesInv, NEW c \in Commands, Launch(c)
  PROVE  UpdatesInv'
<1>1. /\ command[c].pc = "none"
      /\ UNCHANGED <<latest, snapshots, pointer, notes, pictured>>
  BY DEF Launch, filesVars
<1>2. /\ command \in [Commands -> CommandType] /\ UpdatesTypes
      /\ \A d \in Commands : CommandIsSound(d)
  BY DEF UpdatesInv, UpdatesTypes
<1>3. CASE ~LockIsFree
  <2>1. UNCHANGED <<flock, command>>
    BY <1>3 DEF Launch
  <2> QED BY <1>1, <1>2, <2>1
      DEF UpdatesInv, UpdatesTypes, IsPublished, CommandIsSound, Faithful, JobsFit, TakesTurns,
          KeepsPatch, FetchesPictures, ExitsTruly
<1>4. CASE LockIsFree
  <2>1. \A d \in Commands : command[d] = NotRunning /\ command[d].pc = "none"
    BY <1>2, <1>4, UpdatesAssumption DEF CommandIsSound, LockIsFree, NotRunning
  <2>2. PICK op \in Operations \cap Offered, f \in BOOLEAN :
          /\ f => op \in {"all", "catalog"}
          /\ command' = [command EXCEPT ![c] =
               [NotRunning EXCEPT !.pc = "open", !.op = op, !.force = f,
                  !.target = IF op = "init" THEN 1 ELSE 0,
                  !.seen = IF op = "images" THEN Loaded ELSE Unset,
                  !.job = [j \in Jobs |-> IF j \notin JobsOf(op) THEN "off"
                             ELSE IF op = "all" /\ j \in {"images", "teams"} THEN "due"
                             ELSE FirstStep(j)]]]
    BY <1>4 DEF Launch
  <2> DEFINE work == [j \in Jobs |-> IF j \notin JobsOf(op) THEN "off"
                             ELSE IF op = "all" /\ j \in {"images", "teams"} THEN "due"
                             ELSE FirstStep(j)]
             goal == IF op = "init" THEN 1 ELSE 0
             view == IF op = "images" THEN Loaded ELSE Unset
             k == LaunchedAs(op, f, goal, view, work)
  <2>3. command' = [command EXCEPT ![c] = k] /\ flock' = c
    BY <1>4, <2>2 DEF Launch, LaunchedAs
  <2>4. JobsOf(op) \subseteq Jobs
    BY DEF JobsOf, Operations, Jobs
  <2>5. \A j \in JobsOf(op) :
          /\ Loaded \in Int /\ (Loaded > 0 => IsPublished /\ Loaded = pointer)
          /\ FirstStep(j) \in {"run", "rename", "failed", "skipped"}
          /\ FirstStep(j) = "run" => j # "init" /\ (j = "images" => Loaded > 0)
          /\ FirstStep(j) \in {"rename", "skipped"} => j = "init"
    BY FirstSteps
  <2>6. work \in [Jobs -> JobSteps]
    BY <2>4, <2>5 DEF JobSteps, EndStates
  <2>7. goal \in Nat /\ (op = "init" => goal # 0)
    OBVIOUS
  <2>8. view \in Int /\ (op = "images" => view = Loaded)
    BY <2>5 DEF JobsOf, Unset
  <2> HIDE DEF work, goal, view
  <2>9. /\ k.pc = "open" /\ k.op = op /\ k.target = goal /\ k.seen = view /\ k.job = work
        /\ k \in CommandType
    <3>1. op \in Operations /\ f \in BOOLEAN /\ goal \in Nat /\ view \in Int
      BY <2>7, <2>8
    <3> QED BY ONLY <2>6, <3>1, LaunchedCommand
  <2> HIDE DEF k
  <2>10. /\ command' \in [Commands -> CommandType] /\ command'[c] = k
         /\ \A d \in Commands \ {c} : command'[d] = command[d]
    BY <1>2, <2>3, <2>9
  <2>11. op \in Operations /\ \A j \in Jobs : work[j] = IF j \notin JobsOf(op) THEN "off"
                             ELSE IF op = "all" /\ j \in {"images", "teams"} THEN "due"
                             ELSE FirstStep(j)
    BY DEF work
  <2> USE DEF EndStates, Good
  <2>12. JobsFit(c)'
    BY <2>5, <2>9, <2>10, <2>11 DEF JobsFit, JobsOf, AllJobs, Jobs
  <2>13. TakesTurns(c)'
    BY <2>9, <2>10, <2>11 DEF TakesTurns, JobsOf, AllJobs, Jobs
  <2>14. KeepsPatch(c)'
    BY <2>4, <2>5, <2>7, <2>9, <2>10, <2>11 DEF KeepsPatch, JobsOf, AllJobs, Jobs
  <2>15. FetchesPictures(c)'
    BY <1>1, <2>5, <2>8, <2>9, <2>10, <2>11 DEF FetchesPictures, JobsOf, AllJobs, Jobs,
       IsPublished
  <2>16. ExitsTruly(c)'
    BY <2>9, <2>10 DEF ExitsTruly
  <2>17. CommandIsSound(c)'
    BY <2>3, <2>9, <2>10, <2>12, <2>13, <2>14, <2>15, <2>16 DEF CommandIsSound, Faithful
  <2>18. \A d \in Commands \ {c} : CommandIsSound(d)'
    BY <2>1, <2>10 DEF CommandIsSound
  <2>19. UpdatesTypes'
    BY <1>1, <1>2, <2>10 DEF UpdatesTypes, IsPublished
  <2> QED BY <2>17, <2>18, <2>19 DEF UpdatesInv
<1> QED BY <1>3, <1>4

(* No step of a command breaks the invariant.                              *)
LEMMA CommandStepKeeps ==
  ASSUME UpdatesInv, NEW c \in Commands, CommandStep(c)
  PROVE  UpdatesInv'
<1>1. CASE \E j \in Jobs : StartJob(c, j) \/ RenameDirectory(c, j) \/ SwitchPointer(c, j)
  BY <1>1, JobStarted, DirectoryRenamed, PointerSwitched
<1>2. CASE BlockImages(c) \/ CheckPatch(c) \/ SavePatchNotes(c)
  BY <1>2, ImagesBlocked, PatchChecked, NotesSaved
<1>3. CASE \E s \in {"success", "partial"} : SaveImages(c, s)
  BY <1>3, ImagesEnd
<1>4. ASSUME NEW s \in {"success", "partial"}, NEW j \in Jobs, OtherJob(c, j, s)
      PROVE  UpdatesInv'
  <2>1. s \in EndStates
    BY DEF EndStates
  <2> QED BY <1>4, <2>1, JobEnds DEF OtherJob
<1>5. ASSUME NEW j \in Jobs, JobFails(c, j)
      PROVE  UpdatesInv'
  <2>1. "failed" \in EndStates
    BY DEF EndStates
  <2> QED BY <1>5, <2>1, JobEnds DEF JobFails, LiveJobs
<1>6. CASE Exit(c) \/ ReleaseLock(c)
  BY <1>6, CommandExits, CommandGone
<1> QED BY <1>1, <1>2, <1>3, <1>4, <1>5, <1>6 DEF CommandStep, StepOfJob

(* Valve's releases and the API's loader leave the commands and the files  *)
LEMMA CommandsRest ==
  ASSUME UpdatesInv, UNCHANGED <<filesVars, flock, command>>, latest' \in Nat \ {0}
  PROVE  UpdatesInv'
<1>1. UNCHANGED <<snapshots, pointer, notes, pictured, flock, command>>
  BY DEF filesVars
<1>2. UpdatesTypes'
  BY <1>1 DEF UpdatesInv, UpdatesTypes, IsPublished
<1>3. ASSUME NEW c \in Commands PROVE CommandIsSound(c)'
  BY <1>1 DEF UpdatesInv, IsPublished, CommandIsSound, Faithful, JobsFit, TakesTurns,
              KeepsPatch, FetchesPictures, ExitsTruly
<1> QED BY <1>2, <1>3 DEF UpdatesInv

(* No step of the updates does.                                            *)
LEMMA UpdatesStep ==
  ASSUME UpdatesInv, UpdatesNext \/ UNCHANGED updateVars
  PROVE  UpdatesInv'
<1>1. latest \in Nat \ {0}
  BY DEF UpdatesInv, UpdatesTypes
<1>2. CASE ReleasePatch
  BY <1>1, <1>2, CommandsRest DEF ReleasePatch
<1>3. CASE StartLoader \/ LoaderStep \/ PollFails \/ StopLoader
  <2>1. UNCHANGED <<latest, filesVars, flock, command>>
    BY <1>3
       DEF StartLoader, LoaderStep, PollReads, PollAdopts, LoaderStopped, PollFails, StopLoader
  <2> QED BY <1>1, <2>1, CommandsRest
<1>5. CASE UNCHANGED updateVars
  BY <1>1, <1>5, CommandsRest DEF updateVars, filesVars
<1>4. ASSUME NEW c \in Commands, Launch(c) \/ CommandStep(c) \/ Interrupt(c) \/ Kill(c)
      PROVE  UpdatesInv'
  BY <1>4, CommandLaunched, CommandStepKeeps, CommandInterrupted, CommandGone
<1> QED BY <1>2, <1>3, <1>4, <1>5 DEF UpdatesNext

(* What the invariant means for those who read the files: the published    *)
(* catalog, its pictures and the exit codes are true.                      *)
LEMMA SoundUpdates == UpdatesInv => UpdatesAreSafe
<1> SUFFICES ASSUME UpdatesInv PROVE UpdatesAreSafe
  OBVIOUS
<1> USE DEF EndStates, Good
<1>1. \A c \in Commands :
        command[c].pc = "none" => LiveJobs(c) = {} /\ command[c].job["images"] = "off"
  BY DEF UpdatesInv, CommandIsSound, NotRunning, LiveJobs, Jobs, AllJobs
<1>2. \A c \in Commands : command[c].pc # "none" => flock = c /\ Faithful(c)
  BY DEF UpdatesInv, CommandIsSound
<1>a. \A c \in Commands : command[c] \in CommandType /\ command[c].job \in [Jobs -> JobSteps]
  BY DEF UpdatesInv, UpdatesTypes, CommandType
<1>3. OneWriter
  <2>1. ASSUME NEW c \in Commands, LiveJobs(c) # {} PROVE flock = c
    BY <1>1, <1>2, <2>1
  <2>2. ASSUME NEW c \in Commands, {"images", "teams"} \subseteq LiveJobs(c) PROVE FALSE
    <3>1. Faithful(c)
      BY <1>1, <1>2, <2>2
    <3>2. /\ command[c].job["images"] \in {"run", "rename", "switch"}
          /\ command[c].job["teams"] \in {"run", "rename", "switch"}
      BY <2>2 DEF LiveJobs
    <3>3. command[c].op = "all"
      BY <1>a, <3>1, <3>2 DEF Faithful, JobsFit, JobsOf, Jobs, AllJobs
    <3> QED BY <3>1, <3>2, <3>3 DEF Faithful, TakesTurns
  <2> QED BY <2>1, <2>2 DEF OneWriter
<1>4. PointerIsSound
  BY DEF PointerIsSound, UpdatesInv, UpdatesTypes, IsPublished, Unset, Damaged
<1>5. ImagesMatchCatalog
  BY <1>1, <1>2 DEF ImagesMatchCatalog, Faithful, FetchesPictures
<1>6. ExitIsTrue
  <2>1. ASSUME NEW c \in Commands, command[c].pc = "exiting",
               command[c].op = "all", command[c].exit = 0
        PROVE  /\ pointer > 0 /\ snapshots[pointer] = pictured
               /\ pictured = command[c].target /\ pictured \in notes
    <3>1. Faithful(c)
      BY <1>2, <2>1
    <3>2. \A j \in AllJobs : command[c].job[j] \in {"success", "skipped"}
      BY <3>1, <2>1 DEF Faithful, ExitsTruly, JobsOf
    <3>3. /\ command[c].job["catalog"] \in Good /\ command[c].job["patches"] \in Good
          /\ command[c].job["images"] = "success"
      BY <3>1, <3>2 DEF Faithful, JobsFit, AllJobs
    <3>4. DOMAIN snapshots = 1..Len(snapshots) /\ Len(snapshots) \in Nat
      BY DEF UpdatesInv, UpdatesTypes
    <3>5. /\ IsPublished /\ pictured = snapshots[pointer] /\ snapshots[pointer] = command[c].target
          /\ command[c].target \in notes
      BY <3>1, <3>3 DEF Faithful, KeepsPatch, FetchesPictures
    <3> QED BY <3>4, <3>5 DEF IsPublished
  <2> QED BY <2>1 DEF ExitIsTrue
<1>7. CommandsMoveOn
  <2> SUFFICES ASSUME NEW c \in Commands, IsOpen(c), LiveJobs(c) = {}, ~MayBlock(c), ~MayExit(c)
               PROVE  \E j \in Jobs : MayStart(c, j)
    BY DEF CommandsMoveOn
  <2>1. Faithful(c)
    BY <1>2 DEF IsOpen
  <2>2. \A j \in Jobs : command[c].job[j] \in {"off", "due"} \cup EndStates
    BY <1>a DEF LiveJobs, JobSteps
  <2>3. ~command[c].stop /\ \E j \in JobsOf(command[c].op) : command[c].job[j] \notin EndStates
    BY DEF MayExit
  <2>4. JobsOf(command[c].op) \subseteq Jobs
    BY <1>a DEF JobsOf, Jobs, CommandType, Operations
  <2>5. PICK j \in Jobs : j \in JobsOf(command[c].op) /\ command[c].job[j] \notin EndStates
    BY <2>3, <2>4
  <2>6. command[c].job[j] = "due" /\ command[c].op = "all" /\ j \in {"images", "teams"}
    BY <2>1, <2>2, <2>5 DEF Faithful, JobsFit
  <2>7. {"images", "teams", "catalog"} \subseteq Jobs
    BY DEF Jobs, AllJobs
  <2>8. \A i \in {"images", "teams", "catalog"} : command[c].job[i] # "off"
    BY <2>1, <2>6, <2>7 DEF Faithful, JobsFit, JobsOf, AllJobs
  <2>9. CASE command[c].job["images"] = "due"
    <3>1. command[c].job["catalog"] \in {"success", "skipped", "failed"}
      BY <2>1, <2>2, <2>7, <2>8 DEF Faithful, JobsFit
    <3>2. command[c].job["catalog"] # "failed"
      BY <2>3, <2>6, <2>9 DEF MayBlock
    <3>3. MayStart(c, "images")
      BY <2>3, <2>9, <3>1, <3>2 DEF MayStart, InTurn
    <3> QED BY <2>7, <3>3
  <2>10. CASE command[c].job["images"] # "due"
    <3>1. command[c].job["images"] \in EndStates /\ command[c].job["teams"] = "due"
      BY <2>2, <2>6, <2>7, <2>8, <2>10
    <3>2. MayStart(c, "teams")
      BY <2>3, <3>1 DEF MayStart, InTurn
    <3> QED BY <2>7, <3>2
  <2> QED BY <2>9, <2>10
<1> QED BY <1>3, <1>4, <1>5, <1>6, <1>7 DEF UpdatesAreSafe

(* What the invariant of the load means for the refresh.                   *)
LEMMA CleanLoads == LoadInv => LoadIsClean
<1> SUFFICES ASSUME LoadInv PROVE LoadIsClean
  OBVIOUS
<1>1. \A w \in Winners : asked[w] <= 1
  BY DEF LoadInv, LoadTypes
<1> QED BY <1>1 DEF LoadInv, LoadIsClean, LookupsAreShared, FitsSlots

(* Spec => []DataIsSound: whatever commands, interrupts, kills and failed  *)
(* reads there are, a running update is alone with the files, publishes    *)
(* what it says it did and exits with zero only when every job ended well; *)
(* and a load of the homepage's series keeps to its slots, asks about a    *)
(* team once and leaves no task behind (valve_update.py, game_data_sync.py,*)
(* recent_series.py).                                                      *)
THEOREM DataHolds == Spec => []DataIsSound
<1>1. Init => LoadInv /\ UpdatesInv
  BY LoadInitially, UpdatesInitially DEF Init
<1>2. LoadInv /\ UpdatesInv /\ [Next]_allVars => (LoadInv /\ UpdatesInv)'
  <2> SUFFICES ASSUME LoadInv, UpdatesInv, [Next]_allVars PROVE LoadInv' /\ UpdatesInv'
    OBVIOUS
  <2>1. LoadInv'
    <3>1. CASE LoadNext
      BY <3>1, LoadStep
    <3>2. CASE UNCHANGED loadVars
      BY <3>2 DEF loadVars, LoadInv, LoadTypes, LookupsHaveTasks, RefreshOwnsItsTasks, FitsSlots,
                  Reading, Live
    <3> QED BY <3>1, <3>2 DEF Next, allVars
  <2>2. UpdatesInv'
    <3>1. UpdatesNext \/ UNCHANGED updateVars
      BY DEF Next, allVars
    <3> QED BY <3>1, UpdatesStep
  <2> QED BY <2>1, <2>2
<1>3. LoadInv /\ UpdatesInv => DataIsSound
  BY CleanLoads, SoundUpdates DEF DataIsSound
<1> QED BY <1>1, <1>2, <1>3, PTL DEF Spec

-----------------------------------------------------------------------------
(* The recent series of the homepage                                       *)

(* The entry of the cache, and a page that asks for the series with its    *)
(* copy of the entry.                                                      *)
EntryType == [snap : Int, tried : Int, err : BOOLEAN, manual : Int]
CallerType ==
  [pc : {"idle", "enter", "read", "decide", "cooldown", "wait"}, since : Int, seen : EntryType,
   joined : {"no", "yes", "over"}]

(* The refresh: when it was started and when its load ended.               *)
TaskType == [pc : {"none", "load", "publish", "record", "reread"}, started : Int, at : Int]

(* Times the refresh knows lie behind the clock, and those of its entry    *)
(* behind the attempt that will replace them.                              *)
SeriesTypes ==
  /\ now \in 0..MaxTime
  /\ entry \in EntryType
  /\ entry.snap \in Never..now /\ entry.tried \in Never..now
  /\ failed \in Never..now /\ lastFail \in Never..now
  /\ task \in TaskType
  /\ callers \in [Callers -> CallerType]
  /\ closed \in BOOLEAN /\ lock \in Callers \cup {Nobody}

(* What a refresh has loaded or will report is not older than the entry.   *)
AttemptIsLatest ==
  task.pc \in {"publish", "record"} =>
    task.at \in 0..now /\ entry.snap <= task.at /\ entry.tried <= task.at

(* A failure that nothing succeeded after is one that holds refreshes back *)
FailureIsKept ==
  lastFail # Never /\ ~closed =>
    IF task.pc = "record" THEN task.at = lastFail ELSE lastFail \in FailureTimes(entry)

(* Whoever looks at the cache has the lock; a manual refresh that joins no *)
(* other finds none until it gives the lock back, and starts one only when *)
(* no failure blocks it.                                                   *)
LockIsHeld ==
  \A c \in Callers :
    /\ callers[c].pc \in {"read", "decide", "cooldown"} => lock = c
    /\ callers[c].pc = "cooldown" => ~closed /\ c \in Refreshers
    /\ callers[c].pc \in {"read", "decide", "cooldown"} /\ c \in Refreshers /\ callers[c].joined = "no" =>
         ~Refreshing
    /\ callers[c].pc = "cooldown" /\ callers[c].joined = "no" =>
         \A t \in FailureTimes(entry) : now - t >= RefreshAge

(* An entry without a failure was stored with its snapshot.                *)
Consistent(e) == e.err \/ e.tried = e.snap

(* Nothing is recorded after the last failure.  The copy a page decides on *)
(* is not newer than the entry, and tells a manual refresh that joins no   *)
(* other what the entry tells.                                             *)
CopiesAreOld ==
  /\ Consistent(entry)
  /\ lastFail # Never /\ ~closed => entry.tried <= lastFail
  /\ \A c \in Callers :
       /\ Consistent(callers[c].seen) /\ callers[c].seen.tried <= entry.tried
       /\ callers[c].pc = "decide" /\ c \in Refreshers /\ callers[c].joined = "no" =>
            callers[c].seen.tried = entry.tried /\ callers[c].seen.err = entry.err

(* The inductive invariant of the recent-series cache.                     *)
SeriesInv == SeriesTypes /\ AttemptIsLatest /\ FailureIsKept /\ LockIsHeld /\ CopiesAreOld

(* It holds before the first page asks.                                    *)
LEMMA SeriesInitially == SeriesInit => SeriesInv
<1> SUFFICES ASSUME SeriesInit PROVE SeriesInv
  OBVIOUS
<1>a. /\ now = 0 /\ 0 \in 0..MaxTime /\ -1 \in Never..0
      /\ failed = -1 /\ lastFail = -1 /\ entry.snap = -1 /\ entry.tried = -1
  BY SeriesAssumption DEF SeriesInit, NoEntry, Never
<1>b. entry \in EntryType /\ NoEntry \in EntryType
  BY DEF SeriesInit, NoEntry, Never, EntryType
<1>c. /\ task \in TaskType
      /\ closed \in BOOLEAN /\ lock \in Callers \cup {Nobody}
  <2>1. NoRefresh \in TaskType
    BY DEF NoRefresh, Never, TaskType
  <2> QED BY <2>1 DEF SeriesInit
<1>d. NewCaller \in CallerType
  BY <1>b DEF NewCaller, Never, CallerType
<1>1. SeriesTypes
  BY <1>a, <1>b, <1>c, <1>d DEF SeriesInit, SeriesTypes
<1>2. \A c \in Callers : callers[c].pc = "idle" /\ callers[c].seen = NoEntry
  BY DEF SeriesInit, NewCaller
<1>3. CopiesAreOld
  <2>1. entry = NoEntry /\ NoEntry.tried = -1 /\ NoEntry.snap = -1 /\ NoEntry.tried <= NoEntry.tried
    BY DEF SeriesInit, NoEntry, Never
  <2>2. Consistent(NoEntry) /\ lastFail = Never
    BY <1>a, <2>1 DEF Consistent, Never
  <2> QED BY <1>2, <2>1, <2>2 DEF CopiesAreOld
<1> QED BY <1>1, <1>2, <1>3 DEF SeriesInit, SeriesInv, AttemptIsLatest, FailureIsKept, LockIsHeld,
           NoRefresh

(* A request that has not read has a type, too.                            *)
LEMMA NewCallerTyped == NewCaller \in CallerType /\ NewCaller.seen = NoEntry
  BY DEF NewCaller, NoEntry, Never, CallerType, EntryType

(* A caller that is answered leaves the others as they are.                *)
LEMMA CallerAnswered ==
  ASSUME SeriesInv, NEW c \in Callers, Answer(c)
  PROVE  /\ callers' \in [Callers -> CallerType]
         /\ \A d \in Callers \ {c} : callers'[d] = callers[d]
         /\ callers'[c].pc = "idle" /\ callers'[c].seen = NoEntry
<1>1. NewCaller.pc = "idle"
  BY DEF NewCaller
<1> QED BY <1>1, NewCallerTyped DEF SeriesInv, SeriesTypes, Answer

(* A refresh that ends wakes its callers, who keep their phase and do not  *)
(* become manual refreshes of their own.                                   *)
LEMMA RefreshEnded ==
  ASSUME SeriesInv, EndRefresh
  PROVE  /\ callers' \in [Callers -> CallerType]
         /\ task' \in TaskType /\ task'.pc = "none"
         /\ \A d \in Callers : /\ callers'[d].pc = callers[d].pc
                               /\ callers'[d].seen = callers[d].seen
                               /\ (callers'[d].joined = "no" <=> callers[d].joined = "no")
<1>1. task' \in TaskType /\ task'.pc = "none"
  BY DEF EndRefresh, NoRefresh, Never, TaskType
<1> QED BY <1>1 DEF SeriesInv, SeriesTypes, EndRefresh, CallerType

(* A failure time counts against a refresh as long as nothing later is     *)
(* written; the cooldown of a manual refresh is not one.                   *)
LEMMA SameFailures ==
  ASSUME SeriesInv, UNCHANGED failed, entry'.tried = entry.tried, entry'.err = entry.err
  PROVE  FailureTimes(entry)' = FailureTimes(entry)
  BY DEF FailureTimes

(* A manual cooldown is stored without touching what was loaded.           *)
LEMMA CooldownKeeps ==
  ASSUME SeriesInv, NEW c \in Callers, entry' \in {entry, WithCooldown(c)}
  PROVE  /\ entry' \in EntryType
         /\ entry'.snap = entry.snap /\ entry'.tried = entry.tried /\ entry'.err = entry.err
<1>1. /\ entry \in [snap : Int, tried : Int, err : BOOLEAN, manual : Int]
      /\ callers[c] \in CallerType
  BY DEF SeriesInv, SeriesTypes, EntryType
<1>2. PICK until \in Int : until = callers[c].since + Cooldown
  <2>1. callers[c].since \in Int /\ Cooldown \in Int
    BY <1>1, SeriesAssumption DEF CallerType
  <2> QED BY <2>1
<1>3. entry' = entry \/ entry' = [entry EXCEPT !.manual = until]
  BY <1>2 DEF WithCooldown
<1> QED BY <1>1, <1>2, <1>3 DEF EntryType

(* A caller that moves leaves the others as they are.                      *)
LEMMA CallerMoves ==
  ASSUME SeriesInv, NEW c \in Callers, NEW k \in CallerType, callers' = [callers EXCEPT ![c] = k]
  PROVE  /\ callers' \in [Callers -> CallerType] /\ callers'[c] = k
         /\ \A d \in Callers \ {c} : callers'[d] = callers[d]
  BY DEF SeriesInv, SeriesTypes

(* Copies stay as old as they are when callers decide on them or drop them *)
(* and nothing but the time of a manual refresh changes in the entry.      *)
LEMMA CopiesKept ==
  ASSUME SeriesInv, UNCHANGED <<closed, lastFail>>,
         entry'.snap = entry.snap, entry'.tried = entry.tried, entry'.err = entry.err,
         \A d \in Callers :
           /\ callers'[d].seen \in {callers[d].seen, NoEntry}
           /\ callers'[d].pc = "decide" =>
                /\ callers[d].pc = "decide" /\ callers'[d].seen = callers[d].seen
                /\ (callers'[d].joined = "no" => callers[d].joined = "no")
  PROVE  CopiesAreOld'
<1>1. CopiesAreOld /\ entry.tried \in Never..now /\ now \in Int
  BY SeriesAssumption DEF SeriesInv, SeriesTypes
<1>2. Consistent(NoEntry) /\ NoEntry.tried <= entry.tried
  BY <1>1 DEF Consistent, NoEntry, Never
<1>3. Consistent(entry)' /\ (lastFail # Never /\ ~closed => entry.tried <= lastFail)'
  BY <1>1 DEF CopiesAreOld, Consistent
<1>4. ASSUME NEW c \in Callers
      PROVE  /\ Consistent(callers'[c].seen) /\ callers'[c].seen.tried <= entry'.tried
             /\ callers'[c].pc = "decide" /\ c \in Refreshers /\ callers'[c].joined = "no" =>
                  callers'[c].seen.tried = entry'.tried /\ callers'[c].seen.err = entry'.err
  <2>1. callers'[c].seen = callers[c].seen \/ callers'[c].seen = NoEntry
    BY <1>4
  <2>2. Consistent(callers'[c].seen) /\ callers'[c].seen.tried <= entry'.tried
    BY <1>1, <1>2, <2>1 DEF CopiesAreOld, Consistent
  <2> QED BY <1>1, <1>4, <2>2 DEF CopiesAreOld
<1> QED BY <1>3, <1>4 DEF CopiesAreOld, Consistent

(* ... and they only get older while a refresh writes, beside which no     *)
(* manual refresh of its own has the lock.                                 *)
LEMMA CopiesAge ==
  ASSUME SeriesInv, Refreshing \/ lock = Nobody, Consistent(entry)',
         entry'.tried \in Int, entry.tried <= entry'.tried,
         lastFail' # Never /\ ~closed' => entry'.tried <= lastFail',
         \A d \in Callers : /\ callers'[d].pc = callers[d].pc
                            /\ callers'[d].seen = callers[d].seen
                            /\ (callers'[d].joined = "no" <=> callers[d].joined = "no")
  PROVE  CopiesAreOld'
<1>1. CopiesAreOld /\ LockIsHeld /\ entry.tried \in Int /\ callers \in [Callers -> CallerType]
  BY SeriesAssumption DEF SeriesInv, SeriesTypes, EntryType
<1>2. ASSUME NEW c \in Callers
      PROVE  /\ Consistent(callers'[c].seen) /\ callers'[c].seen.tried <= entry'.tried
             /\ ~(callers'[c].pc = "decide" /\ c \in Refreshers /\ callers'[c].joined = "no")
  <2>1. /\ callers'[c].seen = callers[c].seen /\ callers'[c].pc = callers[c].pc
        /\ callers'[c].joined = "no" <=> callers[c].joined = "no"
    OBVIOUS
  <2>2. callers[c].seen.tried \in Int /\ callers[c].seen.tried <= entry.tried
    BY <1>1 DEF CopiesAreOld, CallerType, EntryType
  <2>3. Consistent(callers'[c].seen) /\ callers'[c].seen.tried <= entry'.tried
    BY <1>1, <2>1, <2>2 DEF CopiesAreOld
  <2>4. ~(callers[c].pc = "decide" /\ c \in Refreshers /\ callers[c].joined = "no")
    BY <1>1, SeriesAssumption DEF LockIsHeld, Callers
  <2> QED BY <2>1, <2>3, <2>4
<1> QED BY <1>2 DEF CopiesAreOld, Consistent

(* Callers come, take the lock and wait without harm.                      *)
LEMMA CallersStep ==
  ASSUME SeriesInv, NEW c \in Callers, Arrive(c) \/ Enter(c) \/ Awaited(c)
  PROVE  SeriesInv'
<1>1. /\ SeriesTypes /\ AttemptIsLatest /\ FailureIsKept /\ LockIsHeld
      /\ UNCHANGED <<now, entry, task, failed, closed, lastFail>>
  BY DEF SeriesInv, Arrive, Enter, Awaited
<1>2. /\ callers' \in [Callers -> CallerType]
      /\ \A d \in Callers \ {c} : callers'[d] = callers[d]
      /\ lock' \in Callers \cup {Nobody}
      /\ callers'[c].pc # "decide" /\ callers'[c].seen \in {callers[c].seen, NoEntry}
  BY <1>1, CallerAnswered DEF SeriesTypes, CallerType, Arrive, Enter, Awaited
<1>8. CopiesAreOld'
  BY <1>1, <1>2, CopiesKept
<1>3. SeriesTypes'
  BY <1>1, <1>2 DEF SeriesTypes
<1>4. AttemptIsLatest'
  BY <1>1 DEF AttemptIsLatest
<1>5. FailureIsKept'
  BY <1>1 DEF FailureIsKept, FailureTimes
<1>6. CASE Enter(c)
  <2>1. lock = Nobody /\ lock' = c /\ callers'[c].pc = "read"
        /\ callers'[c].joined = IF c \in Refreshers /\ Refreshing THEN "yes" ELSE "no"
    BY <1>1, <1>6 DEF Enter, SeriesTypes
  <2>2. \A d \in Callers : callers[d].pc \notin {"read", "decide", "cooldown"}
    BY <1>1, <2>1, SeriesAssumption DEF LockIsHeld, Callers
  <2>3. LockIsHeld'
    BY <1>1, <1>2, <2>1, <2>2 DEF LockIsHeld, Refreshing
  <2> QED BY <1>3, <1>4, <1>5, <1>8, <2>3 DEF SeriesInv
<1>7. CASE Arrive(c) \/ Awaited(c)
  <2>1. /\ lock' = lock
        /\ callers'[c].pc \in {"enter", "idle"}
    BY <1>1, <1>7, CallerAnswered DEF Arrive, Awaited, SeriesTypes, CallerType
  <2>3. LockIsHeld'
    BY <1>1, <1>2, <2>1 DEF LockIsHeld, Refreshing, FailureTimes
  <2> QED BY <1>3, <1>4, <1>5, <1>8, <2>3 DEF SeriesInv
<1> QED BY <1>6, <1>7

(* ... and give the lock back when Redis fails them or they give up.       *)
LEMMA CallersLeave ==
  ASSUME SeriesInv, NEW c \in Callers, CacheFails(c) \/ Leave(c)
  PROVE  SeriesInv' /\ entry'.snap = entry.snap /\ task' = task
<1>1. /\ SeriesTypes /\ AttemptIsLatest /\ FailureIsKept /\ LockIsHeld
      /\ UNCHANGED <<now, task, failed, closed, lastFail>>
      /\ entry' \in {entry, WithCooldown(c)} /\ Answer(c)
      /\ lock' = IF lock = c THEN Nobody ELSE lock
  BY DEF SeriesInv, CacheFails, Leave, LockIsHeld
<1>2. /\ callers' \in [Callers -> CallerType]
      /\ \A d \in Callers \ {c} : callers'[d] = callers[d]
      /\ callers'[c].pc = "idle"
  BY <1>1, CallerAnswered
<1>3. /\ entry' \in EntryType
      /\ entry'.snap = entry.snap /\ entry'.tried = entry.tried /\ entry'.err = entry.err
  BY <1>1, CooldownKeeps
<1>4. FailureTimes(entry)' = FailureTimes(entry)
  BY <1>1, <1>3, SameFailures
<1>5. SeriesTypes'
  BY <1>1, <1>2, <1>3 DEF SeriesTypes
<1>6. AttemptIsLatest' /\ FailureIsKept'
  BY <1>1, <1>3, <1>4 DEF AttemptIsLatest, FailureIsKept
<1>7. LockIsHeld'
  BY <1>1, <1>2, <1>4 DEF LockIsHeld, Refreshing
<1>8. callers'[c].seen = NoEntry
  BY <1>1, CallerAnswered
<1>9. CopiesAreOld'
  BY <1>1, <1>2, <1>3, <1>8, CopiesKept
<1> QED BY <1>1, <1>3, <1>5, <1>6, <1>7, <1>9 DEF SeriesInv

(* A refresh starts with its load.                                         *)
LEMMA RefreshStarts ==
  ASSUME NEW started \in Int, StartRefresh(started)
  PROVE  task' \in TaskType /\ task'.pc = "load"
<1>1. NoRefresh \in TaskType
  BY DEF NoRefresh, TaskType, Never
<1> QED BY <1>1 DEF StartRefresh, TaskType

(* The holder of the lock gets a copy of the entry.                        *)
LEMMA EntryRead ==
  ASSUME SeriesInv, NEW c \in Callers, ReadEntry(c)
  PROVE  SeriesInv' /\ entry' = entry /\ task' = task
<1>1. /\ SeriesTypes /\ AttemptIsLatest /\ FailureIsKept /\ LockIsHeld /\ CopiesAreOld
      /\ UNCHANGED <<now, entry, lock, task, failed, closed, lastFail>>
      /\ callers[c].pc = "read" /\ callers[c] \in CallerType
      /\ entry \in EntryType /\ entry.tried \in Int
  BY DEF SeriesInv, ReadEntry, SeriesTypes, EntryType
<1> DEFINE k == [callers[c] EXCEPT !.pc = "decide", !.seen = entry]
<1>2. /\ k \in CallerType /\ k.pc = "decide" /\ k.seen = entry /\ k.joined = callers[c].joined
      /\ callers' = [callers EXCEPT ![c] = k]
  BY <1>1 DEF ReadEntry, CallerType
<1> HIDE DEF k
<1>3. /\ callers' \in [Callers -> CallerType] /\ callers'[c] = k
      /\ \A d \in Callers \ {c} : callers'[d] = callers[d]
  BY <1>2, CallerMoves
<1>4. SeriesTypes' /\ AttemptIsLatest' /\ FailureIsKept'
  BY <1>1, <1>3 DEF SeriesTypes, AttemptIsLatest, FailureIsKept, FailureTimes
<1>5. LockIsHeld'
  BY <1>1, <1>2, <1>3 DEF LockIsHeld, Refreshing, FailureTimes
<1>6. CopiesAreOld'
  BY <1>1, <1>2, <1>3 DEF CopiesAreOld, Consistent
<1> QED BY <1>1, <1>4, <1>5, <1>6 DEF SeriesInv

(* On its copy a page starts a refresh only when none is under way, and    *)
(* while a failure is young only when the copy is older than the failure   *)
(* and the failure is recorded.                                            *)
LEMMA PageDecides ==
  ASSUME SeriesInv, NEW c \in Callers, DecideOnRead(c)
  PROVE  /\ SeriesInv' /\ entry' = entry
         /\ task'.pc = "load" /\ task.pc # "load" =>
              /\ ~Refreshing
              /\ lastFail # Never => now - lastFail >= RefreshAge \/ ReadTooEarly
<1> DEFINE e == callers[c].seen
<1>1. /\ SeriesTypes /\ AttemptIsLatest /\ FailureIsKept /\ LockIsHeld /\ CopiesAreOld
      /\ UNCHANGED <<now, entry, failed, closed, lastFail>> /\ lock' = Nobody
      /\ callers[c].pc = "decide" /\ lock = c /\ c \in Readers
  BY DEF SeriesInv, DecideOnRead, LockIsHeld
<1>2. \A d \in Callers \ {c} : callers[d].pc \notin {"read", "decide", "cooldown"}
  BY <1>1 DEF LockIsHeld
<1>3. /\ callers' \in [Callers -> CallerType]
      /\ \A d \in Callers \ {c} : callers'[d] = callers[d]
      /\ callers'[c].pc \in {"idle", "wait"} /\ callers'[c].seen = NoEntry
  <2>1. CASE Answer(c)
    BY <2>1, CallerAnswered
  <2>2. CASE callers' = [callers EXCEPT ![c] = [NewCaller EXCEPT !.pc = "wait", !.joined = "yes"]]
    <3> DEFINE k == [NewCaller EXCEPT !.pc = "wait", !.joined = "yes"]
    <3>1. k \in CallerType /\ k.pc = "wait" /\ k.seen = NoEntry
      BY NewCallerTyped DEF CallerType
    <3>2. callers' = [callers EXCEPT ![c] = k]
      BY <2>2
    <3> HIDE DEF k
    <3> QED BY <3>1, <3>2, CallerMoves
  <2> QED BY <2>1, <2>2 DEF DecideOnRead
<1>4. /\ task' \in TaskType
      /\ task'.pc = "load" \/ task' = task
      /\ task'.pc = "load" /\ task.pc # "load" =>
           ~Refreshing /\ ~IsFresh(e) /\ ~FailureCooldownActive(e) /\ ~closed
      /\ task' # task => ~Refreshing
  <2>1. CASE UNCHANGED task
    BY <1>1, <2>1 DEF SeriesTypes
  <2>2. CASE task' # task
    <3>1. StartRefresh(now) /\ ~Refreshing /\ ~MustNotStart(e)
      BY <2>2 DEF DecideOnRead
    <3>2. now \in Int
      BY <1>1, SeriesAssumption DEF SeriesTypes
    <3> QED BY <3>1, <3>2, RefreshStarts DEF MustNotStart
  <2> QED BY <2>1, <2>2
<1>5. SeriesTypes'
  BY <1>1, <1>3, <1>4 DEF SeriesTypes
<1>6. AttemptIsLatest' /\ FailureIsKept'
  BY <1>1, <1>4 DEF AttemptIsLatest, FailureIsKept, FailureTimes, Refreshing
<1>7. LockIsHeld'
  BY <1>2, <1>3 DEF LockIsHeld
<1>8. CopiesAreOld'
  BY <1>1, <1>3, CopiesKept
<1>9. ASSUME task'.pc = "load", task.pc # "load", lastFail # Never
      PROVE  now - lastFail >= RefreshAge \/ ReadTooEarly
  <2>1. /\ now \in Int /\ lastFail \in Int /\ RefreshAge \in Int
        /\ failed \in Int /\ e.tried \in Int /\ e.snap \in Int /\ entry.tried \in Int
        /\ e.err \in BOOLEAN
    BY <1>1, SeriesAssumption DEF SeriesTypes, Never, CallerType, EntryType
  <2>2. /\ e.tried <= lastFail /\ (e.err \/ e.tried = e.snap)
        /\ ~IsFresh(e) /\ ~FailureCooldownActive(e)
    BY <1>1, <1>4, <1>9, <2>1 DEF CopiesAreOld, Consistent
  <2> HIDE DEF e
  <2>3. CASE failed = lastFail
    <3>1. lastFail \in FailureTimes(e)
      BY <1>9, <2>1, <2>2, <2>3 DEF FailureTimes
    <3>2. ~(now - lastFail < RefreshAge)
      BY <2>2, <3>1 DEF FailureCooldownActive
    <3> QED BY ONLY <2>1, <3>2
  <2>4. CASE failed # lastFail /\ e.tried < lastFail
    BY <1>1, <2>4 DEF ReadTooEarly, e
  <2>5. CASE e.tried = lastFail /\ e.err
    <3>1. lastFail \in FailureTimes(e)
      BY <2>5 DEF FailureTimes
    <3>2. ~(now - lastFail < RefreshAge)
      BY <2>2, <3>1 DEF FailureCooldownActive
    <3> QED BY ONLY <2>1, <3>2
  <2>6. CASE e.tried = lastFail /\ ~e.err
    <3>1. e.snap = lastFail
      BY <2>2, <2>6
    <3>2. ~(now - lastFail < RefreshAge)
      BY <1>9, <2>2, <3>1 DEF IsFresh
    <3> QED BY ONLY <2>1, <3>2
  <2> QED BY <2>1, <2>2, <2>3, <2>4, <2>5, <2>6
<1> QED BY <1>1, <1>4, <1>5, <1>6, <1>7, <1>8, <1>9 DEF SeriesInv

(* A manual refresh decides on its copy without starting anything yet; the *)
(* copy tells what the entry tells when it joins no other.                 *)
LEMMA RefreshDecides ==
  ASSUME SeriesInv, NEW c \in Callers, DecideOnRefresh(c)
  PROVE  SeriesInv' /\ entry' = entry /\ task' = task
<1>1. /\ SeriesTypes /\ AttemptIsLatest /\ FailureIsKept /\ LockIsHeld /\ CopiesAreOld
      /\ UNCHANGED <<now, entry, task, failed, closed, lastFail>>
      /\ callers[c].pc = "decide" /\ lock = c /\ c \in Refreshers
  BY DEF SeriesInv, DecideOnRefresh, LockIsHeld
<1>2. \A d \in Callers \ {c} : callers[d].pc \notin {"read", "decide", "cooldown"}
  BY <1>1 DEF LockIsHeld
<1>a. now \in Int /\ task.started \in Int /\ RefreshAge \in Int
      /\ failed \in Int /\ entry.tried \in Int
  BY <1>1, SeriesAssumption DEF SeriesTypes, Never, TaskType
<1>3. CASE lock' = Nobody /\ Answer(c)
  <2>1. /\ callers' \in [Callers -> CallerType]
        /\ \A d \in Callers \ {c} : callers'[d] = callers[d]
        /\ callers'[c].pc = "idle" /\ callers'[c].seen = NoEntry
    BY <1>3, CallerAnswered
  <2>2. SeriesTypes' /\ AttemptIsLatest' /\ FailureIsKept'
    BY <1>1, <1>3, <2>1 DEF SeriesTypes, AttemptIsLatest, FailureIsKept, FailureTimes
  <2>3. LockIsHeld'
    BY <1>2, <2>1 DEF LockIsHeld
  <2>4. CopiesAreOld'
    BY <1>1, <2>1, CopiesKept
  <2> QED BY <1>1, <2>2, <2>3, <2>4 DEF SeriesInv
<1>4. CASE ~(closed \/ (callers[c].joined = "no" /\ ManualRefreshBlocked(callers[c].seen)))
  <2> DEFINE began == IF Refreshing THEN task.started ELSE now
  <2>1. /\ callers' = [callers EXCEPT ![c].pc = "cooldown", ![c].since = began]
        /\ lock' = lock
    BY <1>4 DEF DecideOnRefresh
  <2>2. began \in Int
    BY <1>a
  <2> HIDE DEF began
  <2>3. /\ callers' \in [Callers -> CallerType]
        /\ \A d \in Callers \ {c} : callers'[d] = callers[d]
        /\ callers'[c].pc = "cooldown" /\ callers'[c].joined = callers[c].joined
        /\ callers'[c].seen = callers[c].seen
    <3> DEFINE k == [callers[c] EXCEPT !.pc = "cooldown", !.since = began]
    <3>1. callers[c] \in CallerType
      BY <1>1 DEF SeriesTypes
    <3>2. /\ k \in CallerType /\ k.pc = "cooldown" /\ k.joined = callers[c].joined
          /\ k.seen = callers[c].seen
          /\ callers' = [callers EXCEPT ![c] = k]
      BY <1>a, <2>1, <2>2, <3>1 DEF CallerType
    <3> HIDE DEF k
    <3> QED BY <3>2, CallerMoves
  <2>4. SeriesTypes' /\ AttemptIsLatest' /\ FailureIsKept'
    BY <1>1, <2>1, <2>3 DEF SeriesTypes, AttemptIsLatest, FailureIsKept, FailureTimes
  <2>5. ASSUME callers[c].joined = "no"
        PROVE  ~Refreshing /\ \A t \in FailureTimes(entry) : now - t >= RefreshAge
    <3>1. ~Refreshing
      BY <1>1, <2>5 DEF LockIsHeld
    <3>2. ASSUME NEW t \in FailureTimes(entry) PROVE now - t >= RefreshAge
      <4>1. t \in Int
        BY <1>a DEF FailureTimes
      <4>3. t \in FailureTimes(callers[c].seen)
        BY <1>1, <2>5, <3>2 DEF CopiesAreOld, FailureTimes
      <4>2. ~(t + RefreshAge > now)
        BY <1>4, <2>5, <4>3 DEF ManualRefreshBlocked
      <4> QED BY ONLY <4>1, <4>2, <1>a
    <3> QED BY <3>1, <3>2
  <2>6. LockIsHeld'
    BY <1>1, <1>2, <1>4, <2>1, <2>3, <2>5 DEF LockIsHeld, Refreshing, FailureTimes
  <2>7. CopiesAreOld'
    BY <1>1, <2>3, CopiesKept
  <2> QED BY <1>1, <2>4, <2>6, <2>7 DEF SeriesInv
<1> QED BY <1>3, <1>4 DEF DecideOnRefresh

(* A manual refresh starts only under the same conditions, which have held *)
(* since it read the entry, as it kept the lock.                           *)
LEMMA CooldownStored ==
  ASSUME SeriesInv, NEW c \in Callers, StoreCooldown(c)
  PROVE  /\ SeriesInv' /\ entry'.snap = entry.snap
         /\ task'.pc = "load" /\ task.pc # "load" =>
              ~Refreshing /\ (lastFail # Never => now - lastFail >= RefreshAge)
<1>1. /\ SeriesTypes /\ AttemptIsLatest /\ FailureIsKept /\ LockIsHeld
      /\ UNCHANGED <<now, failed, closed, lastFail>> /\ lock' = Nobody
      /\ callers[c].pc = "cooldown" /\ lock = c /\ entry' = WithCooldown(c)
      /\ ~closed /\ c \in Refreshers
      /\ callers[c].since \in Int /\ callers[c].joined \in {"no", "yes", "over"}
  BY DEF SeriesInv, StoreCooldown, LockIsHeld, SeriesTypes, CallerType
<1>2. \A d \in Callers \ {c} : callers[d].pc \notin {"read", "decide", "cooldown"}
  BY <1>1 DEF LockIsHeld
<1>3. /\ entry' \in EntryType
      /\ entry'.snap = entry.snap /\ entry'.tried = entry.tried /\ entry'.err = entry.err
  BY <1>1, CooldownKeeps
<1>4. FailureTimes(entry)' = FailureTimes(entry)
  BY <1>1, <1>3, SameFailures
<1> DEFINE join == IF callers[c].joined = "no" THEN "yes" ELSE callers[c].joined
<1>5. join \in {"no", "yes", "over"} /\
      callers' = [callers EXCEPT ![c] = [NewCaller EXCEPT !.pc = "wait", !.joined = join]]
  BY <1>1 DEF StoreCooldown
<1> HIDE DEF join
<1>6. /\ callers' \in [Callers -> CallerType]
      /\ \A d \in Callers \ {c} : callers'[d] = callers[d]
      /\ callers'[c].pc = "wait" /\ callers'[c].seen = NoEntry
  <2> DEFINE k == [NewCaller EXCEPT !.pc = "wait", !.joined = join]
  <2>1. k \in CallerType /\ k.pc = "wait" /\ k.seen = NoEntry
    BY <1>5, NewCallerTyped DEF CallerType
  <2> HIDE DEF k
  <2>2. callers' = [callers EXCEPT ![c] = k]
    BY <1>5 DEF k
  <2> QED BY <2>1, <2>2, CallerMoves
<1>9. CopiesAreOld'
  BY <1>1, <1>3, <1>6, CopiesKept
<1>7. CASE callers[c].joined = "no"
  <2>1. task' \in TaskType /\ task'.pc = "load"
    BY <1>1, <1>7, RefreshStarts DEF StoreCooldown
  <2>2. ~Refreshing /\ \A t \in FailureTimes(entry) : now - t >= RefreshAge
    BY <1>1, <1>7 DEF LockIsHeld
  <2>3. SeriesTypes' /\ AttemptIsLatest'
    BY <1>1, <1>3, <1>6, <2>1 DEF SeriesTypes, AttemptIsLatest
  <2>4. lastFail # Never => lastFail \in FailureTimes(entry)
    BY <1>1, <2>2 DEF FailureIsKept, Refreshing
  <2>5. FailureIsKept'
    BY <1>1, <1>4, <2>1, <2>4 DEF FailureIsKept
  <2>6. LockIsHeld'
    BY <1>2, <1>6 DEF LockIsHeld
  <2> QED BY <1>3, <1>9, <2>2, <2>3, <2>4, <2>5, <2>6 DEF SeriesInv
<1>8. CASE callers[c].joined # "no"
  <2>1. task' = task
    BY <1>8 DEF StoreCooldown
  <2>3. SeriesTypes' /\ AttemptIsLatest' /\ FailureIsKept'
    BY <1>1, <1>3, <1>4, <1>6, <2>1 DEF SeriesTypes, AttemptIsLatest, FailureIsKept
  <2>6. LockIsHeld'
    BY <1>2, <1>6 DEF LockIsHeld
  <2> QED BY <1>3, <1>9, <2>1, <2>3, <2>6 DEF SeriesInv
<1> QED BY <1>7, <1>8

(* A write of the refresh: what it had loaded or why it failed             *)
LEMMA EntryWritten ==
  ASSUME SeriesInv, task.pc \in {"publish", "record"}, entry' \in {entry, Published, Recorded}
  PROVE  /\ entry' \in EntryType
         /\ entry'.snap \in Never..now /\ entry'.tried \in Never..now /\ entry'.snap >= entry.snap
         /\ entry' = Published => entry'.tried = task.at
         /\ entry' = Recorded => entry'.tried = task.at /\ entry'.err = TRUE
         /\ Consistent(entry)'
<1>1. /\ entry \in [snap : Int, tried : Int, err : BOOLEAN, manual : Int]
      /\ Consistent(entry)
      /\ entry.snap \in Never..now /\ entry.tried \in Never..now
      /\ task.at \in 0..now /\ entry.snap <= task.at /\ now \in Int
  BY SeriesAssumption DEF SeriesInv, SeriesTypes, AttemptIsLatest, EntryType, CopiesAreOld
<1>2. PICK a \in Int : a = task.at /\ a \in 0..now /\ a \in Never..now
  BY <1>1 DEF Never
<1>3. entry' = entry \/ entry' = [entry EXCEPT !.snap = a, !.tried = a, !.err = FALSE]
      \/ entry' = [entry EXCEPT !.tried = a, !.err = TRUE]
  BY <1>2 DEF Published, Recorded
<1>4. entry' = Recorded => entry'.tried = a /\ entry'.err = TRUE
  BY <1>1, <1>2 DEF Recorded
<1>5. entry' = Published => entry'.tried = a
  BY <1>1, <1>2 DEF Published
<1>6. CASE entry' = entry
  BY <1>1, <1>2, <1>4, <1>5, <1>6 DEF EntryType, Consistent
<1>7. CASE entry' = [entry EXCEPT !.snap = a, !.tried = a, !.err = FALSE]
  <2>1. /\ entry' \in EntryType
        /\ entry'.snap = a /\ entry'.tried = a
    BY <1>1, <1>2, <1>7 DEF EntryType
  <2> QED BY <1>1, <1>2, <1>4, <1>5, <2>1 DEF Consistent
<1>8. CASE entry' = [entry EXCEPT !.tried = a, !.err = TRUE]
  <2>1. /\ entry' \in EntryType
        /\ entry'.snap = entry.snap /\ entry'.tried = a /\ entry'.err = TRUE
    BY <1>1, <1>2, <1>8 DEF EntryType
  <2> QED BY <1>1, <1>2, <1>4, <1>5, <2>1 DEF Consistent
<1> QED BY <1>3, <1>6, <1>7, <1>8

(* The lock's rules do not depend on what the refresh does once it runs    *)
LEMMA LockOutlasts ==
  ASSUME SeriesInv, Refreshing, UNCHANGED <<now, lock>>,
         \A d \in Callers : /\ callers'[d].pc = callers[d].pc
                            /\ (callers'[d].joined = "no" <=> callers[d].joined = "no"),
         closed' = closed \/ lock = Nobody
  PROVE  LockIsHeld'
<1>1. LockIsHeld /\ \A d \in Callers : callers[d].pc \in {"read", "decide", "cooldown"} => lock # Nobody
  BY SeriesAssumption DEF SeriesInv, LockIsHeld, Callers
<1>2. ASSUME NEW c \in Callers
      PROVE  /\ callers'[c].pc \in {"read", "decide", "cooldown"} => lock' = c
             /\ callers'[c].pc = "cooldown" => ~closed' /\ c \in Refreshers
             /\ ~(/\ callers'[c].pc \in {"read", "decide", "cooldown"} /\ c \in Refreshers
                   /\ callers'[c].joined = "no")
             /\ ~(callers'[c].pc = "cooldown" /\ callers'[c].joined = "no")
  <2>1. /\ callers'[c].pc = callers[c].pc
        /\ callers'[c].joined = "no" <=> callers[c].joined = "no"
    OBVIOUS
  <2>2. /\ callers[c].pc \in {"read", "decide", "cooldown"} => lock = c /\ lock # Nobody
        /\ callers[c].pc = "cooldown" => ~closed /\ c \in Refreshers
        /\ callers[c].pc \in {"read", "decide", "cooldown"} /\ c \in Refreshers => callers[c].joined # "no"
    BY <1>1 DEF LockIsHeld
  <2>3. callers[c].pc = "cooldown" => callers[c].pc \in {"read", "decide", "cooldown"}
    OBVIOUS
  <2>4. callers[c].pc = "cooldown" => ~closed'
    BY <2>2, <2>3, Zenon
  <2> QED BY <2>1, <2>2, <2>3, <2>4
<1> QED BY <1>2 DEF LockIsHeld

(* The load ends at the present, later than what the entry tells.          *)
LEMMA CandidatesLoaded ==
  ASSUME SeriesInv, NEW ok \in BOOLEAN, Load(ok)
  PROVE  SeriesInv' /\ entry' = entry
<1>1. /\ SeriesTypes /\ FailureIsKept /\ task.pc = "load" /\ Refreshing
      /\ UNCHANGED <<now, entry, lock, failed, closed, callers>>
      /\ lastFail' = IF ok THEN lastFail ELSE now
      /\ now \in Int
  BY SeriesAssumption DEF SeriesInv, SeriesTypes, Load, Refreshing
<1>2. /\ task' \in TaskType /\ task'.at = now
      /\ task'.pc = IF ok THEN "publish" ELSE "record"
  BY <1>1 DEF Load, SeriesTypes, TaskType
<1>3. now \in 0..now /\ now \in Never..now /\ entry.snap <= now /\ entry.tried <= now
  BY <1>1 DEF SeriesTypes, Never
<1>4. SeriesTypes' /\ AttemptIsLatest'
  BY <1>1, <1>2, <1>3 DEF SeriesTypes, AttemptIsLatest
<1>5. FailureIsKept'
  BY <1>1, <1>2 DEF FailureIsKept, FailureTimes
<1>6. LockIsHeld'
  BY <1>1, LockOutlasts
<1>7. CopiesAreOld'
  <2>1. Consistent(entry)' /\ entry.tried \in Int /\ entry.tried <= entry'.tried
        /\ (lastFail' # Never /\ ~closed' => entry'.tried <= lastFail')
    BY <1>1, <1>3 DEF SeriesInv, SeriesTypes, CopiesAreOld, Consistent, Never
  <2> QED BY <1>1, <2>1, CopiesAge
<1> QED BY <1>1, <1>4, <1>5, <1>6, <1>7 DEF SeriesInv

(* A refresh that crashed or has looked again is over.                     *)
LEMMA RefreshGone ==
  ASSUME SeriesInv, LoadCrashes \/ Reread
  PROVE  SeriesInv' /\ entry' = entry /\ task'.pc = "none"
<1>1. /\ SeriesTypes /\ FailureIsKept /\ task.pc \in {"load", "reread"} /\ Refreshing
      /\ UNCHANGED <<now, entry, lock, failed, closed, lastFail>> /\ EndRefresh
  BY DEF SeriesInv, LoadCrashes, Reread, Refreshing
<1>2. /\ callers' \in [Callers -> CallerType] /\ task' \in TaskType /\ task'.pc = "none"
      /\ \A d \in Callers : /\ callers'[d].pc = callers[d].pc
                            /\ callers'[d].seen = callers[d].seen
                            /\ (callers'[d].joined = "no" <=> callers[d].joined = "no")
  BY <1>1, RefreshEnded
<1>4. SeriesTypes' /\ AttemptIsLatest'
  BY <1>1, <1>2 DEF SeriesTypes, AttemptIsLatest
<1>5. FailureIsKept'
  BY <1>1, <1>2 DEF FailureIsKept, FailureTimes
<1>6. LockIsHeld'
  BY <1>1, <1>2, LockOutlasts
<1>7. CopiesAreOld'
  BY <1>1, <1>2, CopiesKept
<1> QED BY <1>1, <1>2, <1>4, <1>5, <1>6, <1>7 DEF SeriesInv

(* What a refresh writes, or believes to have written, is not older than   *)
(* what the entry had; a failure remains known.                            *)
LEMMA EntryStored ==
  ASSUME SeriesInv, NEW applied \in BOOLEAN, NEW acked \in BOOLEAN,
         Publish(applied, acked) \/ RecordFailure(applied, acked)
  PROVE  SeriesInv' /\ entry'.snap >= entry.snap /\ task'.pc # "load"
<1>1. /\ SeriesTypes /\ AttemptIsLatest /\ FailureIsKept /\ LockIsHeld
      /\ task.pc \in {"publish", "record"} /\ Refreshing
      /\ UNCHANGED <<now, lock, closed>> /\ (acked => applied)
      /\ entry' \in {entry, Published, Recorded} /\ (applied => entry' \in {Published, Recorded})
      /\ task.at \in 0..now /\ entry.tried <= task.at /\ now \in Int
  BY SeriesAssumption DEF SeriesInv, SeriesTypes, AttemptIsLatest, Publish, RecordFailure,
     Refreshing
<1>2. /\ callers' \in [Callers -> CallerType] /\ task' \in TaskType
      /\ task'.pc \in {"none", "reread"}
      /\ \A d \in Callers : /\ callers'[d].pc = callers[d].pc
                            /\ callers'[d].seen = callers[d].seen
                            /\ (callers'[d].joined = "no" <=> callers[d].joined = "no")
  <2>1. CASE EndRefresh
    BY <2>1, RefreshEnded
  <2>2. CASE task' = [task EXCEPT !.pc = "reread"] /\ UNCHANGED callers
    BY <1>1, <2>2 DEF SeriesTypes, TaskType
  <2> QED BY <2>1, <2>2 DEF Publish, RecordFailure
<1>3. LockIsHeld'
  BY <1>1, <1>2, LockOutlasts
<1>4. PICK a \in Int : a = task.at /\ a \in 0..now /\ a \in Never..now /\ entry.tried <= a
  BY <1>1 DEF Never
<1>5. CASE Publish(applied, acked)
  <2>1. /\ task.pc = "publish" /\ entry' = IF applied THEN Published ELSE entry
        /\ failed' = IF acked THEN Never ELSE a
        /\ lastFail' = IF applied THEN Never ELSE a
    BY <1>4, <1>5 DEF Publish
  <2>2. /\ entry' \in EntryType
        /\ entry'.snap \in Never..now /\ entry'.tried \in Never..now /\ entry'.snap >= entry.snap
        /\ Consistent(entry)' /\ entry'.tried \in {entry.tried, a}
    BY <1>1, <1>4, <2>1, EntryWritten
  <2>3. Never \in Never..now
    BY <1>1, <1>4 DEF Never
  <2>4. SeriesTypes' /\ AttemptIsLatest'
    BY <1>1, <1>2, <1>4, <2>1, <2>2, <2>3 DEF SeriesTypes, AttemptIsLatest
  <2>5. FailureIsKept'
    <3>1. CASE applied
      BY <2>1, <3>1 DEF FailureIsKept
    <3>2. CASE ~applied
      BY <1>1, <1>2, <1>4, <2>1, <3>2 DEF FailureIsKept, FailureTimes, Never
    <3> QED BY <3>1, <3>2
  <2>6. CopiesAreOld'
    BY <1>1, <1>2, <1>4, <2>1, <2>2, CopiesAge DEF SeriesTypes, Never
  <2> QED BY <1>2, <1>3, <2>2, <2>4, <2>5, <2>6 DEF SeriesInv
<1>6. CASE RecordFailure(applied, acked)
  <2>1. /\ task.pc = "record" /\ entry' = IF applied THEN Recorded ELSE entry
        /\ failed' = IF acked THEN failed ELSE a
        /\ lastFail' = lastFail
    BY <1>4, <1>6 DEF RecordFailure
  <2>2. /\ entry' \in EntryType
        /\ entry'.snap \in Never..now /\ entry'.tried \in Never..now /\ entry'.snap >= entry.snap
        /\ Consistent(entry)' /\ entry'.tried \in {entry.tried, a}
    BY <1>1, <1>4, <2>1, EntryWritten
  <2>4. SeriesTypes' /\ AttemptIsLatest'
    BY <1>1, <1>2, <1>4, <2>1, <2>2 DEF SeriesTypes, AttemptIsLatest
  <2>5. FailureIsKept'
    <3> SUFFICES ASSUME lastFail # Never, ~closed PROVE lastFail \in FailureTimes(entry)'
      BY <1>1, <1>2, <2>1 DEF FailureIsKept
    <3>1. lastFail = a
      BY <1>1, <1>4, <2>1 DEF FailureIsKept
    <3>2. CASE applied
      <4>1. entry'.tried = a /\ entry'.err = TRUE
        BY <1>1, <1>4, <2>1, <3>2 DEF Recorded, SeriesTypes
      <4> QED BY <3>1, <4>1 DEF FailureTimes
    <3>3. CASE ~applied
      BY <1>1, <1>4, <2>1, <3>1, <3>3 DEF FailureTimes, Never
    <3> QED BY <3>2, <3>3
  <2>6. CopiesAreOld'
    <3>1. lastFail' # Never /\ ~closed' => lastFail' = a
      BY <1>1, <1>4, <2>1 DEF FailureIsKept
    <3> QED BY <1>1, <1>2, <1>4, <2>1, <2>2, <3>1, CopiesAge DEF SeriesTypes, Never
  <2> QED BY <1>2, <1>3, <2>2, <2>4, <2>5, <2>6 DEF SeriesInv
<1> QED BY <1>5, <1>6

(* The service closes and takes the refresh with it.                       *)
LEMMA SeriesClosed ==
  ASSUME SeriesInv, NEW applied \in BOOLEAN, AClose(applied)
  PROVE  SeriesInv' /\ entry'.snap >= entry.snap /\ task'.pc = "none"
<1>1. /\ SeriesTypes /\ AttemptIsLatest /\ LockIsHeld /\ lock = Nobody /\ closed' = TRUE
      /\ UNCHANGED <<now, lock, failed, lastFail>> /\ EndRefresh
      /\ entry \in EntryType
      /\ entry.snap \in Int
  BY DEF SeriesInv, SeriesTypes, AClose
<1>2. /\ callers' \in [Callers -> CallerType] /\ task' \in TaskType /\ task'.pc = "none"
      /\ \A d \in Callers : /\ callers'[d].pc = callers[d].pc
                            /\ callers'[d].seen = callers[d].seen
                            /\ (callers'[d].joined = "no" <=> callers[d].joined = "no")
  BY <1>1, RefreshEnded
<1>3. /\ entry' \in EntryType
      /\ entry'.snap \in Never..now /\ entry'.tried \in Never..now /\ entry'.snap >= entry.snap
      /\ Consistent(entry)' /\ entry.tried <= entry'.tried /\ entry'.tried \in Int
  <2>1. CASE entry' = entry
    <3>1. entry.tried \in Int /\ entry.tried <= entry.tried
      BY <1>1, SeriesAssumption DEF SeriesTypes, Never
    <3>2. Consistent(entry)'
      BY <2>1 DEF SeriesInv, CopiesAreOld, Consistent
    <3> QED BY <1>1, <2>1, <3>1, <3>2 DEF SeriesTypes
  <2>2. CASE task.pc \in {"publish", "record"} /\ entry' \in {Published, Recorded}
    <3>1. /\ entry' \in EntryType
          /\ entry'.snap \in Never..now /\ entry'.tried \in Never..now
          /\ entry'.snap >= entry.snap /\ Consistent(entry)'
          /\ entry'.tried = task.at
      BY <2>2, EntryWritten
    <3>2. entry.tried <= task.at /\ task.at \in Int
      BY <1>1, <2>2, SeriesAssumption DEF AttemptIsLatest, SeriesTypes
    <3> QED BY <3>1, <3>2
  <2>3. CASE applied /\ task.pc = "publish"
    BY <2>2, <2>3 DEF AClose
  <2>4. CASE applied /\ task.pc = "record"
    BY <2>2, <2>4 DEF AClose
  <2>5. CASE ~(applied /\ task.pc = "publish") /\ ~(applied /\ task.pc = "record")
    BY <2>1, <2>5 DEF AClose
  <2> QED BY <2>3, <2>4, <2>5
<1>4. SeriesTypes' /\ AttemptIsLatest' /\ FailureIsKept'
  BY <1>1, <1>2, <1>3 DEF SeriesTypes, AttemptIsLatest, FailureIsKept
<1>5. LockIsHeld'
  <2>1. \A d \in Callers : callers[d].pc \notin {"read", "decide", "cooldown"}
    BY <1>1, SeriesAssumption DEF LockIsHeld, Callers
  <2> QED BY <1>2, <2>1 DEF LockIsHeld
<1>6. CopiesAreOld'
  BY <1>1, <1>2, <1>3, CopiesAge
<1> QED BY <1>2, <1>3, <1>4, <1>5, <1>6 DEF SeriesInv

(* The clock only moves away from what the entry tells.                    *)
LEMMA TimePasses ==
  ASSUME SeriesInv, Tick
  PROVE  SeriesInv' /\ entry' = entry /\ task' = task
<1>1. /\ SeriesTypes /\ AttemptIsLatest /\ FailureIsKept /\ LockIsHeld
      /\ UNCHANGED <<entry, lock, task, failed, closed, callers, lastFail>>
      /\ now' = now + 1 /\ now < MaxTime /\ now \in 0..MaxTime
  BY DEF SeriesInv, Tick, SeriesTypes
<1>2. PICK m \in Nat, n \in Nat : m = now /\ n = now' /\ n = m + 1 /\ n \in 0..MaxTime
  BY <1>1, SeriesAssumption
<1>3. \A x \in Never..m : x \in Never..n
  BY <1>2 DEF Never
<1>4. \A x \in 0..m : x \in 0..n
  BY <1>2
<1>5. SeriesTypes'
  BY <1>1, <1>2, <1>3 DEF SeriesTypes
<1>6. AttemptIsLatest' /\ FailureIsKept'
  BY <1>1, <1>2, <1>4 DEF AttemptIsLatest, FailureIsKept, FailureTimes
<1>7. LockIsHeld'
  <2>1. FailureTimes(entry)' = FailureTimes(entry)
    BY <1>1, SameFailures
  <2>2. \A x \in FailureTimes(entry) : x \in Int
    BY <1>1 DEF FailureTimes, SeriesTypes, Never
  <2>3. RefreshAge \in Int
    BY SeriesAssumption
  <2>4. \A x \in FailureTimes(entry) : now - x >= RefreshAge => now' - x >= RefreshAge
    BY <1>2, <2>2, <2>3
  <2> QED BY <1>1, <2>1, <2>4 DEF LockIsHeld, Refreshing
<1>8. CopiesAreOld'
  BY <1>1, CopiesKept
<1> QED BY <1>1, <1>5, <1>6, <1>7, <1>8 DEF SeriesInv

(* No step of the cache breaks the invariant, takes a snapshot back, or    *)
(* starts a refresh while one runs or a failure is fresh.                  *)
LEMMA SeriesStep ==
  ASSUME SeriesInv, SeriesNext \/ UNCHANGED seriesVars
  PROVE  /\ SeriesInv' /\ entry'.snap >= entry.snap
         /\ task.pc # "load" /\ task'.pc = "load" =>
              ~Refreshing /\ (lastFail # Never => now - lastFail >= RefreshAge \/ ReadTooEarly)
<1>1. entry.snap \in Int
  BY DEF SeriesInv, SeriesTypes
<1>2. ASSUME NEW c \in Callers, Arrive(c) \/ Serve(c) \/ Leave(c)
      PROVE  /\ SeriesInv' /\ entry'.snap >= entry.snap
             /\ task.pc # "load" /\ task'.pc = "load" =>
                  ~Refreshing /\ (lastFail # Never => now - lastFail >= RefreshAge \/ ReadTooEarly)
  <2>1. CASE Arrive(c) \/ Enter(c) \/ Awaited(c)
    BY <1>1, <2>1, CallersStep DEF Arrive, Enter, Awaited
  <2>2. CASE CacheFails(c) \/ Leave(c)
    BY <1>1, <2>2, CallersLeave
  <2>6. CASE ReadEntry(c)
    BY <1>1, <2>6, EntryRead
  <2>3. CASE DecideOnRead(c)
    BY <1>1, <2>3, PageDecides
  <2>4. CASE DecideOnRefresh(c)
    BY <1>1, <2>4, RefreshDecides
  <2>5. CASE StoreCooldown(c)
    BY <1>1, <2>5, CooldownStored
  <2> QED BY <1>2, <2>1, <2>2, <2>3, <2>4, <2>5, <2>6 DEF Serve
<1>3. CASE RefreshStep
  <2>1. CASE Reread \/ LoadCrashes
    BY <1>1, <2>1, RefreshGone
  <2>2. ASSUME NEW ok \in BOOLEAN, Load(ok)
        PROVE  SeriesInv' /\ entry'.snap >= entry.snap /\ task.pc = "load"
    <3>1. SeriesInv' /\ entry' = entry
      BY <2>2, CandidatesLoaded
    <3>2. task.pc = "load"
      BY <2>2 DEF Load
    <3> QED BY <1>1, <3>1, <3>2
  <2>3. ASSUME NEW applied \in BOOLEAN, NEW acked \in BOOLEAN,
               Publish(applied, acked) \/ RecordFailure(applied, acked)
        PROVE  SeriesInv' /\ entry'.snap >= entry.snap /\ task'.pc # "load"
    BY <2>3, EntryStored
  <2> QED BY <1>3, <2>1, <2>2, <2>3 DEF RefreshStep
<1>4. CASE \E applied \in BOOLEAN : AClose(applied)
  BY <1>4, SeriesClosed
<1>5. CASE Tick
  BY <1>1, <1>5, TimePasses
<1>6. CASE UNCHANGED seriesVars
  <2>1. SeriesInv'
    BY <1>6 DEF seriesVars, SeriesInv, SeriesTypes, AttemptIsLatest, FailureIsKept, LockIsHeld,
                FailureTimes, Refreshing, CopiesAreOld, Consistent
  <2> QED BY <1>1, <1>6, <2>1 DEF seriesVars
<1> QED BY <1>2, <1>3, <1>4, <1>5, <1>6 DEF SeriesNext

(* The types that TLC checks follow.                                       *)
LEMMA SeriesTyped == SeriesInv => SeriesTypeOK
  BY SeriesAssumption DEF SeriesInv, SeriesTypes, SeriesTypeOK, Never

(* Spec => RefreshesBackOff: a refresh starts only when none is under way  *)
(* and the last failure is as old as a refresh may be, or was recorded     *)
(* when a page had its copy already; for any number of pages and whatever  *)
(* writes Redis drops (recent_series.py).                                  *)
THEOREM BackOffHolds == Spec => RefreshesBackOff
<1>1. Init => SeriesInv
  BY SeriesInitially DEF Init
<1>2. SeriesInv /\ [Next]_allVars =>
        /\ SeriesInv'
        /\ [/\ SeriesTypeOK
            /\ task.pc # "load" /\ task'.pc = "load" =>
                 /\ ~Refreshing
                 /\ lastFail # Never => now - lastFail >= RefreshAge \/ ReadTooEarly]_seriesVars
  <2> SUFFICES ASSUME SeriesInv, [Next]_allVars
      PROVE  /\ SeriesInv' /\ SeriesTypeOK
             /\ task.pc # "load" /\ task'.pc = "load" =>
                   ~Refreshing /\ (lastFail # Never => now - lastFail >= RefreshAge \/ ReadTooEarly)
    OBVIOUS
  <2>1. SeriesNext \/ UNCHANGED seriesVars
    BY DEF Next, allVars
  <2> QED BY <2>1, SeriesStep, SeriesTyped
<1> QED BY <1>1, <1>2, PTL DEF Spec, RefreshesBackOff

(* Spec => SnapshotsMoveForward: the series shown are never replaced by    *)
(* older ones, although a write may fail, be applied without being         *)
(* acknowledged, or arrive when the service closes.                        *)
THEOREM SnapshotsHold == Spec => SnapshotsMoveForward
<1>1. Init => SeriesInv
  BY SeriesInitially DEF Init
<1>2. SeriesInv /\ [Next]_allVars => SeriesInv' /\ [entry'.snap >= entry.snap]_seriesVars
  <2> SUFFICES ASSUME SeriesInv, [Next]_allVars PROVE SeriesInv' /\ entry'.snap >= entry.snap
    OBVIOUS
  <2>1. SeriesNext \/ UNCHANGED seriesVars
    BY DEF Next, allVars
  <2> QED BY <2>1, SeriesStep
<1> QED BY <1>1, <1>2, PTL DEF Spec, SnapshotsMoveForward

-----------------------------------------------------------------------------
(* The catalog that is served                                              *)

(* The pointer keeps its place or moves to a later revision                *)
LEMMA PointerGrows ==
  ASSUME UpdatesInv, UpdatesNext \/ UNCHANGED updateVars
  PROVE  pointer' = pointer \/ (pointer' \in Int /\ pointer' >= pointer)
<1>1. ASSUME NEW c \in Commands, NEW j \in Jobs, SwitchPointer(c, j)
      PROVE  pointer' \in Int /\ pointer' >= pointer
  <2>1. /\ IsOpen(c) /\ command[c].job[j] = "switch" /\ j \in {"catalog", "init"}
        /\ pointer' = command[c].rev
    BY <1>1 DEF SwitchPointer
  <2>2. Faithful(c) /\ command[c].rev \in Int
    BY <2>1, OpenCommand DEF CommandType
  <2>3. pointer <= command[c].rev /\ pointer \in Int
    BY <2>1, <2>2 DEF Faithful, KeepsPatch, UpdatesInv, UpdatesTypes
  <2> QED BY <2>1, <2>2, <2>3
<1>2. CASE UNCHANGED filesVars \/ UNCHANGED updateVars
  BY <1>2 DEF filesVars, updateVars
<1>3. CASE ReleasePatch \/ StartLoader \/ LoaderStep \/ PollFails \/ StopLoader
  BY <1>2, <1>3 DEF ReleasePatch, StartLoader, LoaderStep, PollReads, PollAdopts, LoaderStopped,
                    PollFails, StopLoader
<1>4. ASSUME NEW c \in Commands, Launch(c) \/ CommandStep(c) \/ Interrupt(c) \/ Kill(c)
      PROVE  pointer' = pointer \/ (pointer' \in Int /\ pointer' >= pointer)
  <2>1. CASE Launch(c) \/ Interrupt(c) \/ Kill(c)
    BY <1>2, <2>1 DEF Launch, Interrupt, Kill
  <2>2. CASE (\E j \in Jobs : JobFails(c, j)) \/ Exit(c) \/ ReleaseLock(c) \/ BlockImages(c)
             \/ CheckPatch(c)
    BY <1>2, <2>2 DEF JobFails, Exit, ReleaseLock, BlockImages, CheckPatch
  <2>3. CASE SavePatchNotes(c) \/ (\E s \in {"success", "partial"} : SaveImages(c, s))
    BY <2>3 DEF SavePatchNotes, SaveImages
  <2>4. CASE \E s \in {"success", "partial"}, j \in Jobs : OtherJob(c, j, s)
    BY <1>2, <2>4 DEF OtherJob
  <2>5. CASE \E j \in Jobs : StartJob(c, j) \/ RenameDirectory(c, j)
    BY <1>2, <2>5 DEF StartJob, RenameDirectory
  <2>6. CASE \E j \in Jobs : SwitchPointer(c, j)
    BY <1>1, <2>6
  <2> QED BY <1>4, <2>1, <2>2, <2>3, <2>4, <2>5, <2>6 DEF CommandStep, StepOfJob
<1> QED BY <1>2, <1>3, <1>4 DEF UpdatesNext

(* What the API serves was published                                       *)
LoaderInv ==
  /\ api \in [pc : {"down", "wait", "load"}, serves : Int, stop : BOOLEAN]
  /\ api.serves > 0 => api.serves <= pointer

(* A step of the loader alone serves what it did, nothing, or the current  *)
(* catalog.                                                                *)
LEMMA LoaderMoves ==
  ASSUME UpdatesInv, LoaderInv, UpdatesNext \/ UNCHANGED updateVars
  PROVE  /\ api' \in [pc : {"down", "wait", "load"}, serves : Int, stop : BOOLEAN]
         /\ \/ api'.serves = api.serves
            \/ api'.serves = 0
            \/ api'.serves = pointer /\ pointer' = pointer
<1>1. api \in [pc : {"down", "wait", "load"}, serves : Int, stop : BOOLEAN]
  BY DEF LoaderInv
<1>2. Loaded \in Int /\ (Loaded > 0 => Loaded = pointer)
  BY DEF Loaded, Unset, Damaged, UpdatesInv, UpdatesTypes
<1>3. CASE api' = api
  BY <1>1, <1>3
<1>4. CASE StartLoader
  BY <1>1, <1>2, <1>4 DEF StartLoader, filesVars
<1>8. CASE PollAdopts
  <2> DEFINE found == IF Loaded > 0 THEN Loaded ELSE api.serves
  <2>1. found \in Int /\ (found = api.serves \/ found = pointer)
    BY <1>1, <1>2
  <2>2. api' = [api EXCEPT !.pc = "wait", !.serves = found] /\ pointer' = pointer
    BY <1>1, <1>8 DEF PollAdopts, filesVars
  <2> HIDE DEF found
  <2> QED BY <1>1, <2>1, <2>2
<1>9. CASE PollReads \/ PollFails \/ StopLoader
  <2>1. api' = [api EXCEPT !.pc = "load"] \/ api' = [api EXCEPT !.pc = "wait"]
        \/ api' = [api EXCEPT !.stop = TRUE]
    BY <1>9 DEF PollReads, PollFails, StopLoader
  <2> QED BY <1>1, <2>1
<1>5. CASE LoaderStopped
  BY <1>1, <1>5 DEF LoaderStopped, Unset
<1>6. CASE ReleasePatch \/ UNCHANGED updateVars
  BY <1>3, <1>6 DEF ReleasePatch, updateVars
<1>7. ASSUME NEW c \in Commands, Launch(c) \/ CommandStep(c) \/ Interrupt(c) \/ Kill(c)
      PROVE  api' = api
  <2>1. CASE Launch(c) \/ Interrupt(c) \/ Kill(c) \/ Exit(c) \/ ReleaseLock(c)
    BY <2>1 DEF Launch, Interrupt, Kill, Exit, ReleaseLock
  <2>2. CASE (\E j \in Jobs : JobFails(c, j)) \/ BlockImages(c) \/ CheckPatch(c)
    BY <2>2 DEF JobFails, BlockImages, CheckPatch
  <2>3. CASE SavePatchNotes(c) \/ (\E s \in {"success", "partial"} : SaveImages(c, s))
    BY <2>3 DEF SavePatchNotes, SaveImages
  <2>4. CASE \E s \in {"success", "partial"}, j \in Jobs : OtherJob(c, j, s)
    BY <2>4 DEF OtherJob
  <2>5. CASE \E j \in Jobs : StartJob(c, j) \/ RenameDirectory(c, j) \/ SwitchPointer(c, j)
    BY <2>5 DEF StartJob, RenameDirectory, SwitchPointer
  <2> QED BY <1>7, <2>1, <2>2, <2>3, <2>4, <2>5 DEF CommandStep, StepOfJob
<1> QED BY <1>3, <1>4, <1>5, <1>6, <1>7, <1>8, <1>9 DEF UpdatesNext, LoaderStep

(* Spec => CatalogMovesForward: neither the pointer to the published       *)
(* catalog nor the catalog that the API serves goes back to an earlier     *)
(* revision (game_data_sync.py, catalog.py).                               *)
THEOREM CatalogHolds == Spec => CatalogMovesForward
<1>1. Init => UpdatesInv /\ LoaderInv
  BY UpdatesInitially DEF Init, UpdatesInit, LoaderInv, Unset
<1>2. UpdatesInv /\ LoaderInv /\ [Next]_allVars =>
        /\ (UpdatesInv /\ LoaderInv)'
        /\ [/\ pointer > 0 => pointer' >= pointer
            /\ api.serves > 0 /\ api'.serves > 0 => api'.serves >= api.serves]_updateVars
  <2> SUFFICES ASSUME UpdatesInv, LoaderInv, [Next]_allVars
      PROVE  /\ UpdatesInv' /\ LoaderInv'
             /\ pointer > 0 => pointer' >= pointer
             /\ api.serves > 0 /\ api'.serves > 0 => api'.serves >= api.serves
    OBVIOUS
  <2>1. UpdatesNext \/ UNCHANGED updateVars
    BY DEF Next, allVars
  <2>2. UpdatesInv' /\ pointer \in Int
    BY <2>1, UpdatesStep DEF UpdatesInv, UpdatesTypes
  <2>3. pointer' = pointer \/ (pointer' \in Int /\ pointer' >= pointer)
    BY <2>1, PointerGrows
  <2>4. /\ api' \in [pc : {"down", "wait", "load"}, serves : Int, stop : BOOLEAN]
        /\ \/ api'.serves = api.serves
           \/ api'.serves = 0
           \/ api'.serves = pointer /\ pointer' = pointer
    BY <2>1, LoaderMoves
  <2>5. api.serves \in Int /\ api'.serves \in Int /\ (api.serves > 0 => api.serves <= pointer)
    BY <2>4 DEF LoaderInv
  <2>6. LoaderInv'
    BY <2>2, <2>3, <2>4, <2>5 DEF LoaderInv
  <2> QED BY <2>2, <2>3, <2>4, <2>5, <2>6
<1> QED BY <1>1, <1>2, PTL DEF Spec, CatalogMovesForward

(* Spec => NothingGoesBack: neither the series nor the catalog a user has  *)
(* been shown are followed by older ones.                                  *)
THEOREM NothingGoesBackHolds == Spec => NothingGoesBack
BY SnapshotsHold, CatalogHolds DEF NothingGoesBack

-----------------------------------------------------------------------------
(* The streams of a session.  Each lemma named ...Keeps is one action;     *)
(* StreamMoves, MoveKeeps and RunningGoesOn are what those actions share.  *)

Texts == Seq(Nat)

Views ==
  [status : Statuses, stage : {"execution", "answer"}, attempt : Nat, text : Texts,
   persistence : {"pending", "saving", "saved", "failed"}]

Streams ==
  [pc : {"idle", "waiting", "lookup", "running", "answered", "saving"},
   req : Requests \cup {NoRequest}, query : Queries \cup {NoRequest}, gone : BOOLEAN,
   view : Views, shown : Views, save : {"none", "open", "stored", "failed"}]

Turns == [req : Requests, query : Queries, text : Texts]
Kept  == [query : Queries, text : Texts, attempt : Nat]

(* A function from some of the requests                                    *)
Partial(S) == UNION {[D -> S] : D \in SUBSET Requests}

Memories ==
  [begun : Partial(Queries), current : Requests \cup {NoRequest}, answers : Partial(Kept),
   bootstrapped : BOOLEAN, heard : SUBSET Requests]

TypesOK ==
  /\ session \in {"open", "deleted"} /\ turns \in Seq(Turns) /\ landing \in SUBSET Turns
  /\ memory \in Memories /\ queue \in Seq(Clients) /\ generations \in Nat
  /\ streams \in [Clients -> Streams]

Saving == {"answered", "saving"}

(* What a stream alone keeps: its view fits where it is, it has a save     *)
(* exactly while it has an answer to store, only then can its client be    *)
(* gone, and a client that is there has the view.                          *)
StreamOK(s) ==
  /\ s.pc # "idle" => s.req \in Requests /\ s.query \in Queries
  /\ s.view.status = "completed" => s.req \in Requests
  /\ s.pc \in {"waiting", "lookup"} => s.view.status = "none" /\ s.view.persistence = "pending"
  /\ s.pc = "running" => s.view.status = "running" /\ s.view.persistence = "pending"
  /\ s.pc \in Saving => s.view.status = "completed" /\ s.view.persistence \in {"pending", "saving"}
  /\ s.pc \in Saving <=> s.save # "none"
  /\ s.gone => s.pc \in Saving
  /\ ~s.gone => s.shown = s.view
  /\ s.view.persistence = "saved" => s.view.status = "completed"

(* Everyone who has a stream is in the queue once, and only its head is    *)
(* past waiting.                                                           *)
QueueOK ==
  /\ IsInjective(queue)
  /\ \A c \in Clients : Active(c) <=> c \in Range(queue)
  /\ \A c \in Clients : streams[c].pc \notin {"idle", "waiting"} => Holds(c)

InTable(s) ==
  \E t \in TurnsOf(s.req) : t.query = s.query /\ t.text = s.view.text

HasKept(s) ==
  s.req \in DOMAIN memory.answers /\ memory.answers[s.req].text = s.view.text

(* What a stream has of the tables: an answer to be stored is kept, a      *)
(* request that runs has none anywhere, and a completed view is the kept   *)
(* answer or the stored one.                                               *)
TableOK(s) ==
  /\ s.pc \in Saving => HasKept(s) /\ memory.answers[s.req].query = s.query
  /\ s.pc = "running" =>
       /\ memory.bootstrapped /\ s.req \notin DOMAIN memory.answers
       /\ \A t \in Range(turns) \cup landing : t.req # s.req
  /\ session = "open" =>
       /\ s.save = "stored" => InTable(s)
       /\ s.view.persistence = "saved" => InTable(s)
       /\ s.view.status = "completed" =>
            HasKept(s) \/ \E t \in TurnsOf(s.req) : t.text = s.view.text

(* Two streams of one request: the same completed text, and none is        *)
(* completed while the other still runs.                                   *)
Agree(s, d) ==
  s.req = d.req =>
    /\ s.view.status = "completed" /\ d.view.status = "completed" => s.view.text = d.view.text
    /\ s.pc = "running" => d.view.status # "completed"
    /\ d.pc = "running" => s.view.status # "completed"

StreamsOK ==
  /\ \A c \in Clients : StreamOK(streams[c]) /\ TableOK(streams[c])
  /\ \A c, d \in Clients : Agree(streams[c], streams[d])

(* The tables and the memory of this process: one turn of a request; a     *)
(* turn that may still land is of a kept answer and of no stored turn;     *)
(* what is stored is what is kept, and all of it is remembered.            *)
TablesOK ==
  /\ \A i, j \in DOMAIN turns : turns[i].req = turns[j].req => i = j
  /\ landing = {} \/ \E t \in Turns : landing = {t}
  /\ \A t \in landing : /\ session = "open" /\ t.req \in DOMAIN memory.answers
                        /\ \A u \in Range(turns) : u.req # t.req
  /\ \A t \in Range(turns) \cup landing :
       t.req \in DOMAIN memory.answers => memory.answers[t.req].text = t.text
  /\ \A r \in DOMAIN memory.answers : memory.bootstrapped /\ r \in memory.heard
  /\ TurnsAreRemembered

ChatInv == TypesOK /\ QueueOK /\ StreamsOK /\ TablesOK
-----------------------------------------------------------------------------
(* Sequences: the queue                                                    *)

LEMMA Joins ==
  ASSUME NEW S, NEW q \in Seq(S), NEW e \in S, IsInjective(q), e \notin Range(q)
  PROVE  /\ Append(q, e) \in Seq(S) /\ IsInjective(Append(q, e))
         /\ Range(Append(q, e)) = Range(q) \cup {e}
         /\ q # <<>> => Head(Append(q, e)) = Head(q)
<1>1. PICK n \in Nat : Len(q) = n /\ DOMAIN q = 1..n
  BY LenProperties
<1> DEFINE a == Append(q, e)
<1>2. a \in Seq(S) /\ Len(a) = n + 1 /\ DOMAIN a = 1..(n + 1) /\ a[n + 1] = e
      /\ \A i \in 1..n : a[i] = q[i]
  BY <1>1, AppendProperties
<1> HIDE DEF a
<1>3. IsInjective(a)
  BY <1>1, <1>2 DEF IsInjective, Range
<1>4. Range(a) = Range(q) \cup {e}
  BY <1>1, <1>2 DEF Range
<1>5. ASSUME q # <<>> PROVE Head(a) = Head(q)
  BY <1>1, <1>2, <1>5
<1> QED BY <1>2, <1>3, <1>4, <1>5 DEF a

LEMMA Leaves ==
  ASSUME NEW S, NEW q \in Seq(S), NEW e \in Range(q), IsInjective(q)
  PROVE  LET w == RemoveAt(q, CHOOSE i \in DOMAIN q : q[i] = e) IN
         /\ w \in Seq(S) /\ IsInjective(w) /\ Range(w) = Range(q) \ {e}
         /\ Head(q) # e => w # <<>> /\ Head(w) = Head(q)
<1>1. PICK n \in Nat : Len(q) = n /\ DOMAIN q = 1..n /\ \A i \in 1..n : q[i] \in S
  BY LenProperties
<1> DEFINE k == CHOOSE i \in DOMAIN q : q[i] = e
<1>2. k \in 1..n /\ q[k] = e
  BY <1>1 DEF Range
<1> HIDE DEF k
<1>3. PICK f \in Seq(S) : f = SubSeq(q, 1, k - 1) /\ Len(f) = k - 1
                          /\ \A i \in 1..(k - 1) : f[i] = q[i]
  <2> DEFINE f == SubSeq(q, 1, k - 1)
  <2>1. k - 1 \in Int /\ \A i \in 1..(k - 1) : q[i] \in S
    BY <1>1, <1>2
  <2>2. f \in Seq(S) /\ Len(f) = IF 1 <= k - 1 THEN (k - 1) - 1 + 1 ELSE 0
    BY <2>1, SubSeqProperties
  <2>3. \A i \in 1..((k - 1) - 1 + 1) : f[i] = q[1 + i - 1]
    BY <2>1, SubSeqProperties
  <2> HIDE DEF f
  <2>4. Len(f) = k - 1
    BY <1>2, <2>2
  <2>5. \A i \in 1..(k - 1) : f[i] = q[i]
    <3>1. (k - 1) - 1 + 1 = k - 1 /\ \A i \in 1..(k - 1) : 1 + i - 1 = i
      BY <1>2
    <3> QED BY <2>3, <3>1
  <2> QED BY <2>2, <2>4, <2>5 DEF f
<1>4. PICK l \in Seq(S) : l = SubSeq(q, k + 1, n) /\ Len(l) = n - k
                          /\ \A i \in 1..(n - k) : l[i] = q[k + i]
  <2> DEFINE l == SubSeq(q, k + 1, n)
  <2>1. k + 1 \in Int /\ n \in Int /\ \A i \in (k + 1)..n : q[i] \in S
    BY <1>1, <1>2
  <2>2. l \in Seq(S) /\ Len(l) = IF k + 1 <= n THEN n - (k + 1) + 1 ELSE 0
    BY <2>1, SubSeqProperties
  <2>3. \A i \in 1..(n - (k + 1) + 1) : l[i] = q[k + 1 + i - 1]
    BY <2>1, SubSeqProperties
  <2> HIDE DEF l
  <2>4. Len(l) = n - k
    BY <1>2, <2>2
  <2>5. \A i \in 1..(n - k) : l[i] = q[k + i]
    <3>1. n - (k + 1) + 1 = n - k /\ \A i \in 1..(n - k) : k + 1 + i - 1 = k + i
      BY <1>2
    <3> QED BY <2>3, <3>1
  <2> QED BY <2>2, <2>4, <2>5 DEF l
<1> DEFINE w == f \o l
<1>5. w \in Seq(S) /\ Len(w) = n - 1 /\ DOMAIN w = 1..(n - 1)
  BY <1>2, <1>3, <1>4
<1>c. \A i \in 1..((k - 1) + (n - k)) : w[i] = IF i <= k - 1 THEN f[i] ELSE l[i - (k - 1)]
  <2>1. f \in Seq(S) /\ l \in Seq(S)
    OBVIOUS
  <2>2. \A i \in 1..(Len(f) + Len(l)) : w[i] = IF i <= Len(f) THEN f[i] ELSE l[i - Len(f)]
    BY ONLY <2>1, ConcatProperties
  <2>3. Len(f) = k - 1 /\ Len(l) = n - k
    BY <1>3, <1>4
  <2> HIDE DEF w
  <2> QED BY ONLY <2>2, <2>3
<1> HIDE DEF w
<1>6. ASSUME NEW i \in 1..(n - 1) PROVE w[i] = IF i < k THEN q[i] ELSE q[i + 1]
  <2>1. i \in 1..((k - 1) + (n - k)) /\ (i < k <=> i <= k - 1)
    BY <1>2
  <2>2. CASE i < k
    <3>1. i \in 1..(k - 1)
      BY <1>2, <2>2
    <3> QED BY <1>3, <1>c, <2>1, <2>2, <3>1
  <2>3. CASE ~(i < k)
    <3>1. i - (k - 1) \in 1..(n - k) /\ k + (i - (k - 1)) = i + 1
      BY <1>2, <2>3
    <3> QED BY <1>4, <1>c, <2>1, <2>3, <3>1
  <2> QED BY <2>2, <2>3
<1>7. \A i \in 1..(n - 1) : \E j \in 1..n : w[i] = q[j] /\ j # k
                                        /\ j = IF i < k THEN i ELSE i + 1
  BY <1>2, <1>6
<1>8. IsInjective(w)
  <2> SUFFICES ASSUME NEW i \in 1..(n - 1), NEW j \in 1..(n - 1), w[i] = w[j] PROVE i = j
    BY <1>5 DEF IsInjective
  <2>1. PICK a \in 1..n : w[i] = q[a] /\ a = IF i < k THEN i ELSE i + 1
    BY <1>7
  <2>2. PICK b \in 1..n : w[j] = q[b] /\ b = IF j < k THEN j ELSE j + 1
    BY <1>7
  <2>3. a = b
    BY <1>1, <2>1, <2>2 DEF IsInjective
  <2> HIDE DEF w
  <2> QED BY <1>2, <2>1, <2>2, <2>3
<1>9. Range(w) = Range(q) \ {e}
  <2>1. Range(w) \subseteq Range(q) \ {e}
    <3> SUFFICES ASSUME NEW i \in 1..(n - 1) PROVE w[i] \in Range(q) /\ w[i] # e
      BY <1>5 DEF Range
    <3>1. PICK a \in 1..n : w[i] = q[a] /\ a # k
      BY <1>7
    <3> QED BY <1>1, <1>2, <3>1 DEF Range, IsInjective
  <2>2. ASSUME NEW i \in 1..n, i # k PROVE q[i] \in Range(w)
    <3>1. CASE i < k
      <4>1. i \in 1..(n - 1)
        BY <1>2, <3>1
      <4> QED BY <3>1, <4>1, <1>5, <1>6 DEF Range
    <3>2. CASE i > k
      <4>1. PICK j \in 1..(n - 1) : ~(j < k) /\ j + 1 = i
        <5>1. i - 1 \in 1..(n - 1) /\ ~(i - 1 < k) /\ (i - 1) + 1 = i
          BY <3>2, <1>2
        <5> QED BY <5>1
      <4>2. w[j] = q[i]
        BY <4>1, <1>6
      <4> QED BY <4>1, <4>2, <1>5 DEF Range
    <3> QED BY <1>2, <2>2, <3>1, <3>2
  <2>3. Range(q) \ {e} \subseteq Range(w)
    BY <1>1, <1>2, <2>2 DEF Range
  <2> QED BY <2>1, <2>3
<1>10. ASSUME Head(q) # e PROVE w # <<>> /\ Head(w) = Head(q)
  <2>1. n > 0 /\ Head(q) = q[1]
    BY <1>1, <1>2
  <2>2. k > 1
    BY <1>2, <1>10, <2>1
  <2>3. n - 1 \in Nat \ {0} /\ w[1] = q[1]
    BY <1>2, <1>6, <2>2
  <2> QED BY <1>5, <2>1, <2>3
<1>11. w = RemoveAt(q, k)
  BY <1>1, <1>3, <1>4 DEF w, RemoveAt
<1> QED BY <1>5, <1>8, <1>9, <1>10, <1>11 DEF k

LEMMA QueueCounts ==
  ASSUME NEW S, NEW q \in Seq(S), IsInjective(q)
  PROVE  Cardinality(Range(q)) = Len(q) /\ Range(q) \subseteq S
<1>1. PICK n \in Nat : Len(q) = n /\ DOMAIN q = 1..n /\ \A i \in 1..n : q[i] \in S
  BY LenProperties
<1>2. q \in Bijection(1..n, Range(q))
  BY <1>1 DEF Bijection, Injection, Surjection, IsInjective, Range
<1>3. IsFiniteSet(1..n) /\ Cardinality(1..n) = n
  BY <1>1, FS_Interval
<1>4. Cardinality(Range(q)) = Cardinality(1..n)
  BY <1>2, <1>3, FS_Bijection DEF ExistsBijection
<1>5. Range(q) \subseteq S
  BY <1>1 DEF Range
<1> QED BY <1>1, <1>3, <1>4, <1>5
-----------------------------------------------------------------------------
(* Records: the view and its copy                                          *)

ViewFields == {"status", "stage", "attempt", "text", "persistence"}
FieldsOf(n) == {RunFields[i] : i \in 1..n}

(* The fields of a run: all of them are sent, persistence last.            *)
LEMMA FieldNames ==
  /\ Len(RunFields) = 3 /\ FieldsOf(3) = {"status", "stage", "persistence"}
  /\ \A n \in 0..3 : /\ FieldsOf(n) \subseteq {"status", "stage", "persistence"}
                     /\ n # 3 => "persistence" \notin FieldsOf(n)
<1>1. Len(RunFields) = 3
  BY DEF RunFields
<1>2. RunFields[1] = "status" /\ RunFields[2] = "stage" /\ RunFields[3] = "persistence"
  BY DEF RunFields
<1>3. \A i \in 1..3 : i = 1 \/ i = 2 \/ i = 3
  OBVIOUS
<1>4. FieldsOf(3) = {"status", "stage", "persistence"}
  BY <1>2, <1>3 DEF FieldsOf
<1>5. ASSUME NEW n \in 0..3
      PROVE  /\ FieldsOf(n) \subseteq {"status", "stage", "persistence"}
             /\ n # 3 => "persistence" \notin FieldsOf(n)
  <2>1. \A i \in 1..n : i \in 1..3 /\ (n # 3 => i # 3)
    OBVIOUS
  <2> QED BY <1>2, <1>3, <2>1 DEF FieldsOf
<1> QED BY <1>1, <1>4, <1>5

(* A view is a function on its fields; so is what is made from one, field  *)
(* by field.                                                               *)
LEMMA ViewRecord == ASSUME NEW v \in Views PROVE DOMAIN v = ViewFields /\ v = [f \in ViewFields |-> v[f]]
  BY DEF Views, ViewFields

LEMMA FieldsGiven ==
  ASSUME NEW a \in Views, NEW before \in Views, NEW view \in Views, NEW F
  PROVE  LET p == FieldsApplied(a, before, view, F)
         IN  /\ DOMAIN p = ViewFields
             /\ p = [f \in ViewFields |-> p[f]]
             /\ \A f \in ViewFields : p[f] = IF f \in F /\ before[f] # view[f] THEN view[f] ELSE a[f]
  BY ViewRecord DEF FieldsApplied

LEMMA SameFields ==
  ASSUME NEW v \in Views, NEW p, p = [f \in ViewFields |-> p[f]], \A f \in ViewFields : p[f] = v[f]
  PROVE  p = v
  BY ViewRecord
LEMMA TextRebuilt ==
  ASSUME NEW a \in Texts, NEW b \in Texts, IsPrefix(a, b)
  PROVE  a \o SubSeq(b, Len(a) + 1, Len(b)) = b
<1>1. PICK m \in Nat, n \in Nat : /\ Len(a) = m /\ Len(b) = n /\ m <= n
                                 /\ \A i \in 1..m : a[i] = b[i]
  <2>1. PICK m \in Nat, n \in Nat : Len(a) = m /\ Len(b) = n /\ m <= n
    BY LenProperties DEF Texts, IsPrefix
  <2>2. SubSeq(a, 1, m) = SubSeq(b, 1, m)
    BY <2>1 DEF IsPrefix
  <2>3. ASSUME NEW i \in 1..m PROVE a[i] = b[i]
    <3>1. SubSeq(a, 1, m)[i] = a[i] /\ SubSeq(b, 1, m)[i] = b[i]
      BY <2>1, <2>3 DEF Texts
    <3> QED BY <2>2, <3>1
  <2> QED BY <2>1, <2>3
<1>2. PICK l \in Texts : l = SubSeq(b, m + 1, n) /\ Len(l) = n - m
                         /\ \A i \in 1..(n - m) : l[i] = b[m + i]
  <2> DEFINE l == SubSeq(b, m + 1, n)
  <2>1. m + 1 \in Int /\ n \in Int /\ \A i \in (m + 1)..n : b[i] \in Nat
    BY <1>1, LenProperties DEF Texts
  <2>2. l \in Texts /\ Len(l) = IF m + 1 <= n THEN n - (m + 1) + 1 ELSE 0
    BY <2>1, SubSeqProperties DEF Texts
  <2>3. \A i \in 1..(n - (m + 1) + 1) : l[i] = b[m + 1 + i - 1]
    BY <2>1, SubSeqProperties
  <2> HIDE DEF l
  <2>4. Len(l) = n - m
    BY <1>1, <2>2
  <2>5. \A i \in 1..(n - m) : l[i] = b[m + i]
    <3>1. n - (m + 1) + 1 = n - m /\ \A i \in 1..(n - m) : m + 1 + i - 1 = m + i
      BY <1>1
    <3> QED BY <2>3, <3>1
  <2> QED BY <2>2, <2>4, <2>5 DEF l
<1> DEFINE w == a \o l
<1>3. w \in Texts /\ Len(w) = m + (n - m)
      /\ \A i \in 1..(m + (n - m)) : w[i] = IF i <= m THEN a[i] ELSE l[i - m]
  <2>1. a \in Seq(Nat) /\ l \in Seq(Nat)
    BY <1>2 DEF Texts
  <2>2. w \in Seq(Nat) /\ Len(w) = Len(a) + Len(l)
        /\ \A i \in 1..(Len(a) + Len(l)) : w[i] = IF i <= Len(a) THEN a[i] ELSE l[i - Len(a)]
    BY ONLY <2>1, ConcatProperties DEF w
  <2> HIDE DEF w
  <2> QED BY <1>1, <1>2, <2>2 DEF Texts
<1> HIDE DEF w
<1>4. Len(w) = n /\ m + (n - m) = n
  BY <1>1, <1>3
<1>5. ASSUME NEW i \in 1..n PROVE w[i] = b[i]
  <2>1. CASE i <= m
    BY <1>1, <1>3, <1>4, <1>5, <2>1
  <2>2. CASE ~(i <= m)
    <3>1. i - m \in 1..(n - m) /\ m + (i - m) = i
      BY <1>1, <2>2
    <3> QED BY <1>2, <1>3, <1>4, <1>5, <2>2, <3>1
  <2> QED BY <2>1, <2>2
<1>6. w = b
  <2>1. w \in Seq(Nat) /\ b \in Seq(Nat) /\ Len(w) = Len(b)
        /\ \A i \in 1..Len(w) : w[i] = b[i]
    BY <1>1, <1>3, <1>4, <1>5 DEF Texts
  <2> QED BY ONLY <2>1, SeqEqual
<1> QED BY <1>1, <1>2, <1>6 DEF w

(* The answer of a view that the client has is made the next one's.        *)
LEMMA AnswerMade ==
  ASSUME NEW before \in Views, NEW view \in Views
  PROVE  AnswerApplied(before, before, view)
           = [before EXCEPT !.attempt = view.attempt, !.text = view.text]
<1>1. ASSUME IsPrefix(before.text, view.text)
      PROVE  before.text \o SubSeq(view.text, Len(before.text) + 1, Len(view.text)) = view.text
  BY <1>1, TextRebuilt DEF Views
<1> QED BY <1>1 DEF AnswerApplied, Views

(* What the client has when n fields of the run followed the answer.       *)
LEMMA PartlyMade ==
  ASSUME NEW before \in Views, NEW view \in Views, NEW n \in 0..3
  PROVE  LET p == PartlyApplied(before, before, view, n)
         IN  /\ p = [f \in ViewFields |-> p[f]]
             /\ p["attempt"] = view.attempt /\ p["text"] = view.text
             /\ n = 3 => \A f \in ViewFields : p[f] = view[f]
             /\ n # 3 => p["persistence"] = before.persistence
<1> DEFINE a == [before EXCEPT !.attempt = view.attempt, !.text = view.text]
           p == FieldsApplied(a, before, view, FieldsOf(n))
<1>1. a \in Views /\ a["attempt"] = view.attempt /\ a["text"] = view.text
      /\ \A f \in {"status", "stage", "persistence"} : a[f] = before[f]
  BY DEF Views
<1>2. PartlyApplied(before, before, view, n) = p
  BY AnswerMade DEF PartlyApplied, FieldsOf
<1> HIDE DEF a
<1>3. /\ p = [f \in ViewFields |-> p[f]]
      /\ \A f \in ViewFields : p[f] = IF f \in FieldsOf(n) /\ before[f] # view[f] THEN view[f] ELSE a[f]
  BY <1>1, FieldsGiven
<1> HIDE DEF p
<1>4. "attempt" \notin FieldsOf(n) /\ "text" \notin FieldsOf(n)
  BY FieldNames
<1>5. p["attempt"] = view.attempt /\ p["text"] = view.text
  BY <1>1, <1>3, <1>4 DEF ViewFields
<1>6. ASSUME n = 3, NEW f \in ViewFields PROVE p[f] = view[f]
  <2>1. view["attempt"] = view.attempt /\ view["text"] = view.text
    BY DEF Views
  <2>2. CASE f \in {"status", "stage", "persistence"}
    BY <1>1, <1>3, <1>6, <2>2, FieldNames
  <2> QED BY <1>5, <2>1, <2>2 DEF ViewFields
<1>7. n # 3 => p["persistence"] = before.persistence
  <2>1. before["persistence"] = before.persistence
    BY DEF Views
  <2> QED BY <1>1, <1>3, <2>1, FieldNames DEF ViewFields
<1> QED BY <1>2, <1>3, <1>5, <1>6, <1>7

(* A client that has the view before an update has the next one after it,  *)
LEMMA ViewApplied ==
  ASSUME NEW shown, NEW before \in Views, NEW view \in Views,
         shown = before \/ before.status = "none"
  PROVE  ApplyUpdate(shown, before, view) = view
<1>1. CASE before.status = "none"
  BY <1>1 DEF ApplyUpdate
<1>2. CASE before.status # "none" /\ shown = before
  <2>1. PartlyApplied(before, before, view, 3) = view
    BY PartlyMade, SameFields
  <2> QED BY <1>2, <2>1, FieldNames DEF ApplyUpdate
<1> QED BY <1>1, <1>2

(* ... and in between one that is not torn.                                *)
LEMMA NothingTorn ==
  ASSUME NEW before \in Views, NEW view \in Views, before.persistence # "saved",
         view.persistence = "saved" => view.status = "completed", NEW n \in 0..Len(RunFields)
  PROVE  LET partly == PartlyApplied(before, before, view, n)
         IN  /\ <<partly.attempt, partly.text>> \in
                  {<<before.attempt, before.text>>, <<view.attempt, view.text>>}
             /\ partly.status = "completed" => partly.text = view.text
             /\ partly.persistence = "saved" => partly.status = "completed"
<1> DEFINE p == PartlyApplied(before, before, view, n)
<1>1. n \in 0..3
  BY FieldNames
<1>2. /\ p = [f \in ViewFields |-> p[f]]
      /\ p["attempt"] = view.attempt /\ p["text"] = view.text
      /\ n = 3 => \A f \in ViewFields : p[f] = view[f]
      /\ n # 3 => p["persistence"] = before.persistence
  BY <1>1, PartlyMade
<1> HIDE DEF p
<1>3. /\ p.attempt = p["attempt"] /\ p.text = p["text"] /\ p.status = p["status"]
      /\ p.persistence = p["persistence"]
  OBVIOUS
<1>4. CASE n = 3
  <2>1. p = view
    BY <1>2, <1>4, SameFields
  <2> QED BY <2>1 DEF p
<1>5. CASE n # 3
  BY <1>2, <1>3, <1>5 DEF p
<1> QED BY <1>4, <1>5

Put(c, s) == streams' = [streams EXCEPT ![c] = s]
Advanced(s, pc, view) == [s EXCEPT !.pc = pc, !.view = view, !.shown = view]

LEMMA YieldPuts ==
  ASSUME ChatInv, NEW c \in Clients, NEW pc, NEW view \in Views, Yield(c, pc, view),
         streams[c].pc \in {"lookup", "running"} \/ ~streams[c].gone
  PROVE  Put(c, Advanced(streams[c], pc, view))
<1>1. streams \in [Clients -> Streams] /\ streams[c].view \in Views
  BY DEF ChatInv, TypesOK, Streams
<1>2. streams[c].shown = streams[c].view
  BY DEF ChatInv, StreamsOK, StreamOK, Saving
<1>3. ApplyUpdate(streams[c].shown, streams[c].view, view) = view
  BY <1>1, <1>2, ViewApplied
<1> QED BY <1>1, <1>3 DEF Yield, Put, Advanced, Streams

LEMMA FirstViews ==
  /\ NewView \in Views /\ NewView.status = "running" /\ NewView.persistence = "pending"
  /\ NoView \in Views /\ NoView.status = "none" /\ NoView.persistence = "pending"
  /\ NewView.text = <<>>
<1>1. <<>> \in Texts
  BY DEF Texts
<1> QED BY <1>1 DEF NewView, NoView, Views, Statuses

LEMMA FirstStream ==
  /\ NewStream \in Streams /\ StreamOK(NewStream) /\ TableOK(NewStream)
  /\ NewStream.pc = "idle" /\ NewStream.save = "none"
  /\ \A s : Agree(NewStream, s)
BY FirstViews DEF NewStream, Streams, StreamOK, TableOK, Agree, Saving
-----------------------------------------------------------------------------
(* One stream changes and the tables do not                                *)

LEMMA StreamMoves ==
  ASSUME ChatInv, NEW c \in Clients, NEW s \in Streams, Put(c, s),
         UNCHANGED <<session, turns, landing, memory>>, generations' \in Nat,
         StreamOK(s), TableOK(s),
         \A d \in Clients \ {c} : Agree(s, streams[d])
  PROVE  streams' \in [Clients -> Streams] /\ StreamsOK' /\ TablesOK'
<1>1. streams' \in [Clients -> Streams] /\ streams'[c] = s
      /\ \A d \in Clients \ {c} : streams'[d] = streams[d]
  BY DEF Put, ChatInv, TypesOK
<1>2. \A d \in Clients : StreamOK(streams'[d])
  BY <1>1 DEF ChatInv, StreamsOK
<1>3. \A d \in Clients : TableOK(streams'[d])
  BY <1>1 DEF ChatInv, StreamsOK
<1>4. \A d \in Clients : (TableOK(streams[d]))'
  BY <1>3 DEF TableOK, InTable, HasKept, TurnsOf
<1>5. Agree(s, s)
  BY DEF Agree, StreamOK
<1>6. \A d, e \in Clients : Agree(streams[d], streams[e])
  BY DEF ChatInv, StreamsOK
<1>7. \A d, e \in Clients : Agree(streams'[d], streams'[e])
  <2> SUFFICES ASSUME NEW d \in Clients, NEW e \in Clients PROVE Agree(streams'[d], streams'[e])
    OBVIOUS
  <2>1. d # c => Agree(s, streams[d]) /\ Agree(streams[d], s)
    BY DEF Agree
  <2>2. e # c => Agree(s, streams[e])
    OBVIOUS
  <2> QED BY <1>1, <1>5, <1>6, <2>1, <2>2
<1>8. StreamsOK'
  BY <1>2, <1>4, <1>7 DEF StreamsOK, StreamOK, Agree
<1>9. TablesOK'
  BY DEF ChatInv, TablesOK, TurnsAreRemembered
<1> QED BY <1>1, <1>8, <1>9
-----------------------------------------------------------------------------
(* The lock                                                                *)

LEMMA LockKept ==
  ASSUME ChatInv, NEW c \in Clients, NEW s \in Streams, Put(c, s), queue' = queue,
         Active(c), s.pc # "idle", s.pc # "waiting" => Holds(c)
  PROVE  QueueOK'
<1>1. \A d \in Clients : streams'[d] = IF d = c THEN s ELSE streams[d]
  BY DEF Put, ChatInv, TypesOK
<1> QED BY <1>1 DEF ChatInv, QueueOK, Active, Holds

LEMMA LockLeft ==
  ASSUME ChatInv, NEW c \in Clients, NEW s \in Streams, Put(c, s), queue' = Released(c),
         Active(c), s.pc = "idle"
  PROVE  QueueOK' /\ queue' \in Seq(Clients)
<1>1. \A d \in Clients : streams'[d] = IF d = c THEN s ELSE streams[d]
  BY DEF Put, ChatInv, TypesOK
<1>2. c \in Range(queue) /\ IsInjective(queue) /\ queue \in Seq(Clients)
  BY DEF ChatInv, QueueOK, TypesOK
<1>3. /\ queue' \in Seq(Clients) /\ IsInjective(queue') /\ Range(queue') = Range(queue) \ {c}
      /\ Head(queue) # c => queue' # <<>> /\ Head(queue') = Head(queue)
  BY <1>2, Leaves DEF Released
<1>4. \A d \in Clients : (Active(d) <=> d \in Range(queue))'
  BY <1>1, <1>3 DEF ChatInv, QueueOK, Active
<1>5. ASSUME NEW d \in Clients, streams'[d].pc \notin {"idle", "waiting"}
      PROVE  Holds(d)'
  <2>1. d # c /\ streams[d].pc \notin {"idle", "waiting"}
    BY <1>1, <1>5
  <2>2. Head(queue) = d
    BY <2>1 DEF ChatInv, QueueOK, Holds
  <2> QED BY <1>3, <2>1, <2>2 DEF Holds
<1> QED BY <1>3, <1>4, <1>5 DEF QueueOK

(* Whoever is past waiting is alone there.                                 *)
LEMMA HolderAlone ==
  ASSUME ChatInv, NEW c \in Clients, Holds(c)
  PROVE  \A d \in Clients \ {c} : streams[d].pc \in {"idle", "waiting"} /\ streams[d].save = "none"
<1> SUFFICES ASSUME NEW d \in Clients \ {c}
             PROVE  streams[d].pc \in {"idle", "waiting"} /\ streams[d].save = "none"
  OBVIOUS
<1>1. streams[d].pc \in {"idle", "waiting"}
  BY DEF ChatInv, QueueOK, Holds
<1>2. StreamOK(streams[d])
  BY DEF ChatInv, StreamsOK
<1> QED BY <1>1, <1>2 DEF StreamOK, Saving
-----------------------------------------------------------------------------
(* One lemma per action                                                    *)

Unmoved == UNCHANGED <<session, turns, landing, memory, generations>>

LEMMA MoveKeeps ==
  ASSUME ChatInv, Unmoved, NEW c \in Clients, NEW s \in Streams, Put(c, s), Active(c),
         StreamOK(s), TableOK(s), \A d \in Clients \ {c} : Agree(s, streams[d]),
         \/ queue' = queue /\ s.pc # "idle" /\ (s.pc # "waiting" => Holds(c))
         \/ queue' = Released(c) /\ s.pc = "idle"
  PROVE  ChatInv'
<1>1. QueueOK' /\ queue' \in Seq(Clients)
  BY LockKept, LockLeft DEF ChatInv, TypesOK
<1>2. streams' \in [Clients -> Streams] /\ StreamsOK' /\ TablesOK'
  BY StreamMoves DEF Unmoved, ChatInv, TypesOK
<1> QED BY <1>1, <1>2 DEF ChatInv, TypesOK, Unmoved

LEMMA StartStreamKeeps ==
  ASSUME ChatInv, NEW c \in Clients, NEW r \in Requests, NEW q \in Queries, StartStream(c, r, q)
  PROVE  ChatInv'
<1> DEFINE s == [NewStream EXCEPT !.pc = "waiting", !.req = r, !.query = q]
<1>1. s \in Streams /\ StreamOK(s)
  BY FirstViews DEF NewStream, Streams, StreamOK, Saving
<1>2. TableOK(s) /\ \A d \in Clients : Agree(s, streams[d])
  BY FirstViews DEF NewStream, TableOK, Agree, Saving
<1>3. s.pc = "waiting"
  BY DEF NewStream
<1>4. Put(c, s) /\ queue' = Append(queue, c) /\ Unmoved /\ ~Active(c)
  BY DEF StartStream, Put, Unmoved
<1> HIDE DEF s
<1>5. streams' \in [Clients -> Streams] /\ StreamsOK' /\ TablesOK'
  BY <1>1, <1>2, <1>4, StreamMoves DEF Unmoved, ChatInv, TypesOK
<1>6. queue \in Seq(Clients) /\ IsInjective(queue) /\ c \notin Range(queue)
  BY <1>4 DEF ChatInv, TypesOK, QueueOK
<1>7. /\ queue' \in Seq(Clients) /\ IsInjective(queue') /\ Range(queue') = Range(queue) \cup {c}
      /\ queue # <<>> => Head(queue') = Head(queue)
  BY <1>4, <1>6, Joins
<1>8. \A d \in Clients : streams'[d] = IF d = c THEN s ELSE streams[d]
  BY <1>4 DEF Put, ChatInv, TypesOK
<1>9. \A d \in Clients : (Active(d) <=> d \in Range(queue))'
  BY <1>3, <1>7, <1>8 DEF ChatInv, QueueOK, Active
<1>10. ASSUME NEW d \in Clients, streams'[d].pc \notin {"idle", "waiting"} PROVE Holds(d)'
  <2>1. queue # <<>> /\ Head(queue) = d
    BY <1>3, <1>8, <1>10 DEF ChatInv, QueueOK, Holds
  <2>2. c \in Range(queue')
    BY <1>7
  <2> QED BY <1>7, <2>1, <2>2 DEF Holds, Range
<1> QED BY <1>4, <1>5, <1>7, <1>9, <1>10 DEF ChatInv, TypesOK, QueueOK, Unmoved

LEMMA AcquireKeeps ==
  ASSUME ChatInv, NEW c \in Clients, Acquire(c)
  PROVE  ChatInv'
<1> DEFINE s == [streams[c] EXCEPT !.pc = "lookup"]
<1>1. streams[c] \in Streams /\ StreamOK(streams[c]) /\ TableOK(streams[c])
      /\ streams[c].pc = "waiting"
  BY DEF ChatInv, TypesOK, StreamsOK, Acquire
<1>2. s \in Streams /\ StreamOK(s)
  BY <1>1 DEF Streams, StreamOK, Saving
<1>3. TableOK(s)
  BY <1>1 DEF Streams, StreamOK, TableOK, Saving, InTable, HasKept
<1>4. \A d \in Clients : Agree(s, streams[d])
  BY <1>1 DEF ChatInv, StreamsOK, Agree, Streams
<1>5. Put(c, s) /\ Unmoved /\ queue' = queue /\ Holds(c) /\ Active(c) /\ s.pc = "lookup"
  BY <1>1 DEF Acquire, Put, Unmoved, Active, Streams
<1> QED BY <1>2, <1>3, <1>4, <1>5, MoveKeeps

LEMMA LookupFailsKeeps ==
  ASSUME ChatInv, NEW c \in Clients, LookupFails(c)
  PROVE  ChatInv'
<1> DEFINE view == Failed(NewView)
           s == Advanced(streams[c], "idle", view)
<1>1. streams[c] \in Streams /\ StreamOK(streams[c]) /\ streams[c].pc = "lookup"
  BY DEF ChatInv, TypesOK, StreamsOK, LookupFails
<1>2. view \in Views /\ view.status = "failed" /\ view.persistence = "pending"
  BY FirstViews DEF Views, Failed, Statuses
<1>3. Put(c, s)
  BY <1>2, YieldPuts DEF LookupFails, YieldLast, ChatInv, TypesOK
<1> HIDE DEF view
<1>4. s \in Streams /\ StreamOK(s)
  BY <1>1, <1>2 DEF Advanced, Streams, StreamOK, Saving
<1>5. TableOK(s) /\ \A d \in Clients : Agree(s, streams[d])
  BY <1>1, <1>2 DEF Advanced, Streams, StreamOK, TableOK, Agree, Saving
<1>6. Unmoved /\ queue' = Released(c) /\ Active(c) /\ s.pc = "idle"
  BY <1>1 DEF LookupFails, YieldLast, Unmoved, Active, Advanced, Streams
<1> QED BY <1>3, <1>4, <1>5, <1>6, MoveKeeps

LEMMA ReplayKeeps ==
  ASSUME ChatInv, NEW c \in Clients, Replay(c)
  PROVE  ChatInv'
<1>1. PICK t \in TurnsOf(streams[c].req) :
        /\ t.query = streams[c].query
        /\ YieldLast(c, [NewView EXCEPT !.status = "completed", !.stage = "answer",
                                        !.text = t.text, !.persistence = "saved"])
  BY DEF Replay
<1>2. streams[c] \in Streams /\ StreamOK(streams[c]) /\ streams[c].pc = "lookup"
      /\ streams[c].req \in Requests /\ session = "open"
  BY DEF ChatInv, TypesOK, StreamsOK, Replay, StreamOK
<1>3. t \in Range(turns) /\ t \in Turns /\ t.req = streams[c].req
  BY DEF TurnsOf, ChatInv, TypesOK, Range
<1>4. PICK view \in Views : /\ YieldLast(c, view)
                            /\ view.status = "completed" /\ view.persistence = "saved"
                            /\ view.text = t.text
  <2> DEFINE view == [NewView EXCEPT !.status = "completed", !.stage = "answer",
                                     !.text = t.text, !.persistence = "saved"]
  <2>1. t.text \in Texts
    BY <1>3 DEF Turns
  <2>2. /\ view \in Views /\ view.status = "completed" /\ view.persistence = "saved"
        /\ view.text = t.text
    BY <2>1, FirstViews DEF Views, Statuses
  <2>3. YieldLast(c, view)
    BY <1>1
  <2> QED BY <2>2, <2>3
<1> DEFINE s == Advanced(streams[c], "idle", view)
<1>5. Put(c, s)
  BY <1>2, <1>4, YieldPuts DEF YieldLast
<1>6. s \in Streams /\ StreamOK(s)
  BY <1>2, <1>4 DEF Advanced, Streams, StreamOK, Saving
<1>7. s.req = streams[c].req /\ s.query = streams[c].query /\ s.view = view
      /\ s.pc = "idle" /\ s.save = "none"
  BY <1>2 DEF Advanced, Streams, StreamOK, Saving
<1> HIDE DEF s
<1>8. TableOK(s)
  BY <1>1, <1>3, <1>4, <1>7 DEF TableOK, InTable, Saving
<1>9. ASSUME NEW d \in Clients \ {c} PROVE Agree(s, streams[d])
  <2>1. ASSUME streams[d].req = t.req PROVE streams[d].pc # "running"
    BY <1>3, <2>1 DEF ChatInv, StreamsOK, TableOK
  <2>2. ASSUME streams[d].req = t.req, streams[d].view.status = "completed"
        PROVE  streams[d].view.text = t.text
    <3>1. HasKept(streams[d]) \/ \E u \in TurnsOf(streams[d].req) : u.text = streams[d].view.text
      BY <1>2, <2>2 DEF ChatInv, StreamsOK, TableOK
    <3>2. t.req \in DOMAIN memory.answers => memory.answers[t.req].text = t.text
      BY <1>3 DEF ChatInv, TablesOK
    <3>3. \A u \in TurnsOf(t.req) : u = t
      BY <1>3 DEF ChatInv, TablesOK, TurnsOf, Range
    <3> QED BY <2>2, <3>1, <3>2, <3>3 DEF HasKept
  <2> QED BY <1>3, <1>4, <1>7, <2>1, <2>2 DEF Agree
<1>10. Unmoved /\ queue' = Released(c) /\ Active(c)
  BY <1>2, <1>4 DEF Replay, YieldLast, Unmoved, Active
<1> QED BY <1>5, <1>6, <1>7, <1>8, <1>9, <1>10, MoveKeeps

LEMMA ResumeSaveKeeps ==
  ASSUME ChatInv, NEW c \in Clients, ResumeSave(c)
  PROVE  ChatInv'
<1> DEFINE r == streams[c].req
           view == [NewView EXCEPT !.status = "completed", !.stage = "answer",
                                   !.attempt = memory.answers[r].attempt,
                                   !.text = memory.answers[r].text]
           s == [Advanced(streams[c], "answered", view) EXCEPT !.save = "open"]
<1>1. streams[c] \in Streams /\ StreamOK(streams[c]) /\ streams[c].pc = "lookup"
      /\ r \in Requests /\ session = "open" /\ TurnsOf(r) = {}
      /\ r \in DOMAIN memory.answers /\ memory.answers[r].query = streams[c].query
  BY DEF ChatInv, TypesOK, StreamsOK, ResumeSave, StreamOK
<1>2. memory.answers[r] \in Kept
  BY <1>1 DEF ChatInv, TypesOK, Memories, Partial
<1>3. /\ view \in Views /\ view.status = "completed" /\ view.persistence = "pending"
      /\ view.text = memory.answers[r].text
  BY <1>2, FirstViews DEF Views, Kept, Statuses
<1>4. ApplyUpdate(streams[c].shown, streams[c].view, view) = view
  <2>1. streams[c].view \in Views /\ streams[c].shown = streams[c].view
    BY <1>1 DEF Streams, StreamOK, Saving
  <2> HIDE DEF view
  <2> QED BY <1>3, <2>1, ViewApplied
<1>5. Put(c, s) /\ Unmoved /\ queue' = queue
  <2>1. /\ streams' = [streams EXCEPT ![c].pc = "answered", ![c].view = view, ![c].save = "open",
                                ![c].shown = ApplyUpdate(@, streams[c].view, view)]
        /\ Unmoved /\ queue' = queue
    BY DEF ResumeSave, Unmoved
  <2> HIDE DEF view
  <2>2. streams \in [Clients -> Streams]
    BY DEF ChatInv, TypesOK
  <2>3. streams' = [streams EXCEPT ![c] =
                     [streams[c] EXCEPT !.pc = "answered", !.view = view, !.save = "open",
                        !.shown = ApplyUpdate(streams[c].shown, streams[c].view, view)]]
    BY <2>1, <2>2 DEF Streams
  <2>4. streams' = [streams EXCEPT ![c] =
                     [streams[c] EXCEPT !.pc = "answered", !.view = view, !.save = "open",
                                        !.shown = view]]
    BY <1>4, <2>3
  <2>5. [streams[c] EXCEPT !.pc = "answered", !.view = view, !.save = "open", !.shown = view] = s
    BY <1>1 DEF Advanced, Streams
  <2> QED BY <2>1, <2>4, <2>5 DEF Put
<1> HIDE DEF view
<1>6. s \in Streams /\ StreamOK(s)
  BY <1>1, <1>3 DEF Advanced, Streams, StreamOK, Saving
<1>7. s.req = r /\ s.query = streams[c].query /\ s.view = view
      /\ s.pc = "answered" /\ s.save = "open"
  BY <1>1 DEF Advanced, Streams
<1> HIDE DEF s
<1>8. TableOK(s)
  BY <1>1, <1>3, <1>7 DEF TableOK, HasKept, Saving
<1>9. ASSUME NEW d \in Clients \ {c} PROVE Agree(s, streams[d])
  <2>1. ASSUME streams[d].req = r PROVE streams[d].pc # "running"
    BY <1>1, <2>1 DEF ChatInv, StreamsOK, TableOK
  <2>2. ASSUME streams[d].req = r, streams[d].view.status = "completed"
        PROVE  streams[d].view.text = view.text
    BY <1>1, <1>3, <2>2 DEF ChatInv, StreamsOK, TableOK, HasKept
  <2> QED BY <1>7, <2>1, <2>2 DEF Agree
<1>10. Active(c) /\ Holds(c)
  BY <1>1 DEF Active, ChatInv, QueueOK
<1> QED BY <1>5, <1>6, <1>7, <1>8, <1>9, <1>10, MoveKeeps

(* What the events of a running stream do to it                            *)
LEMMA RunningGoesOn ==
  ASSUME ChatInv, Unmoved, queue' = queue, NEW c \in Clients, NEW view \in Views,
         streams[c].pc = "running", view.status = "running", view.persistence = "pending",
         Yield(c, "running", view)
  PROVE  ChatInv'
<1> DEFINE s == Advanced(streams[c], "running", view)
<1>1. streams[c] \in Streams /\ StreamOK(streams[c]) /\ TableOK(streams[c])
  BY DEF ChatInv, TypesOK, StreamsOK
<1>2. Put(c, s)
  BY YieldPuts DEF ChatInv, TypesOK
<1>3. s \in Streams /\ StreamOK(s)
  BY <1>1 DEF Advanced, Streams, StreamOK, Saving
<1>4. s.req = streams[c].req /\ s.view = view /\ s.pc = "running" /\ s.save = "none"
  BY <1>1 DEF Advanced, Streams, StreamOK, Saving
<1> HIDE DEF s
<1>5. TableOK(s)
  BY <1>1, <1>4 DEF TableOK, Saving
<1>6. \A d \in Clients \ {c} : Agree(s, streams[d])
  BY <1>4 DEF ChatInv, StreamsOK, Agree
<1>7. Active(c) /\ Holds(c)
  BY DEF Active, ChatInv, QueueOK
<1> QED BY <1>2, <1>3, <1>4, <1>5, <1>6, <1>7, MoveKeeps

LEMMA RunningStepKeeps ==
  ASSUME ChatInv, NEW c \in Clients, RuntimeStep(c)
  PROVE  ChatInv'
<1>1. streams[c] \in Streams /\ streams[c].pc = "running" /\ streams[c].view \in Views
      /\ streams[c].view.status = "running" /\ streams[c].view.persistence = "pending"
  BY DEF ChatInv, TypesOK, StreamsOK, StreamOK, Streams, RuntimeStep, EnterAnswer, StartAnswer,
         AppendText, AttemptFails
<1>2. CASE EnterAnswer(c)
  <2>1. PICK view \in Views : Yield(c, "running", view) /\ view.status = "running"
                              /\ view.persistence = "pending"
    BY <1>1, <1>2 DEF EnterAnswer, Views
  <2> QED BY <1>1, <1>2, <2>1, RunningGoesOn DEF EnterAnswer, Unmoved
<1>3. CASE StartAnswer(c)
  <2>1. attempt' \in Nat /\ <<>> \in Texts
    BY <1>3, ChatAssumption DEF StartAnswer, Texts
  <2>2. PICK view \in Views : Yield(c, "running", view) /\ view.status = "running"
                              /\ view.persistence = "pending"
    <3> DEFINE view == [streams[c].view EXCEPT !.attempt = attempt', !.text = <<>>]
    <3>1. view \in Views /\ view.status = "running" /\ view.persistence = "pending"
      BY <1>1, <2>1 DEF Views
    <3>2. Yield(c, "running", view)
      BY <1>3 DEF StartAnswer
    <3> QED BY <3>1, <3>2
  <2> QED BY <1>1, <1>3, <2>2, RunningGoesOn DEF StartAnswer, Unmoved
<1>4. CASE AppendText(c)
  <2>1. Append(streams[c].view.text, generations + 1) \in Texts
    BY <1>1 DEF Views, Texts, ChatInv, TypesOK
  <2>2. PICK view \in Views : Yield(c, "running", view) /\ view.status = "running"
                              /\ view.persistence = "pending"
    <3> DEFINE view == [streams[c].view EXCEPT !.text = Append(@, generations + 1)]
    <3>1. view \in Views /\ view.status = "running" /\ view.persistence = "pending"
      BY <1>1, <2>1 DEF Views
    <3>2. Yield(c, "running", view)
      BY <1>4 DEF AppendText
    <3> QED BY <3>1, <3>2
  <2> QED BY <1>1, <1>4, <2>2, RunningGoesOn DEF AppendText, Unmoved
<1>5. CASE AttemptFails(c)
  BY <1>5 DEF AttemptFails, chatVars, ChatInv, TypesOK, QueueOK, StreamsOK, TablesOK, StreamOK,
     TableOK, InTable, HasKept, Agree, TurnsOf, Active, Holds, TurnsAreRemembered
<1> QED BY <1>2, <1>3, <1>4, <1>5 DEF RuntimeStep

LEMMA RunBreaksKeeps ==
  ASSUME ChatInv, NEW c \in Clients, NEW how \in {"failed", "cancelled", "closed"},
         RunBreaks(c, how)
  PROVE  ChatInv'
<1>1. streams[c] \in Streams /\ StreamOK(streams[c]) /\ streams[c].pc = "running"
      /\ streams[c].view \in Views /\ streams[c].view.persistence = "pending"
  BY DEF ChatInv, TypesOK, StreamsOK, StreamOK, Streams, RunBreaks
<1>2. PICK view \in Views : /\ YieldLast(c, view) /\ view.status \in {"failed", "cancelled"}
                            /\ view.persistence = "pending"
  BY <1>1 DEF RunBreaks, Views, Statuses
<1> DEFINE s == Advanced(streams[c], "idle", view)
<1>3. Put(c, s)
  BY <1>1, <1>2, YieldPuts DEF YieldLast
<1>4. s \in Streams /\ StreamOK(s)
  BY <1>1, <1>2 DEF Advanced, Streams, StreamOK, Saving
<1>5. s.view = view /\ s.pc = "idle" /\ s.save = "none"
  BY <1>1 DEF Advanced, Streams, StreamOK, Saving
<1> HIDE DEF s
<1>6. TableOK(s) /\ \A d \in Clients : Agree(s, streams[d])
  BY <1>2, <1>5 DEF TableOK, Agree, Saving
<1>7. Unmoved /\ queue' = Released(c) /\ Active(c)
  BY <1>1, <1>2 DEF RunBreaks, YieldLast, Unmoved, Active
<1> QED BY <1>3, <1>4, <1>5, <1>6, <1>7, MoveKeeps

LEMMA StartPersistenceKeeps ==
  ASSUME ChatInv, NEW c \in Clients, StartPersistence(c)
  PROVE  ChatInv'
<1> DEFINE view == [streams[c].view EXCEPT !.persistence = "saving"]
           s == Advanced(streams[c], "saving", view)
<1>1. streams[c] \in Streams /\ StreamOK(streams[c]) /\ TableOK(streams[c])
      /\ streams[c].pc = "answered" /\ ~streams[c].gone /\ streams[c].view \in Views
  BY DEF ChatInv, TypesOK, StreamsOK, Streams, StartPersistence
<1>2. view \in Views /\ view.status = "completed" /\ view.persistence = "saving"
      /\ view.text = streams[c].view.text
  BY <1>1 DEF Views, StreamOK, Saving
<1>3. Put(c, s)
  BY <1>2, YieldPuts DEF StartPersistence, ChatInv, TypesOK
<1> HIDE DEF view
<1>4. s \in Streams /\ StreamOK(s)
  BY <1>1, <1>2 DEF Advanced, Streams, StreamOK, Saving
<1>5. s.view = view /\ s.pc = "saving" /\ s.save = streams[c].save /\ s.req = streams[c].req
      /\ s.query = streams[c].query
  BY <1>1 DEF Advanced, Streams
<1> HIDE DEF s
<1>6. TableOK(s)
  BY <1>1, <1>2, <1>5 DEF TableOK, StreamOK, HasKept, InTable, Saving
<1>7. \A d \in Clients \ {c} : Agree(s, streams[d])
  <2> SUFFICES ASSUME NEW d \in Clients \ {c} PROVE Agree(s, streams[d])
    OBVIOUS
  <2>1. Agree(streams[c], streams[d])
    BY DEF ChatInv, StreamsOK
  <2> QED BY <1>1, <1>2, <1>5, <2>1 DEF Agree, StreamOK, Saving
<1>8. Unmoved /\ queue' = queue /\ Active(c) /\ Holds(c)
  BY <1>1 DEF StartPersistence, Unmoved, Active, ChatInv, QueueOK
<1> QED BY <1>3, <1>4, <1>5, <1>6, <1>7, <1>8, MoveKeeps

LEMMA SaveFailsKeeps ==
  ASSUME ChatInv, NEW c \in Clients, SaveFails(c)
  PROVE  ChatInv'
<1> DEFINE s == [streams[c] EXCEPT !.save = "failed"]
<1>1. streams[c] \in Streams /\ StreamOK(streams[c]) /\ TableOK(streams[c])
      /\ streams[c].save = "open"
  BY DEF ChatInv, TypesOK, StreamsOK, SaveFails
<1>2. streams[c].pc \in Saving
  BY <1>1 DEF StreamOK
<1>3. s \in Streams /\ StreamOK(s)
  BY <1>1, <1>2 DEF Streams, StreamOK, Saving
<1>4. s.view = streams[c].view /\ s.pc = streams[c].pc /\ s.save = "failed"
      /\ s.req = streams[c].req /\ s.query = streams[c].query
  BY <1>1 DEF Streams
<1>5. Put(c, s) /\ Unmoved /\ queue' = queue /\ Active(c) /\ Holds(c)
  BY <1>2 DEF SaveFails, Put, Unmoved, Active, ChatInv, QueueOK, Saving
<1> HIDE DEF s
<1>6. TableOK(s)
  BY <1>1, <1>4 DEF TableOK, HasKept, InTable
<1>7. \A d \in Clients \ {c} : Agree(s, streams[d])
  BY <1>4 DEF ChatInv, StreamsOK, Agree
<1> QED BY <1>2, <1>3, <1>4, <1>5, <1>6, <1>7, MoveKeeps DEF Saving
-----------------------------------------------------------------------------
(* Actions that change the tables or the memory                            *)

LEMMA StreamsFollow ==
  ASSUME ChatInv, NEW c \in Clients, NEW s \in Streams, Put(c, s), StreamOK(s),
         \A d \in Clients \ {c} : Agree(s, streams[d]),
         \A d \in Clients : TableOK(streams[d])'
  PROVE  streams' \in [Clients -> Streams] /\ StreamsOK'
<1>1. streams' \in [Clients -> Streams] /\ streams'[c] = s
      /\ \A d \in Clients \ {c} : streams'[d] = streams[d]
  BY DEF Put, ChatInv, TypesOK
<1>2. \A d \in Clients : StreamOK(streams'[d])
  BY <1>1 DEF ChatInv, StreamsOK
<1>3. Agree(s, s)
  BY DEF Agree, StreamOK
<1>4. \A d, e \in Clients : Agree(streams[d], streams[e])
  BY DEF ChatInv, StreamsOK
<1>5. \A d, e \in Clients : Agree(streams'[d], streams'[e])
  <2> SUFFICES ASSUME NEW d \in Clients, NEW e \in Clients PROVE Agree(streams'[d], streams'[e])
    OBVIOUS
  <2>1. d # c => Agree(s, streams[d]) /\ Agree(streams[d], s)
    BY DEF Agree
  <2>2. e # c => Agree(s, streams[e])
    OBVIOUS
  <2> QED BY <1>1, <1>3, <1>4, <2>1, <2>2
<1> QED BY <1>1, <1>2, <1>5 DEF StreamsOK, StreamOK, Agree

LEMMA BeginTurnKeeps ==
  ASSUME ChatInv, NEW c \in Clients, BeginTurn(c)
  PROVE  ChatInv'
<1> DEFINE r == streams[c].req
           q == streams[c].query
           begun == [x \in DOMAIN memory.begun \cup {r} |-> IF x = r THEN q ELSE memory.begun[x]]
<1>1. streams[c] \in Streams /\ StreamOK(streams[c]) /\ streams[c].pc = "lookup"
      /\ r \in Requests /\ q \in Queries /\ session = "open" /\ TurnsOf(r) = {}
      /\ r \notin DOMAIN memory.answers
  BY DEF ChatInv, TypesOK, StreamsOK, BeginTurn, StreamOK
<1>2. memory \in Memories /\ begun \in Partial(Queries)
  <2>1. memory \in Memories /\ memory.begun \in Partial(Queries)
    BY DEF ChatInv, TypesOK, Memories
  <2>2. PICK D \in SUBSET Requests : memory.begun \in [D -> Queries]
    BY <2>1 DEF Partial
  <2>3. begun \in [D \cup {r} -> Queries] /\ D \cup {r} \in SUBSET Requests
    BY <1>1, <2>2
  <2> QED BY <2>1, <2>3 DEF Partial
<1>3. {t.req : t \in Range(turns)} \in SUBSET Requests
  <2> SUFFICES ASSUME NEW i \in DOMAIN turns PROVE turns[i].req \in Requests
    BY DEF Range
  <2>1. turns[i] \in Turns
    BY DEF ChatInv, TypesOK
  <2> QED BY <2>1 DEF Turns
<1>4. /\ memory' \in Memories /\ memory'.answers = memory.answers /\ memory'.bootstrapped
      /\ memory'.heard = IF memory.bootstrapped THEN memory.heard ELSE {t.req : t \in Range(turns)}
  BY <1>1, <1>2, <1>3 DEF BeginTurn, Memories
<1>5. PICK s \in Streams : /\ Put(c, s) /\ s.view = NewView /\ s.shown = s.view
                           /\ s.pc = "running" /\ s.save = "none" /\ ~s.gone
                           /\ s.req = r /\ s.query = q
  <2> DEFINE s == Advanced(streams[c], "running", NewView)
  <2>1. Put(c, s)
    BY FirstViews, YieldPuts DEF BeginTurn, ChatInv, TypesOK
  <2>2. /\ s \in Streams /\ s.view = NewView /\ s.shown = s.view
        /\ s.pc = "running" /\ s.save = "none" /\ ~s.gone /\ s.req = r /\ s.query = q
    BY <1>1, FirstViews DEF Advanced, Streams, StreamOK, Saving
  <2> QED BY <2>1, <2>2
<1>6. UNCHANGED <<session, turns, landing, queue, generations>>
  BY DEF BeginTurn
<1>7. StreamOK(s)
  BY <1>1, <1>5, FirstViews DEF StreamOK, Saving
<1>8. ASSUME NEW d \in Clients PROVE streams'[d] = IF d = c THEN s ELSE streams[d]
  BY <1>5 DEF Put, ChatInv, TypesOK
<1>9. \A t \in Range(turns) \cup landing : t.req # r
  BY <1>1 DEF ChatInv, TablesOK, TurnsOf
<1>10. ASSUME NEW d \in Clients \ {c} PROVE Agree(s, streams[d])
  <2>1. Holds(c) /\ streams[d].pc # "running"
    BY <1>1, HolderAlone DEF ChatInv, QueueOK
  <2>2. ASSUME streams[d].req = r PROVE streams[d].view.status # "completed"
    BY <1>1, <2>2 DEF ChatInv, StreamsOK, TableOK, HasKept
  <2> QED BY <1>5, <2>1, <2>2, FirstViews DEF Agree
<1>11. ASSUME NEW d \in Clients PROVE TableOK(streams[d])'
  <2>1. CASE d = c
    BY <1>1, <1>4, <1>5, <1>6, <1>8, <1>9, <2>1, FirstViews DEF TableOK, Saving
  <2>2. CASE d # c
    <3>1. TableOK(streams[d]) /\ streams'[d] = streams[d]
      BY <1>8, <2>2 DEF ChatInv, StreamsOK
    <3> QED BY <1>4, <1>6, <3>1 DEF TableOK, InTable, HasKept, TurnsOf
  <2> QED BY <2>1, <2>2
<1>12. streams' \in [Clients -> Streams] /\ StreamsOK'
  BY <1>5, <1>7, <1>10, <1>11, StreamsFollow
<1>13. QueueOK'
  <2>1. Active(c) /\ Holds(c)
    BY <1>1 DEF Active, ChatInv, QueueOK
  <2> QED BY <1>5, <1>6, <2>1, LockKept
<1>14. TablesOK'
  <2>1. \A x \in DOMAIN memory.answers : x \in memory'.heard
    BY <1>4 DEF ChatInv, TablesOK
  <2>2. \A t \in Range(turns) \cup landing : t.req \in memory'.heard
    BY <1>4 DEF ChatInv, TablesOK, TurnsAreRemembered
  <2> QED BY <1>4, <1>6, <2>1, <2>2 DEF ChatInv, TablesOK, TurnsAreRemembered
<1> QED BY <1>4, <1>6, <1>12, <1>13, <1>14 DEF ChatInv, TypesOK

LEMMA CompleteKeeps ==
  ASSUME ChatInv, NEW c \in Clients, NEW final \in Texts, Complete(c, final)
  PROVE  ChatInv'
<1> DEFINE r == streams[c].req
           q == streams[c].query
           view == [streams[c].view EXCEPT !.status = "completed", !.text = final]
           kept == [query |-> q, text |-> final, attempt |-> view.attempt]
           answers == [x \in DOMAIN memory.answers \cup {r} |->
                         IF x = r THEN kept ELSE memory.answers[x]]
<1>1. streams[c] \in Streams /\ StreamOK(streams[c]) /\ TableOK(streams[c])
      /\ streams[c].pc = "running" /\ r \in Requests /\ q \in Queries /\ ~streams[c].gone
      /\ streams[c].view \in Views /\ streams[c].view.persistence = "pending"
  BY DEF ChatInv, TypesOK, StreamsOK, Complete, StreamOK, Saving, Streams
<1>2. /\ view \in Views /\ view.status = "completed" /\ view.persistence = "pending"
      /\ view.text = final
  BY <1>1 DEF Views, Statuses
<1>3. kept \in Kept
  BY <1>1, <1>2 DEF Kept, Views
<1>4. memory \in Memories /\ memory.answers \in Partial(Kept)
  BY DEF ChatInv, TypesOK, Memories
<1>5. /\ answers \in Partial(Kept) /\ DOMAIN answers = DOMAIN memory.answers \cup {r}
      /\ answers[r] = kept /\ \A x \in DOMAIN memory.answers \ {r} : answers[x] = memory.answers[x]
  <2>1. PICK D \in SUBSET Requests : memory.answers \in [D -> Kept]
    BY <1>4 DEF Partial
  <2>2. answers \in [D \cup {r} -> Kept] /\ D \cup {r} \in SUBSET Requests
    BY <1>1, <1>3, <2>1
  <2>3. answers \in Partial(Kept)
    BY <2>2 DEF Partial
  <2> HIDE DEF kept
  <2> QED BY <2>3
<1>6. memory' = [memory EXCEPT !.answers = answers, !.heard = @ \cup {r}]
  BY DEF Complete
<1>7. ApplyUpdate(streams[c].shown, streams[c].view, view) = view
  BY <1>1, <1>2, ViewApplied DEF StreamOK
<1>8. PICK s \in Streams : /\ Put(c, s) /\ s.view.status = "completed" /\ s.shown = s.view
                           /\ s.view.text = final /\ s.view.persistence = "pending"
                           /\ s.pc = "answered" /\ s.save = "open" /\ ~s.gone
                           /\ s.req = r /\ s.query = q
  <2> DEFINE s == [Advanced(streams[c], "answered", view) EXCEPT !.save = "open"]
  <2>1. Put(c, s)
    BY <1>1, <1>7 DEF Complete, Put, Advanced, Streams, ChatInv, TypesOK
  <2> HIDE DEF view
  <2>2. /\ s \in Streams /\ s.view = view /\ s.shown = s.view
        /\ s.pc = "answered" /\ s.save = "open" /\ ~s.gone /\ s.req = r /\ s.query = q
    BY <1>1, <1>2 DEF Advanced, Streams
  <2> HIDE DEF s
  <2> QED BY <1>2, <2>1, <2>2
<1>9. kept.query = q /\ kept.text = final
  OBVIOUS
<1> HIDE DEF kept, answers, view
<1>10. /\ memory' \in Memories /\ memory'.answers = answers
       /\ memory'.bootstrapped = memory.bootstrapped /\ memory'.heard = memory.heard \cup {r}
  BY <1>1, <1>4, <1>5, <1>6 DEF Memories
<1>11. UNCHANGED <<session, turns, landing, queue>> /\ generations' \in Nat
  BY DEF Complete, ChatInv, TypesOK
<1>12. StreamOK(s)
  BY <1>1, <1>8 DEF StreamOK, Saving
<1>13. ASSUME NEW d \in Clients PROVE streams'[d] = IF d = c THEN s ELSE streams[d]
  BY <1>8 DEF Put, ChatInv, TypesOK
<1>14. /\ memory.bootstrapped /\ r \notin DOMAIN memory.answers
       /\ \A t \in Range(turns) \cup landing : t.req # r
  BY <1>1 DEF TableOK
<1>15. Holds(c) /\ Active(c)
  BY <1>1 DEF ChatInv, QueueOK, Active
<1>16. ASSUME NEW d \in Clients \ {c}
       PROVE  Agree(s, streams[d]) /\ streams[d].pc \notin Saving \cup {"running"}
  <2>1. streams[d].pc \in {"idle", "waiting"}
    BY <1>15, HolderAlone
  <2>2. ASSUME streams[d].req = r PROVE streams[d].view.status # "completed"
    BY <1>1, <2>2 DEF ChatInv, StreamsOK, Agree
  <2> QED BY <1>8, <2>1, <2>2 DEF Agree, Saving
<1>17. ASSUME NEW d \in Clients PROVE TableOK(streams[d])'
  <2>1. CASE d = c
    BY <1>5, <1>8, <1>9, <1>10, <1>13, <2>1 DEF TableOK, HasKept, Saving
  <2>2. CASE d # c
    <3>1. TableOK(streams[d]) /\ streams'[d] = streams[d]
      BY <1>13, <2>2 DEF ChatInv, StreamsOK
    <3>2. HasKept(streams[d]) => HasKept(streams[d])'
      BY <1>5, <1>10, <1>14, <3>1 DEF HasKept
    <3> QED BY <1>11, <1>16, <2>2, <3>1, <3>2 DEF TableOK, InTable, TurnsOf
  <2> QED BY <2>1, <2>2
<1>18. streams' \in [Clients -> Streams] /\ StreamsOK'
  BY <1>8, <1>12, <1>16, <1>17, StreamsFollow
<1>19. QueueOK'
  BY <1>8, <1>11, <1>15, LockKept
<1>20. TablesOK'
  <2>1. \A x \in DOMAIN memory'.answers : memory'.bootstrapped /\ x \in memory'.heard
    BY <1>5, <1>10, <1>14 DEF ChatInv, TablesOK
  <2>2. \A t \in Range(turns) \cup landing :
          t.req \in DOMAIN memory'.answers => memory'.answers[t.req].text = t.text
    BY <1>5, <1>10, <1>14 DEF ChatInv, TablesOK
  <2>3. \A t \in landing : t.req \in DOMAIN memory'.answers
    BY <1>5, <1>10 DEF ChatInv, TablesOK
  <2> QED BY <1>10, <1>11, <2>1, <2>2, <2>3 DEF ChatInv, TablesOK, TurnsAreRemembered
<1> QED BY <1>10, <1>11, <1>18, <1>19, <1>20 DEF ChatInv, TypesOK

LEMMA TurnAdded ==
  ASSUME ChatInv, NEW t \in Turns, \A u \in Range(turns) : u.req # t.req,
         turns' = Append(turns, t)
  PROVE  /\ turns' \in Seq(Turns) /\ Range(turns)' = Range(turns) \cup {t}
         /\ \A i, j \in DOMAIN turns' : turns'[i].req = turns'[j].req => i = j
<1>1. turns \in Seq(Turns) /\ \A i, j \in DOMAIN turns : turns[i].req = turns[j].req => i = j
  BY DEF ChatInv, TypesOK, TablesOK
<1>2. PICK n \in Nat : Len(turns) = n /\ DOMAIN turns = 1..n
  BY <1>1, LenProperties
<1>3. /\ turns' \in Seq(Turns) /\ DOMAIN turns' = 1..(n + 1) /\ turns'[n + 1] = t
      /\ \A i \in 1..n : turns'[i] = turns[i]
  BY <1>1, <1>2, AppendProperties
<1>4. \A i \in 1..n : turns[i].req # t.req
  BY <1>2 DEF Range
<1>5. Range(turns)' = Range(turns) \cup {t}
  BY <1>2, <1>3 DEF Range
<1>6. ASSUME NEW i \in 1..(n + 1), NEW j \in 1..(n + 1), turns'[i].req = turns'[j].req
      PROVE  i = j
  <2>1. i \in 1..n \/ i = n + 1
    OBVIOUS
  <2>2. j \in 1..n \/ j = n + 1
    OBVIOUS
  <2> QED BY <1>1, <1>2, <1>3, <1>4, <1>6, <2>1, <2>2
<1> QED BY <1>3, <1>5, <1>6

(* Turns are only added, and new ones are of kept answers.                 *)
LEMMA TableGrows ==
  ASSUME ChatInv, UNCHANGED <<session, memory>>, Range(turns) \subseteq Range(turns)',
         \A t \in (Range(turns) \cup landing)' :
           t \in Range(turns) \cup landing \/ t.req \in DOMAIN memory.answers,
         NEW d \in Clients, streams'[d] = streams[d]
  PROVE  TableOK(streams[d])'
<1>1. TableOK(streams[d])
  BY DEF ChatInv, StreamsOK
<1>2. InTable(streams[d]) => InTable(streams[d])'
  BY DEF InTable, TurnsOf
<1>3. HasKept(streams[d])' <=> HasKept(streams[d])
  BY DEF HasKept
<1> QED BY <1>1, <1>2, <1>3 DEF TableOK, TurnsOf

LEMMA SaveCommitsKeeps ==
  ASSUME ChatInv, NEW c \in Clients, SaveCommits(c)
  PROVE  ChatInv'
<1> DEFINE r == streams[c].req
           t == [req |-> r, query |-> streams[c].query, text |-> memory.answers[r].text]
<1>1. streams[c] \in Streams /\ StreamOK(streams[c]) /\ TableOK(streams[c])
      /\ streams[c].save = "open" /\ session = "open" /\ landing = {}
  BY DEF ChatInv, TypesOK, StreamsOK, SaveCommits
<1>2. /\ streams[c].pc \in Saving /\ r \in Requests /\ streams[c].query \in Queries
      /\ r \in DOMAIN memory.answers /\ memory.answers[r].text = streams[c].view.text
      /\ streams[c].view.text \in Texts
  BY <1>1 DEF StreamOK, TableOK, HasKept, Streams, Views, Saving
<1>3. t \in Turns
  BY <1>2 DEF Turns
<1>4. t.req = r /\ t.query = streams[c].query /\ t.text = streams[c].view.text
  BY <1>2
<1>5. turns' = IF TurnsOf(r) # {} THEN turns ELSE Append(turns, t)
  BY DEF SaveCommits
<1> HIDE DEF t
<1>6. /\ turns' \in Seq(Turns) /\ Range(turns) \subseteq Range(turns)'
      /\ \A u \in Range(turns)' : u \in Range(turns) \/ u = t
      /\ \A i, j \in DOMAIN turns' : turns'[i].req = turns'[j].req => i = j
      /\ \E u \in Range(turns)' : /\ u.req = r /\ u.query = streams[c].query
                                  /\ u.text = streams[c].view.text
  <2>1. CASE TurnsOf(r) = {}
    <3>1. turns' = Append(turns, t) /\ \A u \in Range(turns) : u.req # t.req
      BY <1>4, <1>5, <2>1 DEF TurnsOf
    <3> QED BY <1>3, <1>4, <3>1, TurnAdded
  <2>2. CASE TurnsOf(r) # {}
    <3>1. turns' = turns
      BY <1>5, <2>2
    <3>2. PICK u \in Range(turns) : u.req = r /\ u.query = streams[c].query
      BY <2>2 DEF TurnsOf, SaveCommits
    <3>3. u.text = streams[c].view.text
      BY <1>2, <3>2 DEF ChatInv, TablesOK
    <3> QED BY <3>1, <3>2, <3>3 DEF ChatInv, TypesOK, TablesOK
  <2> QED BY <2>1, <2>2
<1>7. PICK s \in Streams : /\ Put(c, s) /\ s.save = "stored" /\ s.pc = streams[c].pc
                           /\ s.view = streams[c].view /\ s.shown = streams[c].shown
                           /\ s.gone = streams[c].gone /\ s.req = r /\ s.query = streams[c].query
  <2> DEFINE s == [streams[c] EXCEPT !.save = "stored"]
  <2>1. Put(c, s)
    BY <1>1 DEF SaveCommits, Put
  <2>2. /\ s \in Streams /\ s.save = "stored" /\ s.pc = streams[c].pc
        /\ s.view = streams[c].view /\ s.shown = streams[c].shown
        /\ s.gone = streams[c].gone /\ s.req = r /\ s.query = streams[c].query
    BY <1>1 DEF Streams
  <2> QED BY <2>1, <2>2
<1>8. StreamOK(s)
  BY <1>1, <1>2, <1>7 DEF StreamOK
<1>9. ASSUME NEW d \in Clients PROVE streams'[d] = IF d = c THEN s ELSE streams[d]
  BY <1>7 DEF Put, ChatInv, TypesOK
<1>10. UNCHANGED <<session, landing, memory, queue, generations>>
  BY DEF SaveCommits
<1>11. \A d \in Clients \ {c} : Agree(s, streams[d])
  BY <1>7 DEF ChatInv, StreamsOK, Agree
<1>12. ASSUME NEW d \in Clients PROVE TableOK(streams[d])'
  <2>1. CASE d = c
    <3>1. InTable(streams[d])'
      BY <1>6, <1>7, <1>9, <2>1 DEF InTable, TurnsOf
    <3>2. HasKept(streams[d])' /\ (memory.answers[streams[d].req].query = streams[d].query)'
      BY <1>1, <1>2, <1>7, <1>9, <1>10, <2>1 DEF TableOK, HasKept
    <3> QED BY <1>2, <1>7, <1>9, <2>1, <3>1, <3>2 DEF TableOK, Saving
  <2>2. CASE d # c
    BY <1>2, <1>4, <1>6, <1>9, <1>10, <2>2, TableGrows
  <2> QED BY <2>1, <2>2
<1>13. streams' \in [Clients -> Streams] /\ StreamsOK'
  BY <1>7, <1>8, <1>11, <1>12, StreamsFollow
<1>14. QueueOK'
  <2>1. Active(c) /\ Holds(c) /\ s.pc \notin {"idle", "waiting"}
    BY <1>2, <1>7 DEF Active, ChatInv, QueueOK, Saving
  <2> QED BY <1>7, <1>10, <2>1, LockKept
<1>15. TablesOK'
  <2>1. t.req \in DOMAIN memory.answers /\ memory.answers[t.req].text = t.text
        /\ t.req \in memory.heard
    BY <1>2, <1>4 DEF ChatInv, TablesOK
  <2> QED BY <1>1, <1>6, <1>10, <2>1 DEF ChatInv, TablesOK, TurnsAreRemembered
<1> QED BY <1>6, <1>10, <1>13, <1>14, <1>15 DEF ChatInv, TypesOK

LEMMA SaveTimesOutKeeps ==
  ASSUME ChatInv, NEW c \in Clients, SaveTimesOut(c)
  PROVE  ChatInv'
<1> DEFINE r == streams[c].req
           t == [req |-> r, query |-> streams[c].query, text |-> memory.answers[r].text]
<1>1. streams[c] \in Streams /\ StreamOK(streams[c]) /\ TableOK(streams[c])
      /\ streams[c].save \in {"open", "stored"}
  BY DEF ChatInv, TypesOK, StreamsOK, SaveTimesOut
<1>2. /\ streams[c].pc \in Saving /\ r \in Requests /\ streams[c].query \in Queries
      /\ r \in DOMAIN memory.answers /\ memory.answers[r].text = streams[c].view.text
      /\ streams[c].view.text \in Texts
  BY <1>1 DEF StreamOK, TableOK, HasKept, Streams, Views, Saving
<1>3. t \in Turns
  BY <1>2 DEF Turns
<1>4. t.req = r /\ t.text = memory.answers[r].text
  OBVIOUS
<1>5. \/ landing' = landing
      \/ landing' = {t} /\ session = "open" /\ TurnsOf(r) = {}
  BY DEF SaveTimesOut
<1> HIDE DEF t
<1>6. PICK s \in Streams : /\ Put(c, s) /\ s.save = "failed" /\ s.pc = streams[c].pc
                           /\ s.view = streams[c].view /\ s.shown = streams[c].shown
                           /\ s.gone = streams[c].gone /\ s.req = r /\ s.query = streams[c].query
  <2> DEFINE s == [streams[c] EXCEPT !.save = "failed"]
  <2>1. Put(c, s)
    BY <1>1 DEF SaveTimesOut, Put
  <2>2. /\ s \in Streams /\ s.save = "failed" /\ s.pc = streams[c].pc
        /\ s.view = streams[c].view /\ s.shown = streams[c].shown
        /\ s.gone = streams[c].gone /\ s.req = r /\ s.query = streams[c].query
    BY <1>1 DEF Streams
  <2> QED BY <2>1, <2>2
<1>7. StreamOK(s)
  BY <1>1, <1>2, <1>6 DEF StreamOK
<1>8. ASSUME NEW d \in Clients PROVE streams'[d] = IF d = c THEN s ELSE streams[d]
  BY <1>6 DEF Put, ChatInv, TypesOK
<1>9. UNCHANGED <<session, turns, memory, queue, generations>>
  BY DEF SaveTimesOut
<1>10. \A d \in Clients \ {c} : Agree(s, streams[d])
  BY <1>6 DEF ChatInv, StreamsOK, Agree
<1>11. ASSUME NEW d \in Clients PROVE TableOK(streams[d])'
  <2>1. CASE d = c
    BY <1>1, <1>2, <1>6, <1>8, <1>9, <2>1 DEF TableOK, HasKept, InTable, TurnsOf, Saving
  <2>2. CASE d # c
    BY <1>2, <1>4, <1>5, <1>8, <1>9, <2>2, TableGrows
  <2> QED BY <2>1, <2>2
<1>12. streams' \in [Clients -> Streams] /\ StreamsOK'
  BY <1>6, <1>7, <1>10, <1>11, StreamsFollow
<1>13. QueueOK'
  <2>1. Active(c) /\ Holds(c) /\ s.pc \notin {"idle", "waiting"}
    BY <1>2, <1>6 DEF Active, ChatInv, QueueOK, Saving
  <2> QED BY <1>6, <1>9, <2>1, LockKept
<1>14. TablesOK' /\ landing' \in SUBSET Turns
  <2>1. CASE landing' = landing
    BY <1>9, <2>1 DEF ChatInv, TypesOK, TablesOK, TurnsAreRemembered
  <2>2. CASE landing' = {t} /\ session = "open" /\ TurnsOf(r) = {}
    <3>1. \A u \in Range(turns) : u.req # t.req
      BY <1>4, <2>2 DEF TurnsOf
    <3>2. t.req \in DOMAIN memory.answers /\ memory.answers[t.req].text = t.text
          /\ t.req \in memory.heard
      BY <1>2, <1>4 DEF ChatInv, TablesOK
    <3> QED BY <1>3, <1>9, <2>2, <3>1, <3>2 DEF ChatInv, TypesOK, TablesOK, TurnsAreRemembered
  <2> QED BY <1>5, <2>1, <2>2
<1> QED BY <1>9, <1>12, <1>13, <1>14 DEF ChatInv, TypesOK

LEMMA LandingSettlesKeeps ==
  ASSUME ChatInv, NEW lands \in BOOLEAN, LandingSettles(lands)
  PROVE  ChatInv'
<1>1. PICK t \in landing : turns' = IF lands THEN Append(turns, t) ELSE turns
  BY DEF LandingSettles
<1>2. landing = {t} /\ landing' = {} /\ t \in Turns /\ t.req \in DOMAIN memory.answers
      /\ \A u \in Range(turns) : u.req # t.req
  BY <1>1 DEF ChatInv, TypesOK, TablesOK, LandingSettles
<1>3. UNCHANGED <<session, memory, queue, streams, generations>>
  BY DEF LandingSettles
<1>4. /\ turns' \in Seq(Turns) /\ Range(turns) \subseteq Range(turns)'
      /\ \A u \in Range(turns)' : u \in Range(turns) \/ u = t
      /\ \A i, j \in DOMAIN turns' : turns'[i].req = turns'[j].req => i = j
  <2>1. CASE lands
    BY <1>1, <1>2, <2>1, TurnAdded
  <2>2. CASE ~lands
    BY <1>1, <2>2 DEF ChatInv, TypesOK, TablesOK
  <2> QED BY <2>1, <2>2
<1>5. ASSUME NEW d \in Clients PROVE TableOK(streams[d])'
  BY <1>2, <1>3, <1>4, TableGrows
<1>6. StreamsOK'
  BY <1>3, <1>5 DEF ChatInv, StreamsOK, StreamOK, Agree
<1>7. QueueOK'
  BY <1>3 DEF ChatInv, QueueOK, Active, Holds
<1>8. TablesOK'
  BY <1>2, <1>3, <1>4 DEF ChatInv, TablesOK, TurnsAreRemembered
<1> QED BY <1>2, <1>3, <1>4, <1>6, <1>7, <1>8 DEF ChatInv, TypesOK

LEMMA PersistenceEndsKeeps ==
  ASSUME ChatInv, NEW c \in Clients, PersistenceEnds(c)
  PROVE  ChatInv'
<1>1. streams[c] \in Streams /\ StreamOK(streams[c]) /\ TableOK(streams[c])
      /\ streams[c].pc \in Saving /\ streams[c].view \in Views
      /\ streams[c].save \in {"stored", "failed"}
  BY DEF ChatInv, TypesOK, StreamsOK, PersistenceEnds, Saving, Streams
<1>2. Unmoved /\ queue' = Released(c) /\ Active(c)
  BY <1>1 DEF PersistenceEnds, Unmoved, Active, Saving
<1>3. CASE streams[c].gone
  <2>1. Put(c, NewStream)
    BY <1>3 DEF PersistenceEnds, Put
  <2> QED BY <1>2, <2>1, FirstStream, MoveKeeps
<1>4. CASE ~streams[c].gone
  <2> DEFINE view == [streams[c].view EXCEPT
                        !.persistence = IF streams[c].save = "stored" THEN "saved" ELSE "failed"]
             s == [streams[c] EXCEPT !.pc = "idle", !.save = "none", !.view = view, !.shown = view]
  <2>1. /\ view \in Views /\ view.status = "completed" /\ view.text = streams[c].view.text
        /\ view.persistence = IF streams[c].save = "stored" THEN "saved" ELSE "failed"
    BY <1>1 DEF Views, StreamOK, Saving
  <2>2. ApplyUpdate(streams[c].shown, streams[c].view, view) = view
    BY <1>1, <1>4, <2>1, ViewApplied DEF StreamOK
  <2>3. Put(c, s)
    <3>1. streams' = [streams EXCEPT ![c] =
                       [streams[c] EXCEPT !.pc = "idle", !.save = "none", !.view = view,
                                          !.shown = ApplyUpdate(streams[c].shown, streams[c].view, view)]]
      <4> DEFINE next == [streams[c] EXCEPT !.pc = "idle", !.save = "none", !.view = view,
                                            !.shown = ApplyUpdate(streams[c].shown, streams[c].view, view)]
      <4>1. streams' = [streams EXCEPT ![c] = IF streams[c].gone THEN NewStream ELSE next]
        BY DEF PersistenceEnds
      <4> HIDE DEF next
      <4>2. streams' = [streams EXCEPT ![c] = next]
        BY <1>4, <4>1
      <4> QED BY <4>2 DEF next
    <3> HIDE DEF view
    <3> QED BY <2>2, <3>1 DEF Put
  <2> HIDE DEF view
  <2>4. /\ s \in Streams /\ s.view = view /\ s.shown = view /\ s.pc = "idle" /\ s.save = "none"
        /\ s.gone = streams[c].gone /\ s.req = streams[c].req /\ s.query = streams[c].query
    BY <1>1, <2>1 DEF Streams
  <2> HIDE DEF s
  <2>5. StreamOK(s)
    BY <1>1, <1>4, <2>1, <2>4 DEF StreamOK, Saving
  <2>6. TableOK(s)
    BY <1>1, <2>1, <2>4 DEF TableOK, InTable, HasKept, Saving, StreamOK
  <2>7. \A d \in Clients \ {c} : Agree(s, streams[d])
    <3> SUFFICES ASSUME NEW d \in Clients \ {c} PROVE Agree(s, streams[d])
      OBVIOUS
    <3>1. Agree(streams[c], streams[d])
      BY DEF ChatInv, StreamsOK
    <3> QED BY <1>1, <2>1, <2>4, <3>1 DEF Agree, StreamOK
  <2> QED BY <1>2, <2>3, <2>4, <2>5, <2>6, <2>7, MoveKeeps
<1> QED BY <1>3, <1>4

LEMMA DisconnectKeeps ==
  ASSUME ChatInv, NEW c \in Clients, Disconnect(c)
  PROVE  ChatInv'
<1>1. streams[c] \in Streams /\ StreamOK(streams[c]) /\ TableOK(streams[c])
  BY DEF ChatInv, TypesOK, StreamsOK
<1>2. Unmoved /\ Active(c)
  BY DEF Disconnect, Unmoved
<1>3. CASE streams[c].pc \in Saving
  <2> DEFINE s == [streams[c] EXCEPT !.gone = TRUE]
  <2>1. Put(c, s) /\ queue' = queue
    BY <1>3 DEF Disconnect, Put, Saving
  <2>2. /\ s \in Streams /\ s.view = streams[c].view /\ s.pc = streams[c].pc /\ s.gone = TRUE
        /\ s.save = streams[c].save /\ s.req = streams[c].req /\ s.query = streams[c].query
    BY <1>1 DEF Streams
  <2> HIDE DEF s
  <2>3. StreamOK(s) /\ TableOK(s) /\ \A d \in Clients \ {c} : Agree(s, streams[d])
    <3>1. StreamOK(s)
      BY <1>1, <1>3, <2>2 DEF StreamOK
    <3>2. TableOK(s)
      BY <1>1, <2>2 DEF TableOK, InTable, HasKept
    <3>3. ASSUME NEW d \in Clients \ {c} PROVE Agree(s, streams[d])
      <4>1. Agree(streams[c], streams[d])
        BY DEF ChatInv, StreamsOK
      <4> QED BY <2>2, <4>1 DEF Agree
    <3> QED BY <3>1, <3>2, <3>3
  <2>4. Holds(c) /\ s.pc # "idle"
    BY <1>3, <2>2 DEF ChatInv, QueueOK, Saving
  <2> QED BY <1>2, <2>1, <2>2, <2>3, <2>4, MoveKeeps
<1>4. CASE streams[c].pc \notin Saving
  <2>1. Put(c, NewStream) /\ queue' = Released(c)
    BY <1>4 DEF Disconnect, Put, Saving
  <2> QED BY <1>2, <2>1, FirstStream, MoveKeeps
<1> QED BY <1>3, <1>4

LEMMA DeleteSessionKeeps ==
  ASSUME ChatInv, DeleteSession
  PROVE  ChatInv'
<1>1. session' = "deleted" /\ turns' = <<>> /\ landing = {}
      /\ UNCHANGED <<landing, memory, queue, streams, generations>>
  BY DEF DeleteSession
<1>2. turns' \in Seq(Turns) /\ Range(turns)' = {}
  BY <1>1 DEF Range
<1>3. StreamsOK'
  BY <1>1, <1>2 DEF ChatInv, StreamsOK, StreamOK, Agree, TableOK, HasKept
<1>4. QueueOK'
  BY <1>1 DEF ChatInv, QueueOK, Active, Holds
<1>5. TablesOK'
  BY <1>1, <1>2 DEF ChatInv, TablesOK, TurnsAreRemembered
<1> QED BY <1>1, <1>2, <1>3, <1>4, <1>5 DEF ChatInv, TypesOK

(* Nobody has a stream and nothing is remembered: at the start, and when   *)
(* the process starts again.                                               *)
Empty == streams = [c \in Clients |-> NewStream] /\ queue = <<>> /\ memory = NewMemory
NothingBegun ==
  /\ streams \in [Clients -> Streams] /\ queue \in Seq(Clients) /\ memory \in Memories
  /\ QueueOK /\ StreamsOK /\ DOMAIN memory.answers = {} /\ ~memory.bootstrapped

LEMMA NobodyThere == Empty => NothingBegun
<1> SUFFICES ASSUME Empty PROVE NothingBegun
  OBVIOUS
<1> USE DEF Empty
<1>1. /\ memory \in Memories /\ DOMAIN memory.answers = {} /\ ~memory.bootstrapped
  <2>1. Nothing \in [{} -> Queries] /\ Nothing \in [{} -> Kept] /\ DOMAIN Nothing = {}
    BY DEF Nothing
  <2>2. Nothing \in Partial(Queries) /\ Nothing \in Partial(Kept)
    BY <2>1 DEF Partial
  <2> QED BY <2>1, <2>2 DEF NewMemory, Memories
<1>2. \A c \in Clients : streams[c] = NewStream
  OBVIOUS
<1>3. StreamsOK
  BY <1>2, FirstStream DEF StreamsOK
<1>4. QueueOK
  <2>1. DOMAIN queue = {} /\ Range(queue) = {}
    BY DEF Range
  <2> QED BY <1>2, <2>1, FirstStream DEF QueueOK, Active, IsInjective
<1>5. streams \in [Clients -> Streams] /\ queue \in Seq(Clients)
  BY FirstStream
<1> QED BY <1>1, <1>3, <1>4, <1>5 DEF NothingBegun

LEMMA NobodyThereAgain == Empty' => NothingBegun'
BY NobodyThere, PTL

LEMMA ChatBegins == ProductInit => ChatInv
<1> SUFFICES ASSUME ProductInit PROVE ChatInv
  OBVIOUS
<1>1. /\ streams \in [Clients -> Streams] /\ queue \in Seq(Clients) /\ memory \in Memories
      /\ QueueOK /\ StreamsOK /\ DOMAIN memory.answers = {} /\ ~memory.bootstrapped
  BY NobodyThere DEF ProductInit, Empty, NothingBegun
<1>2. session = "open" /\ turns = <<>> /\ landing = {} /\ generations = 0
  BY DEF ProductInit
<1> QED BY <1>1, <1>2 DEF ChatInv, TypesOK, TablesOK, TurnsAreRemembered

LEMMA RestartKeeps ==
  ASSUME ChatInv, Restart
  PROVE  ChatInv'
<1>1. /\ memory' = NewMemory /\ queue' = <<>> /\ streams' = [c \in Clients |-> NewStream]
      /\ landing = {} /\ UNCHANGED <<session, turns, landing, generations>>
  BY DEF Restart
<1>2. /\ streams' \in [Clients -> Streams] /\ queue' \in Seq(Clients) /\ memory' \in Memories
      /\ QueueOK' /\ StreamsOK' /\ DOMAIN memory'.answers = {} /\ ~memory'.bootstrapped
  BY <1>1, NobodyThereAgain DEF Empty, NothingBegun
<1> QED BY <1>1, <1>2 DEF ChatInv, TypesOK, TablesOK, TurnsAreRemembered
-----------------------------------------------------------------------------
LEMMA ChatKeeps == ChatInv /\ [ProductNext]_productVars => ChatInv'
<1> SUFFICES ASSUME ChatInv, [ProductNext]_productVars PROVE ChatInv'
  OBVIOUS
<1>1. ASSUME NEW c \in Clients, NEW r \in Requests, NEW q \in Queries, StartStream(c, r, q)
      PROVE  ChatInv'
  BY <1>1, StartStreamKeeps
<1>2. ASSUME NEW c \in Clients, ServeStream(c) PROVE ChatInv'
  BY <1>2, AcquireKeeps, LookupFailsKeeps, ReplayKeeps, ResumeSaveKeeps, BeginTurnKeeps,
     StartPersistenceKeeps, PersistenceEndsKeeps DEF ServeStream
<1>3. ASSUME NEW c \in Clients, RuntimeStep(c) PROVE ChatInv'
  BY <1>3, RunningStepKeeps
<1>4. ASSUME NEW c \in Clients, RuntimeEnds(c) PROVE ChatInv'
  <2>1. ASSUME NEW final \in Finals(c), Complete(c, final) PROVE ChatInv'
    <3>1. final \in Texts
      <4>1. generations + 1 \in Nat
        BY DEF ChatInv, TypesOK
      <4>2. <<generations + 1>> \in Seq(Nat) /\ <<0, generations + 1>> \in Seq(Nat)
        BY <4>1
      <4>3. final = <<generations + 1>> \/ final = <<0, generations + 1>>
        BY <2>1 DEF Finals
      <4> QED BY <4>2, <4>3 DEF Texts
    <3> QED BY <2>1, <3>1, CompleteKeeps
  <2>2. ASSUME NEW how \in {"failed", "cancelled", "closed"}, RunBreaks(c, how) PROVE ChatInv'
    BY <2>2, RunBreaksKeeps
  <2> QED BY <1>4, <2>1, <2>2 DEF RuntimeEnds
<1>5. ASSUME NEW c \in Clients, SaveStep(c) PROVE ChatInv'
  BY <1>5, SaveCommitsKeeps, SaveFailsKeeps, SaveTimesOutKeeps DEF SaveStep
<1>6. ASSUME NEW c \in Clients, Disconnect(c) PROVE ChatInv'
  BY <1>6, DisconnectKeeps
<1>7. ASSUME NEW lands \in BOOLEAN, LandingSettles(lands) PROVE ChatInv'
  BY <1>7, LandingSettlesKeeps
<1>8. CASE DeleteSession
  BY <1>8, DeleteSessionKeeps
<1>9. CASE Restart
  BY <1>9, RestartKeeps
<1>10. CASE UNCHANGED productVars
  BY <1>10 DEF productVars, chatVars, ChatInv, TypesOK, QueueOK, StreamsOK, TablesOK, StreamOK,
     TableOK, InTable, HasKept, Agree, TurnsOf, Active, Holds, TurnsAreRemembered
<1> QED BY <1>1, <1>2, <1>3, <1>4, <1>5, <1>6, <1>7, <1>8, <1>9, <1>10 DEF ProductNext

LEMMA ChatInvariant == ProductSpec => []ChatInv
BY ChatBegins, ChatKeeps, PTL DEF ProductSpec

(* An answer that a view calls saved is in the table with the text and the *)
(* query of that view, whatever save of it timed out, failed or landed     *)
(* late, and nobody runs beside a save in flight, although its client may  *)
(* have gone (product/chat.py _persist_cached_answer, _wait_owned_save).   *)
THEOREM SavesHold == ProductSpec => []SavesAreTrue
<1>1. ChatInv => SavesAreTrue
  <2> SUFFICES ASSUME ChatInv PROVE SavesAreTrue
    OBVIOUS
  <2>1. Cardinality(landing) <= 1
    <3>1. Cardinality({}) = 0 /\ \A x : Cardinality({x}) = 1
      BY FS_EmptySet, FS_Singleton
    <3>2. landing = {} \/ \E t : landing = {t}
      BY DEF ChatInv, TablesOK
    <3>3. Cardinality(landing) = 0 \/ Cardinality(landing) = 1
      BY <3>1, <3>2
    <3> QED BY <3>3
  <2>2. Cardinality(Range(queue)) = Len(queue) /\ Range(queue) \subseteq Clients
    BY QueueCounts DEF ChatInv, TypesOK, QueueOK
  <2>3. \A c \in Clients : /\ streams[c].view.status \in Statuses
                           /\ streams[c].save \in {"none", "open", "stored", "failed"}
                           /\ Active(c) => c \in Range(queue)
    BY DEF ChatInv, TypesOK, Streams, Views, QueueOK
  <2>4. SavedMeansDurable
    BY DEF ChatInv, StreamsOK, TableOK, InTable, SavedMeansDurable
  <2>5. SaveOwnedByLock
    BY DEF ChatInv, StreamsOK, StreamOK, QueueOK, Saving, SaveOwnedByLock
  <2> QED BY <2>1, <2>2, <2>3, <2>4, <2>5 DEF SavesAreTrue, ProductTypeOK, ChatInv, TypesOK
<1> QED BY <1>1, ChatInvariant, PTL

(* A request has one answer, whatever is retried, replayed or resumed: one *)
(* turn, the same text for every client that sees it completed, and never  *)
(* a second run of the model; and no answer is computed without a turn the *)
(* product stored before (product/chat.py stream_turn_states,              *)
(* begin_request).                                                         *)
THEOREM AnswersHold == ProductSpec => []AnsweredOnceFromAll
<1>1. ChatInv => AnsweredOnceFromAll
  BY DEF ChatInv, StreamsOK, TablesOK, Agree, AnsweredOnceFromAll, OneAnswerPerRequest
<1> QED BY <1>1, ChatInvariant, PTL

(* Only a stream under way sends an update.                                *)
LEMMA WhoSends ==
  ASSUME ChatInv, ProductNext \/ UNCHANGED productVars, NEW c \in Clients
  PROVE  \/ streams'[c].view = streams[c].view
         \/ streams'[c].view.status = "none"
         \/ streams[c].pc # "idle" /\ ~streams[c].gone
<1>1. streams \in [Clients -> Streams] /\ NewStream.view.status = "none"
      /\ (streams[c].gone => streams[c].pc \in Saving)
  BY FirstViews DEF ChatInv, TypesOK, StreamsOK, StreamOK, NewStream
<1>2. ASSUME NEW d \in Clients,
             Acquire(d) \/ LookupFails(d) \/ Replay(d) \/ ResumeSave(d) \/ BeginTurn(d)
             \/ StartPersistence(d) \/ RuntimeStep(d) \/ RuntimeEnds(d)
      PROVE  \/ streams'[c].view = streams[c].view
             \/ streams[c].pc # "idle" /\ ~streams[c].gone
  BY <1>1, <1>2 DEF Acquire, LookupFails, Replay, ResumeSave, BeginTurn, StartPersistence,
     RuntimeStep, EnterAnswer, StartAnswer, AppendText, AttemptFails, chatVars, RuntimeEnds,
     Complete, RunBreaks, YieldLast, Yield, Saving, Streams
<1>3. ASSUME NEW d \in Clients, PersistenceEnds(d)
      PROVE  \/ streams'[c].view = streams[c].view \/ streams'[c].view.status = "none"
             \/ streams[c].pc # "idle" /\ ~streams[c].gone
  BY <1>1, <1>3 DEF PersistenceEnds
<1>4. ASSUME NEW d \in Clients, SaveStep(d) \/ Disconnect(d)
      PROVE  streams'[c].view = streams[c].view \/ streams'[c].view.status = "none"
  BY <1>1, <1>4 DEF SaveStep, SaveCommits, SaveFails, SaveTimesOut, Disconnect, Streams
<1>5. ASSUME NEW d \in Clients, NEW r \in Requests, NEW q \in Queries, StartStream(d, r, q)
      PROVE  streams'[c].view = streams[c].view \/ streams'[c].view.status = "none"
  BY <1>1, <1>5, FirstViews DEF StartStream, NewStream
<1>6. CASE (\E lands \in BOOLEAN : LandingSettles(lands)) \/ DeleteSession \/ UNCHANGED productVars
  BY <1>6 DEF LandingSettles, DeleteSession, productVars, chatVars
<1>7. CASE Restart
  BY <1>1, <1>7 DEF Restart
<1> QED BY <1>2, <1>3, <1>4, <1>5, <1>6, <1>7 DEF ProductNext, ServeStream

(* What a client built from the state operations, each applied to its own  *)
(* copy, is the server's view in every state of a stream whose client has  *)
(* not gone; and while the operations of an update arrive one by one it    *)
(* shows no attempt with another's text, no completed run without its      *)
(* final text and no saved answer that is not completed                    *)
(* (product/assistant_transport.py apply_product_state_update).            *)
THEOREM ClientsHold == ProductSpec => []ClientSeesTheView /\ UpdatesAreNeverTorn
<1>1. ChatInv => ClientSeesTheView
  BY DEF ChatInv, StreamsOK, StreamOK, ClientSeesTheView
<1>2. ASSUME ChatInv, ChatInv', [ProductNext]_productVars, NEW c \in Clients,
             streams[c].view.status # "none", streams'[c].view.status # "none",
             streams'[c].view # streams[c].view, NEW n \in 0..Len(RunFields)
      PROVE  LET before == streams[c].view
                 view   == streams'[c].view
                 partly == PartlyApplied(streams[c].shown, before, view, n)
             IN  /\ <<partly.attempt, partly.text>> \in
                      {<<before.attempt, before.text>>, <<view.attempt, view.text>>}
                 /\ partly.status = "completed" => partly.text = view.text
                 /\ partly.persistence = "saved" => partly.status = "completed"
  <2>1. streams[c].pc # "idle" /\ ~streams[c].gone
    BY <1>2, WhoSends
  <2>2. /\ streams[c].view \in Views /\ streams'[c].view \in Views
        /\ StreamOK(streams[c]) /\ (StreamOK(streams[c]))'
    BY <1>2 DEF ChatInv, TypesOK, Streams, StreamsOK
  <2>3. streams[c].shown = streams[c].view /\ streams[c].view.persistence # "saved"
    <3>1. streams[c].pc \in {"waiting", "lookup", "running"} \cup Saving
      BY <1>2, <2>1 DEF ChatInv, TypesOK, Streams, Saving
    <3> QED BY <2>1, <2>2, <3>1 DEF StreamOK
  <2>4. streams'[c].view.persistence = "saved" => streams'[c].view.status = "completed"
    BY <2>2 DEF StreamOK
  <2> QED BY <1>2, <2>2, <2>3, <2>4, NothingTorn
<1>3. ChatInv /\ ChatInv' /\ [ProductNext]_productVars =>
        [\A c \in Clients :
           LET before == streams[c].view
               view   == streams'[c].view
           IN before.status # "none" /\ view.status # "none" /\ view # before =>
                \A n \in 0..Len(RunFields) :
                  LET partly == PartlyApplied(streams[c].shown, before, view, n) IN
                  /\ <<partly.attempt, partly.text>> \in
                       {<<before.attempt, before.text>>, <<view.attempt, view.text>>}
                  /\ partly.status = "completed" => partly.text = view.text
                  /\ partly.persistence = "saved" => partly.status = "completed"]_productVars
  BY <1>2
<1> QED BY <1>1, <1>3, ChatInvariant, PTL DEF UpdatesAreNeverTorn, ProductSpec
=============================================================================
