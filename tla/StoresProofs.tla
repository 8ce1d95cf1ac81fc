----------------------------- MODULE StoresProofs -----------------------------
(***************************************************************************)
(* What the system keeps in files: the pictures and their records, the     *)
(* hero guides, the catalog a refresh makes of Valve's feed; for any       *)
(* number of teams, partitions, heroes, items and answers.                 *)
(*                                                                         *)
(* The invariant of the pictures says of the copy a refresh works on what  *)
(* the published files promise, and how it compares with the file it will  *)
(* replace.  That of the guides compares every time of a partition with    *)
(* the clock and with the worker's, for the partitions it has visited.     *)
(* That of the build says which answers are in before a thread's stage,    *)
(* which threads may be at work, and that what a thread waits for is       *)
(* queued or called.                                                       *)
(***************************************************************************)
EXTENDS MCStores, FiniteSetTheorems, TLAPS

-----------------------------------------------------------------------------
(* The pictures                                                            *)

Images   == [hash : Hashes \cup {NoHash}, patch : Nat]
TeamRows == [url : Urls \cup {NoUrl}, got : Urls \cup {NoUrl}, hash : Hashes \cup {NoHash}, month : Nat]

TeamJobs == {"import", "source", "teams"}
ImageWriters ==
  [job : {"images"}, data : [Entities -> Images], todo : SUBSET Entities, month : Nat]
TeamWriters ==
  [job : TeamJobs, data : [Teams -> TeamRows], todo : SUBSET Teams, month : Nat]

(* What the variables range over.  A file that is missing or damaged gives *)
(* no data.                                                                *)
DisplayTypes ==
  /\ assets \in [Hashes -> {"none", "whole", "bad"}]
  /\ manifest \in [state : {"good"}, data : [Entities -> Images]]
                    \cup {NoManifest, FileWith("bad", NoManifest.data)}
  /\ directory \in [state : {"good"}, data : [Teams -> TeamRows]]
                    \cup {NoDirectory, FileWith("bad", NoDirectory.data)}
  /\ month \in Nat
  /\ writer \in {NoWriter} \cup ImageWriters \cup TeamWriters
  /\ shown \in [images : SUBSET Hashes, teams : SUBSET Hashes]

(* Every picture that is named was stored; every team's was fetched.       *)
AreStored(hashes) == \A h \in hashes : assets[h] # "none"
CameAs(data) == \A t \in Teams : data[t].hash # NoHash => <<t, data[t].got, data[t].month>> \in fetched

(* The files and the readers name what was stored, and so does the copy a  *)
(* refresh works on.                                                       *)
NamesAreStored ==
  /\ AreStored(Pictures(manifest.data)) /\ AreStored(Pictures(directory.data))
  /\ AreStored(shown.images) /\ AreStored(shown.teams)
  /\ writer # NoWriter => AreStored(Pictures(writer.data))
  /\ CameAs(directory.data)
  /\ writer \in TeamWriters => CameAs(writer.data)

(* What a refresh will publish does not go behind the file it read.        *)
CopiesAreNewer ==
  /\ \A e \in Entities : manifest.data[e].patch <= month
  /\ writer \in ImageWriters =>
       /\ manifest.state # "bad" /\ writer.month <= month
       /\ \A e \in Entities : manifest.data[e].patch <= writer.data[e].patch
                              /\ writer.data[e].patch <= writer.month
  /\ writer \in TeamWriters =>
       /\ directory.state # "bad" /\ (writer.job = "import" => directory = NoDirectory)
       /\ \A t \in Teams : directory.data[t].hash # NoHash => writer.data[t].hash # NoHash

(* The inductive invariant of the pictures.                                *)
DisplayInv == DisplayTypes /\ NamesAreStored /\ CopiesAreNewer

(* A record that names no picture names none that is stored.               *)
LEMMA NoPictures == Pictures(NoManifest.data) = {} /\ Pictures(NoDirectory.data) = {}
BY DEF Pictures, NoManifest, NoDirectory, FileWith, NoImage, NoPicture

(* What data of a file is.                                                 *)
LEMMA FilesHaveData ==
  ASSUME DisplayTypes
  PROVE  /\ manifest.data \in [Entities -> Images] /\ directory.data \in [Teams -> TeamRows]
         /\ manifest = FileWith(manifest.state, manifest.data)
         /\ directory = FileWith(directory.state, directory.data)
         /\ manifest.state # "good" => manifest.data = NoManifest.data
         /\ directory.state # "good" => directory.data = NoDirectory.data
<1>1. NoManifest.data \in [Entities -> Images] /\ NoDirectory.data \in [Teams -> TeamRows]
  BY DEF NoManifest, NoDirectory, FileWith, NoImage, NoPicture, Images, TeamRows
<1>2. NoManifest.data = [e \in Entities |-> NoImage] /\ NoDirectory.data = [t \in Teams |-> NoPicture]
  BY DEF NoManifest, NoDirectory, FileWith
<1> QED BY <1>1, <1>2 DEF DisplayTypes, FileWith, NoManifest, NoDirectory

(* At first there are no files.                                            *)
LEMMA DisplayInitially == DisplayInit => DisplayInv
<1> SUFFICES ASSUME DisplayInit PROVE DisplayInv
  OBVIOUS
<1>1. DisplayTypes
  BY DEF DisplayInit, DisplayTypes
<1>2. NoWriter \notin ImageWriters /\ NoWriter \notin TeamWriters
  BY DEF NoWriter, ImageWriters, TeamWriters, TeamJobs
<1>3. NamesAreStored
  BY <1>2, NoPictures DEF DisplayInit, NamesAreStored, AreStored, CameAs, NoDirectory, FileWith, NoPicture
<1>4. CopiesAreNewer
  BY <1>2 DEF DisplayInit, CopiesAreNewer, NoManifest, FileWith, NoImage
<1> QED BY <1>1, <1>3, <1>4 DEF DisplayInv

(* Whoever writes is one of the two refreshes.                             *)
LEMMA WritersDiffer ==
  /\ NoWriter.job = "none"
  /\ \A w \in ImageWriters : w.job = "images" /\ w # NoWriter /\ w \notin TeamWriters
  /\ \A w \in TeamWriters : w.job \in TeamJobs /\ w # NoWriter /\ w \notin ImageWriters
  /\ NoWriter \notin ImageWriters /\ NoWriter \notin TeamWriters
BY DEF NoWriter, ImageWriters, TeamWriters, TeamJobs

(* What two records of one file have in common stays stored.               *)
LEMMA StoredOnes ==
  ASSUME NEW S, NEW data \in [S -> [hash : Hashes \cup {NoHash}, patch : Nat]]
                               \cup [S -> TeamRows]
  PROVE  /\ Pictures(data) \subseteq Hashes
         /\ \A h : h \in Pictures(data) <=> h # NoHash /\ \E x \in S : data[x].hash = h
BY DEF Pictures, TeamRows

(* A writer whose copy gets one more record.                               *)
LEMMA OneMore ==
  ASSUME NEW J, NEW S, NEW U, NEW w, NEW x \in S, NEW v \in U,
         w \in [job : J, data : [S -> U], todo : SUBSET S, month : Nat]
  PROVE  /\ [w EXCEPT !.data[x] = v, !.todo = @ \ {x}].data = [w.data EXCEPT ![x] = v]
         /\ [w EXCEPT !.data[x] = v, !.todo = @ \ {x}].month = w.month
         /\ [w EXCEPT !.data[x] = v, !.todo = @ \ {x}].job = w.job
         /\ [w EXCEPT !.data[x] = v, !.todo = @ \ {x}] \in
              [job : J, data : [S -> U], todo : SUBSET S, month : Nat]
         /\ [w EXCEPT !.todo = @ \ {x}, !.data[x] = v] = [w EXCEPT !.data[x] = v, !.todo = @ \ {x}]
OBVIOUS

(* The images' refresh works on its copy.                                  *)
LEMMA ImagesKeep ==
  ASSUME DisplayInv, NEW e \in Entities,
         ImageFails(e) \/ \E h \in Hashes : FetchImage(e, h)
  PROVE  DisplayInv'
<1>0. DisplayTypes /\ NamesAreStored /\ CopiesAreNewer
  BY DEF DisplayInv
<1>1. writer \in ImageWriters
  BY <1>0, WritersDiffer DEF ImageFails, FetchImage, DisplayTypes, TeamJobs
<1>2. CASE ImageFails(e)
  <2>1. writer' = [writer EXCEPT !.todo = @ \ {e}] /\ UNCHANGED <<assets, manifest, directory, month, shown, fetched>>
    BY <1>2 DEF ImageFails
  <2>2. writer' \in ImageWriters /\ writer'.data = writer.data /\ writer'.month = writer.month
    BY <1>1, <2>1 DEF ImageWriters
  <2>3. DisplayTypes'
    BY <1>0, <2>1, <2>2 DEF DisplayTypes
  <2>4. NamesAreStored'
    BY <1>0, <1>1, <2>1, <2>2, WritersDiffer DEF NamesAreStored, AreStored, CameAs
  <2>5. CopiesAreNewer'
    BY <1>0, <1>1, <2>1, <2>2, WritersDiffer DEF CopiesAreNewer
  <2> QED BY <2>3, <2>4, <2>5 DEF DisplayInv
<1>3. ASSUME NEW h \in Hashes, FetchImage(e, h) PROVE DisplayInv'
  <2>1. /\ writer' = [writer EXCEPT !.data[e] = [hash |-> h, patch |-> writer.month], !.todo = @ \ {e}]
        /\ assets' = [assets EXCEPT ![h] = "whole"]
        /\ UNCHANGED <<manifest, directory, month, shown, fetched>>
    BY <1>3 DEF FetchImage, StoreAsset
  <2>2. /\ writer' \in ImageWriters /\ writer'.month = writer.month
        /\ writer'.data = [writer.data EXCEPT ![e] = [hash |-> h, patch |-> writer.month]]
    <3>1. [hash |-> h, patch |-> writer.month] \in Images
      BY <1>1 DEF ImageWriters, Images
    <3> QED BY <1>1, <2>1, <3>1, OneMore DEF ImageWriters
  <2>3. DisplayTypes'
    BY <1>0, <2>1, <2>2 DEF DisplayTypes
  <2>4. \A S \in SUBSET Hashes : AreStored(S) => AreStored(S)'
    BY <1>0, <2>1 DEF AreStored, DisplayTypes
  <2>5. NamesAreStored'
    <3>1. writer.data \in [Entities -> Images]
      BY <1>1 DEF ImageWriters
    <3>2. Pictures(writer'.data) \subseteq Pictures(writer.data) \cup {h}
      BY <2>2, <3>1 DEF Pictures
    <3>3. AreStored(Pictures(writer.data))'
      BY <3>2, <2>1, <1>0, <1>1, WritersDiffer DEF NamesAreStored, AreStored, DisplayTypes
    <3>4. Pictures(manifest.data) \subseteq Hashes /\ Pictures(directory.data) \subseteq Hashes
      BY <1>0, FilesHaveData, StoredOnes DEF Images
    <3>5. shown.images \subseteq Hashes /\ shown.teams \subseteq Hashes
      BY <1>0 DEF DisplayTypes
    <3> QED BY <1>0, <2>1, <2>2, <2>4, <3>3, <3>4, <3>5, WritersDiffer DEF NamesAreStored, CameAs
  <2>6. CopiesAreNewer'
    <3>1. writer.data \in [Entities -> Images] /\ writer.month \in Nat
      BY <1>1 DEF ImageWriters
    <3>2. \A x \in Entities : manifest.data[x].patch \in Nat /\ writer.data[x].patch \in Nat
      BY <1>0, <3>1, FilesHaveData DEF Images
    <3>3. \A x \in Entities : writer'.data[x].patch \in {writer.data[x].patch, writer.month}
                               /\ (writer'.data[x].patch = writer.data[x].patch \/ x = e)
      BY <2>2, <3>1
    <3>4. \A a, b, c \in Nat : a <= b /\ b <= c => a <= c
      OBVIOUS
    <3>5. \A x \in Entities : manifest.data[x].patch <= writer'.data[x].patch
                               /\ writer'.data[x].patch <= writer'.month
      BY <1>0, <1>1, <2>2, <3>1, <3>2, <3>3, <3>4 DEF CopiesAreNewer
    <3> QED BY <1>0, <1>1, <2>1, <2>2, <3>5, WritersDiffer DEF CopiesAreNewer
  <2> QED BY <2>3, <2>5, <2>6 DEF DisplayInv
<1> QED BY <1>2, <1>3

(* A copy of the teams with one more record keeps what the copy promised.  *)
LEMMA TeamCopyKeeps ==
  ASSUME DisplayInv, writer \in TeamWriters, writer' \in TeamWriters,
         UNCHANGED <<manifest, directory, month, shown>>,
         assets' \in [Hashes -> {"none", "whole", "bad"}],
         \A h \in Hashes : assets[h] # "none" => assets'[h] # "none",
         fetched \subseteq fetched',
         writer'.job = "import" => writer.job = "import",
         \A t \in Teams :
           \/ /\ writer'.data[t].hash = writer.data[t].hash /\ writer'.data[t].got = writer.data[t].got
              /\ writer'.data[t].month = writer.data[t].month
           \/ /\ writer'.data[t].hash \in Hashes /\ assets'[writer'.data[t].hash] # "none"
              /\ <<t, writer'.data[t].got, writer'.data[t].month>> \in fetched'
           \/ writer'.data[t].hash = NoHash /\ writer.job = "import"
  PROVE  DisplayInv'
<1>0. DisplayTypes /\ NamesAreStored /\ CopiesAreNewer
  BY DEF DisplayInv
<1>1. DisplayTypes'
  BY <1>0 DEF DisplayTypes
<1>2. /\ Pictures(manifest.data) \subseteq Hashes /\ Pictures(directory.data) \subseteq Hashes
      /\ shown.images \subseteq Hashes /\ shown.teams \subseteq Hashes
  BY <1>0, FilesHaveData, StoredOnes DEF Images, DisplayTypes
<1>3. writer.data \in [Teams -> TeamRows] /\ writer'.data \in [Teams -> TeamRows]
  BY DEF TeamWriters
<1>4. \A S \in SUBSET Hashes : AreStored(S) => AreStored(S)'
  BY DEF AreStored
<1>5. AreStored(Pictures(writer.data))'
  <2> SUFFICES ASSUME NEW h \in Pictures(writer'.data) PROVE assets'[h] # "none"
    BY DEF AreStored
  <2>1. PICK t \in Teams : writer'.data[t].hash = h /\ h # NoHash /\ h \in Hashes
    BY <1>3, StoredOnes
  <2>2. CASE writer'.data[t].hash = writer.data[t].hash
    <3>1. h \in Pictures(writer.data)
      BY <2>1, <2>2, <1>3, StoredOnes
    <3> QED BY <3>1, <2>1, <1>0, WritersDiffer DEF NamesAreStored, AreStored
  <2> QED BY <2>1, <2>2
<1>6. CameAs(writer.data)'
  <2>1. CameAs(writer.data)
    BY <1>0 DEF NamesAreStored
  <2> QED BY <2>1 DEF CameAs
<1>7. NamesAreStored'
  <2>1. AreStored(Pictures(manifest.data))' /\ AreStored(Pictures(directory.data))'
        /\ AreStored(shown.images)' /\ AreStored(shown.teams)'
    BY <1>0, <1>2, <1>4 DEF NamesAreStored
  <2>2. CameAs(directory.data)'
    BY <1>0 DEF NamesAreStored, CameAs
  <2> QED BY <2>1, <2>2, <1>5, <1>6 DEF NamesAreStored
<1>8. CopiesAreNewer'
  <2>1. \A t \in Teams : directory.data[t].hash # NoHash => writer'.data[t].hash # NoHash
    <3>1. writer.job = "import" => \A t \in Teams : directory.data[t].hash = NoHash
      BY <1>0 DEF CopiesAreNewer, NoDirectory, FileWith, NoPicture
    <3>2. NoHash \notin Hashes
      BY DisplayAssumption
    <3> QED BY <1>0, <3>1, <3>2 DEF CopiesAreNewer
  <2> QED BY <1>0, <2>1, WritersDiffer DEF CopiesAreNewer
<1> QED BY <1>1, <1>7, <1>8 DEF DisplayInv

(* The teams' refresh works on its copy.                                   *)
LEMMA TeamsKeep ==
  ASSUME DisplayInv,
         \/ ReadSource
         \/ \E t \in Teams : TeamFails(t) \/ \E h \in Hashes : FetchTeam(t, h)
         \/ \E t \in Teams, h \in Hashes \cup {NoHash}, u \in Urls : ImportTeam(t, h, u)
  PROVE  DisplayInv'
<1>0. DisplayTypes /\ NamesAreStored /\ CopiesAreNewer
  BY DEF DisplayInv
<1>1. writer \in TeamWriters
  BY <1>0, WritersDiffer
     DEF ReadSource, TeamFails, FetchTeam, ImportTeam, DisplayTypes, TeamJobs
<1>2. writer.data \in [Teams -> TeamRows] /\ writer.month \in Nat /\ writer.todo \subseteq Teams
  BY <1>1 DEF TeamWriters
<1>3. CASE ReadSource
  <2>1. PICK seen \in SUBSET Teams : \E urls \in [seen -> Urls \cup {NoUrl}] :
       LET data == [t \in Teams |-> IF t \in seen THEN [writer.data[t] EXCEPT !.url = urls[t]]
                                    ELSE writer.data[t]]
       IN  writer' = [writer EXCEPT !.job = "teams", !.data = data,
             !.todo = {t \in seen : urls[t] # NoUrl /\ MustDownload(data[t], writer.month)}]
    BY <1>3 DEF ReadSource
  <2>2. PICK urls \in [seen -> Urls \cup {NoUrl}] :
       LET data == [t \in Teams |-> IF t \in seen THEN [writer.data[t] EXCEPT !.url = urls[t]]
                                    ELSE writer.data[t]]
       IN  writer' = [writer EXCEPT !.job = "teams", !.data = data,
             !.todo = {t \in seen : urls[t] # NoUrl /\ MustDownload(data[t], writer.month)}]
    BY <2>1
  <2> DEFINE data == [t \in Teams |-> IF t \in seen THEN [writer.data[t] EXCEPT !.url = urls[t]]
                                      ELSE writer.data[t]]
  <2>3. data \in [Teams -> TeamRows]
    BY <2>2, <1>2 DEF TeamRows
  <2>4. \A t \in Teams : /\ data[t].hash = writer.data[t].hash /\ data[t].got = writer.data[t].got
                         /\ data[t].month = writer.data[t].month
    BY <2>2, <1>2 DEF TeamRows
  <2>5. writer' \in TeamWriters /\ writer'.data = data /\ writer'.job = "teams"
    <3>1. writer' = [writer EXCEPT !.job = "teams", !.data = data,
             !.todo = {t \in seen : urls[t] # NoUrl /\ MustDownload(data[t], writer.month)}]
      BY <2>2
    <3> HIDE DEF data
    <3> QED BY <3>1, <2>3, <1>1 DEF TeamWriters, TeamJobs
  <2>6. UNCHANGED <<assets, manifest, directory, month, shown, fetched>>
    BY <1>3 DEF ReadSource
  <2> HIDE DEF data
  <2> QED BY <1>0, <1>1, <2>4, <2>5, <2>6, TeamCopyKeeps DEF DisplayTypes
<1>4. ASSUME NEW t \in Teams, TeamFails(t) PROVE DisplayInv'
  <2>1. writer' \in TeamWriters /\ writer'.data = writer.data /\ writer'.job = writer.job
    BY <1>4, <1>1 DEF TeamFails, TeamWriters
  <2>2. UNCHANGED <<assets, manifest, directory, month, shown, fetched>>
    BY <1>4 DEF TeamFails
  <2> QED BY <1>0, <1>1, <2>1, <2>2, TeamCopyKeeps DEF DisplayTypes
<1>5. ASSUME NEW t \in Teams, NEW h \in Hashes, FetchTeam(t, h) PROVE DisplayInv'
  <2> DEFINE u == writer.data[t].url
             row == [url |-> u, got |-> u, hash |-> h, month |-> writer.month]
  <2>1. row \in TeamRows /\ writer' = [writer EXCEPT !.data[t] = row, !.todo = @ \ {t}]
    <3>1. row \in TeamRows
      BY <1>2 DEF TeamRows
    <3>2. writer' = [writer EXCEPT !.todo = @ \ {t}, !.data[t] = row]
      BY <1>5 DEF FetchTeam
    <3> HIDE DEF row
    <3> QED BY <1>1, <3>1, <3>2, OneMore DEF TeamWriters
  <2>6. row.hash = h /\ row.got = u /\ row.month = writer.month
    OBVIOUS
  <2>2. writer' \in TeamWriters /\ writer'.data = [writer.data EXCEPT ![t] = row] /\ writer'.job = writer.job
    BY <1>1, <2>1, OneMore DEF TeamWriters
  <2>3. /\ UNCHANGED <<manifest, directory, month, shown>>
        /\ assets' = [assets EXCEPT ![h] = "whole"]
        /\ fetched' = fetched \cup {<<t, u, writer.month>>}
    BY <1>5 DEF FetchTeam, StoreAsset
  <2> HIDE DEF u, row
  <2>4. /\ assets' \in [Hashes -> {"none", "whole", "bad"}] /\ assets'[h] = "whole"
        /\ \A g \in Hashes : assets[g] # "none" => assets'[g] # "none"
    BY <1>0, <2>3 DEF DisplayTypes
  <2>5. \A s \in Teams : writer'.data[s] = (IF s = t THEN row ELSE writer.data[s])
    BY <2>2, <1>2
  <2> QED BY ONLY DisplayInv, <1>1, <2>2, <2>3, <2>4, <2>5, <2>6, h \in Hashes, TeamCopyKeeps
<1>6. ASSUME NEW t \in Teams, NEW h \in Hashes \cup {NoHash}, NEW u \in Urls, ImportTeam(t, h, u)
      PROVE  DisplayInv'
  <2> DEFINE g == IF h = NoHash THEN NoUrl ELSE u
             row == [url |-> u, got |-> g, hash |-> h, month |-> 0]
  <2>1. row \in TeamRows /\ writer' = [writer EXCEPT !.data[t] = row, !.todo = @ \ {t}]
    <3>1. row \in TeamRows
      BY DEF TeamRows
    <3>2. writer' = [writer EXCEPT !.todo = @ \ {t}, !.data[t] = row]
      BY <1>6 DEF ImportTeam
    <3> HIDE DEF row
    <3> QED BY <1>1, <3>1, <3>2, OneMore DEF TeamWriters
  <2>7. row.hash = h /\ row.got = g /\ row.month = 0 /\ (h # NoHash => g = u)
    OBVIOUS
  <2> HIDE DEF g, row
  <2>2. writer' \in TeamWriters /\ writer'.data = [writer.data EXCEPT ![t] = row] /\ writer'.job = writer.job
    BY <1>1, <2>1, OneMore DEF TeamWriters
  <2>3. /\ UNCHANGED <<manifest, directory, month, shown>> /\ writer.job = "import"
        /\ IF h = NoHash THEN UNCHANGED <<assets, fetched>>
           ELSE assets' = [assets EXCEPT ![h] = "whole"] /\ fetched' = fetched \cup {<<t, u, 0>>}
    BY <1>6 DEF ImportTeam, StoreAsset
  <2>4. /\ assets' \in [Hashes -> {"none", "whole", "bad"}] /\ (h # NoHash => assets'[h] = "whole")
        /\ \A x \in Hashes : assets[x] # "none" => assets'[x] # "none"
        /\ fetched \subseteq fetched'
    BY <1>0, <2>3 DEF DisplayTypes
  <2>5. \A s \in Teams : writer'.data[s] = (IF s = t THEN row ELSE writer.data[s])
    BY <2>2, <1>2
  <2>6. row.hash = h /\ row.got = g /\ row.month = 0 /\ (h # NoHash => <<t, row.got, row.month>> \in fetched')
    BY <2>7, <2>3
  <2> QED BY ONLY DisplayInv, <1>1, <2>2, <2>3, <2>4, <2>5, <2>6, h \in Hashes \cup {NoHash}, TeamCopyKeeps
<1> QED BY <1>3, <1>4, <1>5, <1>6

(* A refresh begins with what its file says.                               *)
LEMMA BeginsKeep ==
  ASSUME DisplayInv, BeginTeams \/ \E f \in BOOLEAN : BeginImages(f)
  PROVE  DisplayInv'
<1>0. DisplayTypes /\ NamesAreStored /\ CopiesAreNewer
  BY DEF DisplayInv
<1>1. /\ manifest.data \in [Entities -> Images] /\ directory.data \in [Teams -> TeamRows] /\ month \in Nat
      /\ directory.state = "none" => directory = NoDirectory
  BY <1>0, FilesHaveData DEF DisplayTypes, NoDirectory, FileWith
<1>2. ASSUME BeginTeams PROVE DisplayInv'
  <2>1. /\ writer' = [job |-> IF directory.state = "none" THEN "import" ELSE "source",
                      data |-> directory.data, month |-> month,
                      todo |-> IF directory.state = "none" THEN Legacy ELSE {}]
        /\ directory.state # "bad" /\ UNCHANGED <<assets, manifest, directory, month, shown, fetched>>
    BY <1>2 DEF BeginTeams
  <2>2. writer' \in TeamWriters /\ writer'.data = directory.data
        /\ (writer'.job = "import" => directory.state = "none")
    BY <2>1, <1>1, DisplayAssumption DEF TeamWriters, TeamJobs
  <2>3. DisplayTypes'
    BY <1>0, <2>1, <2>2 DEF DisplayTypes
  <2>4. NamesAreStored'
    BY <1>0, <2>1, <2>2, WritersDiffer DEF NamesAreStored, AreStored, CameAs
  <2>5. CopiesAreNewer'
    BY <1>0, <1>1, <2>1, <2>2, WritersDiffer DEF CopiesAreNewer
  <2> QED BY <2>3, <2>4, <2>5 DEF DisplayInv
<1>3. ASSUME NEW f \in BOOLEAN, BeginImages(f) PROVE DisplayInv'
  <2>1. /\ manifest.state # "bad" /\ UNCHANGED <<assets, manifest, directory, month, shown, fetched>>
        /\ \E T \in SUBSET Entities :
             writer' = [job |-> "images", data |-> manifest.data, month |-> month, todo |-> T]
    BY <1>3 DEF BeginImages
  <2>2. writer' \in ImageWriters /\ writer'.data = manifest.data /\ writer'.month = month
    BY <2>1, <1>1 DEF ImageWriters
  <2>3. DisplayTypes'
    BY <1>0, <2>1, <2>2 DEF DisplayTypes
  <2>4. NamesAreStored'
    BY <1>0, <2>1, <2>2, WritersDiffer DEF NamesAreStored, AreStored, CameAs
  <2>5. CopiesAreNewer'
    <3>1. \A e \in Entities : manifest.data[e].patch \in Nat
      BY <1>1 DEF Images
    <3>2. \A a \in Nat : a <= a
      OBVIOUS
    <3> QED BY <1>0, <1>1, <2>1, <2>2, <3>1, <3>2, WritersDiffer DEF CopiesAreNewer
  <2> QED BY <2>3, <2>4, <2>5 DEF DisplayInv
<1> QED BY <1>2, <1>3

(* A refresh publishes its copy.                                           *)
LEMMA PublishesKeep ==
  ASSUME DisplayInv, PublishManifest \/ PublishTeams \/ PublishImported
  PROVE  DisplayInv'
<1>0. DisplayTypes /\ NamesAreStored /\ CopiesAreNewer
  BY DEF DisplayInv
<1>1. ASSUME PublishManifest PROVE DisplayInv'
  <2>1. writer \in ImageWriters
    BY <1>0, <1>1, WritersDiffer DEF PublishManifest, DisplayTypes, TeamJobs
  <2>2. /\ manifest' = [state |-> "good", data |-> writer.data] /\ writer' = NoWriter
        /\ UNCHANGED <<assets, directory, month, shown, fetched>>
    BY <1>1 DEF PublishManifest, FileWith
  <2>3. writer.data \in [Entities -> Images] /\ writer.month \in Nat /\ month \in Nat
    BY <1>0, <2>1 DEF ImageWriters, DisplayTypes
  <2>4. DisplayTypes'
    BY <1>0, <2>2, <2>3 DEF DisplayTypes
  <2>5. NamesAreStored'
    BY <1>0, <2>1, <2>2, WritersDiffer DEF NamesAreStored, AreStored, CameAs
  <2>6. CopiesAreNewer'
    <3>1. \A e \in Entities : writer.data[e].patch \in Nat
      BY <2>3 DEF Images
    <3>2. \A a, b, c \in Nat : a <= b /\ b <= c => a <= c
      OBVIOUS
    <3>3. \A e \in Entities : writer.data[e].patch <= month
      BY <1>0, <2>1, <2>3, <3>1, <3>2 DEF CopiesAreNewer
    <3> QED BY <1>0, <2>2, <3>3, WritersDiffer DEF CopiesAreNewer
  <2> QED BY <2>4, <2>5, <2>6 DEF DisplayInv
<1>2. ASSUME PublishTeams PROVE DisplayInv'
  <2>1. writer \in TeamWriters
    BY <1>0, <1>2, WritersDiffer DEF PublishTeams, DisplayTypes, TeamJobs
  <2>2. /\ directory' = [state |-> "good", data |-> writer.data] /\ writer' = NoWriter
        /\ UNCHANGED <<assets, manifest, month, shown, fetched>>
    BY <1>2 DEF PublishTeams, FileWith
  <2>3. writer.data \in [Teams -> TeamRows]
    BY <2>1 DEF TeamWriters
  <2>4. DisplayTypes'
    BY <1>0, <2>2, <2>3 DEF DisplayTypes
  <2>5. NamesAreStored'
    BY <1>0, <2>1, <2>2, WritersDiffer DEF NamesAreStored, AreStored, CameAs
  <2>6. CopiesAreNewer'
    BY <1>0, <2>2, WritersDiffer DEF CopiesAreNewer
  <2> QED BY <2>4, <2>5, <2>6 DEF DisplayInv
<1>3. ASSUME PublishImported PROVE DisplayInv'
  <2>1. writer \in TeamWriters
    BY <1>0, <1>3, WritersDiffer DEF PublishImported, DisplayTypes, TeamJobs
  <2>2. /\ directory' = [state |-> "good", data |-> writer.data] /\ writer' = [writer EXCEPT !.job = "source"]
        /\ shown' = [shown EXCEPT !.teams = Pictures(writer.data)]
        /\ UNCHANGED <<assets, manifest, month, fetched>>
    BY <1>3 DEF PublishImported, FileWith
  <2>3. writer.data \in [Teams -> TeamRows]
    BY <2>1 DEF TeamWriters
  <2>4. writer' \in TeamWriters /\ writer'.data = writer.data /\ writer'.job = "source"
    BY <2>1, <2>2 DEF TeamWriters, TeamJobs
  <2>5. shown'.images = shown.images /\ shown'.teams = Pictures(writer.data)
        /\ shown' \in [images : SUBSET Hashes, teams : SUBSET Hashes]
    BY <1>0, <2>2, <2>3, StoredOnes DEF DisplayTypes
  <2>6. DisplayTypes'
    BY <1>0, <2>2, <2>3, <2>4, <2>5 DEF DisplayTypes
  <2>7. NamesAreStored'
    BY <1>0, <2>1, <2>2, <2>4, <2>5, WritersDiffer DEF NamesAreStored, AreStored, CameAs
  <2>8. CopiesAreNewer'
    BY <1>0, <2>2, <2>4, WritersDiffer DEF CopiesAreNewer
  <2> QED BY <2>6, <2>7, <2>8 DEF DisplayInv
<1> QED BY <1>1, <1>2, <1>3

(* Readers, months, and what harms the files.                              *)
LEMMA OthersKeep ==
  ASSUME DisplayInv,
         \/ AbandonRefresh \/ ReadManifest \/ ReadDirectory \/ RestartReaders \/ NextMonth
         \/ DamageFile \/ UNCHANGED displayVars
  PROVE  DisplayInv'
<1>0. DisplayTypes /\ NamesAreStored /\ CopiesAreNewer
  BY DEF DisplayInv
<1>1. CASE AbandonRefresh
  <2>1. writer' = NoWriter /\ UNCHANGED <<assets, manifest, directory, month, shown, fetched>>
    BY <1>1 DEF AbandonRefresh
  <2> QED BY <1>0, <2>1, WritersDiffer
          DEF DisplayInv, DisplayTypes, NamesAreStored, CopiesAreNewer, AreStored, CameAs
<1>2. CASE ReadManifest \/ ReadDirectory \/ RestartReaders
  <2>1. UNCHANGED <<assets, manifest, directory, month, writer, fetched>>
    BY <1>2 DEF ReadManifest, ReadDirectory, RestartReaders
  <2>2. Pictures(manifest.data) \subseteq Hashes /\ Pictures(directory.data) \subseteq Hashes
    BY <1>0, FilesHaveData, StoredOnes DEF Images
  <2>3. /\ shown' \in [images : SUBSET Hashes, teams : SUBSET Hashes]
        /\ shown'.images \in {shown.images, Pictures(manifest.data), {}}
        /\ shown'.teams \in {shown.teams, Pictures(directory.data), {}}
    BY <1>0, <1>2, <2>2 DEF ReadManifest, ReadDirectory, RestartReaders, DisplayTypes
  <2>4. DisplayTypes' /\ CopiesAreNewer'
    BY <1>0, <2>1, <2>3 DEF DisplayTypes, CopiesAreNewer
  <2>5. AreStored({}) /\ AreStored(shown.images)' /\ AreStored(shown.teams)'
    BY <1>0, <2>1, <2>3 DEF NamesAreStored, AreStored
  <2>6. NamesAreStored'
    BY <1>0, <2>1, <2>5 DEF NamesAreStored, AreStored, CameAs
  <2> QED BY <2>4, <2>6 DEF DisplayInv
<1>3. CASE NextMonth
  <2>1. month' = month + 1 /\ UNCHANGED <<assets, manifest, directory, writer, shown, fetched>>
    BY <1>3 DEF NextMonth
  <2>2. DisplayTypes' /\ NamesAreStored'
    BY <1>0, <2>1 DEF DisplayTypes, NamesAreStored, AreStored, CameAs
  <2>3. \A a \in Nat : a <= month => a <= month + 1
    BY <1>0 DEF DisplayTypes
  <2>4. \A e \in Entities : manifest.data[e].patch \in Nat
    BY <1>0, FilesHaveData DEF Images
  <2>5. writer \in ImageWriters => writer.month \in Nat
    BY DEF ImageWriters
  <2>6. CopiesAreNewer'
    BY <1>0, <2>1, <2>3, <2>4, <2>5 DEF CopiesAreNewer
  <2> QED BY <2>2, <2>6 DEF DisplayInv
<1>4. CASE DamageFile
  <2>1. UNCHANGED <<month, writer, shown, fetched>>
    BY <1>4 DEF DamageFile
  <2>2. CASE /\ \E h \in Hashes : assets[h] = "whole" /\ assets' = [assets EXCEPT ![h] = "bad"]
             /\ UNCHANGED <<manifest, directory>>
    <3>1. assets' \in [Hashes -> {"none", "whole", "bad"}]
          /\ \A S \in SUBSET Hashes : AreStored(S) => AreStored(S)'
      BY <1>0, <2>2 DEF DisplayTypes, AreStored
    <3>2. Pictures(manifest.data) \subseteq Hashes /\ Pictures(directory.data) \subseteq Hashes
          /\ shown.images \subseteq Hashes /\ shown.teams \subseteq Hashes
      BY <1>0, FilesHaveData, StoredOnes DEF Images, DisplayTypes
    <3>3. writer # NoWriter => Pictures(writer.data) \subseteq Hashes
      BY <1>0, StoredOnes DEF DisplayTypes, ImageWriters, TeamWriters, Images
    <3>4. DisplayTypes' /\ CopiesAreNewer'
      BY <1>0, <2>1, <2>2, <3>1 DEF DisplayTypes, CopiesAreNewer
    <3>5. NamesAreStored'
      BY <1>0, <2>1, <2>2, <3>1, <3>2, <3>3 DEF NamesAreStored, CameAs
    <3> QED BY <3>4, <3>5 DEF DisplayInv
  <2>3. CASE /\ writer.job = "none" /\ manifest' = FileWith("bad", NoManifest.data)
             /\ UNCHANGED <<assets, directory>>
    <3>1. writer = NoWriter
      BY <1>0, <2>3, WritersDiffer DEF DisplayTypes, TeamJobs
    <3>2. manifest'.data = NoManifest.data
      BY <2>3 DEF FileWith
    <3>3. DisplayTypes'
      BY <1>0, <2>1, <2>3 DEF DisplayTypes
    <3>4. NamesAreStored'
      BY <1>0, <2>1, <2>3, <3>1, <3>2, NoPictures, WritersDiffer DEF NamesAreStored, AreStored, CameAs
    <3>5. \A e \in Entities : manifest'.data[e].patch = 0
      BY <3>2 DEF NoManifest, FileWith, NoImage
    <3>6. CopiesAreNewer'
      BY <1>0, <2>1, <2>3, <3>1, <3>5, WritersDiffer DEF CopiesAreNewer, DisplayTypes
    <3> QED BY <3>3, <3>4, <3>6 DEF DisplayInv
  <2>4. CASE /\ writer.job = "none" /\ directory' = FileWith("bad", NoDirectory.data)
             /\ UNCHANGED <<assets, manifest>>
    <3>1. writer = NoWriter
      BY <1>0, <2>4, WritersDiffer DEF DisplayTypes, TeamJobs
    <3>2. directory'.data = NoDirectory.data
      BY <2>4 DEF FileWith
    <3>3. DisplayTypes'
      BY <1>0, <2>1, <2>4 DEF DisplayTypes
    <3>4. CameAs(NoDirectory.data)'
      BY DEF CameAs, NoDirectory, FileWith, NoPicture
    <3>5. NamesAreStored'
      BY <1>0, <2>1, <2>4, <3>1, <3>2, <3>4, NoPictures, WritersDiffer DEF NamesAreStored, AreStored, CameAs
    <3>6. CopiesAreNewer'
      BY <1>0, <2>1, <2>4, <3>1, WritersDiffer DEF CopiesAreNewer
    <3> QED BY <3>3, <3>5, <3>6 DEF DisplayInv
  <2> QED BY <1>4, <2>2, <2>3, <2>4 DEF DamageFile
<1>5. CASE UNCHANGED displayVars
  BY <1>0, <1>5 DEF displayVars, DisplayInv, DisplayTypes, NamesAreStored, CopiesAreNewer, AreStored, CameAs
<1> QED BY <1>1, <1>2, <1>3, <1>4, <1>5

(* The invariant is inductive.                                             *)
LEMMA DisplayStep == DisplayInv /\ [DisplayNext]_displayVars => DisplayInv'
BY ImagesKeep, TeamsKeep, BeginsKeep, PublishesKeep, OthersKeep DEF DisplayNext

(* What one step of the pictures may do to the files.                      *)
PicturesStep ==
  /\ directory.state = "bad" => directory' = directory
  /\ manifest.state = "bad" => manifest' = manifest
  /\ directory'.state = "good" =>
       \A t \in Teams : directory.data[t].hash # NoHash => directory'.data[t].hash # NoHash
  /\ manifest'.state = "good" =>
       \A e \in Entities : manifest.data[e] # NoImage =>
                             manifest'.data[e].patch >= manifest.data[e].patch

(* A step that keeps both files does neither harm.                         *)
LEMMA KeptFilesStay == DisplayInv /\ UNCHANGED <<manifest, directory>> => PicturesStep
<1> SUFFICES ASSUME DisplayInv, UNCHANGED <<manifest, directory>> PROVE PicturesStep
  OBVIOUS
<1>1. \A e \in Entities : manifest.data[e].patch \in Nat
  BY FilesHaveData DEF DisplayInv, Images
<1>2. \A a \in Nat : a >= a
  OBVIOUS
<1> QED BY <1>1, <1>2 DEF PicturesStep

(* No step takes a picture back or writes over a damaged file.             *)
LEMMA PicturesStayInStep == DisplayInv /\ [DisplayNext]_displayVars => PicturesStep
<1> SUFFICES ASSUME DisplayInv, [DisplayNext]_displayVars PROVE PicturesStep
  OBVIOUS
<1>0. DisplayTypes /\ CopiesAreNewer
  BY DEF DisplayInv
<1>1. CASE UNCHANGED <<manifest, directory>>
  BY <1>1, KeptFilesStay
<1>2. CASE PublishManifest
  <2>1. writer \in ImageWriters
    BY <1>0, <1>2, WritersDiffer DEF PublishManifest, DisplayTypes, TeamJobs
  <2>2. /\ manifest'.data = writer.data /\ manifest'.state = "good"
        /\ UNCHANGED directory
    BY <1>2 DEF PublishManifest, FileWith
  <2>3. \A e \in Entities : manifest.data[e].patch \in Nat /\ writer.data[e].patch \in Nat
    BY <1>0, <2>1, FilesHaveData DEF Images, ImageWriters
  <2>4. \A a, b \in Nat : a <= b => b >= a
    OBVIOUS
  <2> QED BY <1>0, <2>1, <2>2, <2>3, <2>4 DEF CopiesAreNewer, PicturesStep
<1>3. CASE PublishTeams \/ PublishImported
  <2>1. writer \in TeamWriters
    BY <1>0, <1>3, WritersDiffer DEF PublishTeams, PublishImported, DisplayTypes, TeamJobs
  <2>2. directory'.data = writer.data /\ UNCHANGED manifest
    BY <1>3 DEF PublishTeams, PublishImported, FileWith
  <2>3. \A e \in Entities : manifest.data[e].patch \in Nat
    BY <1>0, FilesHaveData DEF Images
  <2>4. \A a \in Nat : a >= a
    OBVIOUS
  <2> QED BY <1>0, <2>1, <2>2, <2>3, <2>4 DEF CopiesAreNewer, PicturesStep
<1>4. CASE DamageFile
  <2>1. \/ UNCHANGED <<manifest, directory>>
        \/ manifest' = FileWith("bad", NoManifest.data) /\ UNCHANGED directory
        \/ directory' = FileWith("bad", NoDirectory.data) /\ UNCHANGED manifest
    BY <1>4 DEF DamageFile
  <2>2. \A e \in Entities : manifest.data[e].patch \in Nat
    BY <1>0, FilesHaveData DEF Images
  <2>3. \A a \in Nat : a >= a
    OBVIOUS
  <2>4. /\ manifest.state = "bad" => manifest = FileWith("bad", NoManifest.data)
        /\ directory.state = "bad" => directory = FileWith("bad", NoDirectory.data)
    BY <1>0, FilesHaveData
  <2>5. FileWith("bad", NoManifest.data).state = "bad" /\ FileWith("bad", NoDirectory.data).state = "bad"
    BY DEF FileWith
  <2> QED BY <2>1, <2>2, <2>3, <2>4, <2>5 DEF PicturesStep
<1> QED
  BY <1>1, <1>2, <1>3, <1>4
     DEF DisplayNext, displayVars, BeginImages, ImageFails, FetchImage, TeamFails, FetchTeam, ImportTeam,
         BeginTeams, ReadSource, AbandonRefresh, ReadManifest, ReadDirectory, RestartReaders, NextMonth

(* What the readers need follows from the invariant.                       *)
LEMMA PicturesSound == DisplayInv => PicturesAreSound
BY DEF DisplayInv, NamesAreStored, AreStored, CameAs, PicturesAreSound, NothingDangles, RecordsAreTrue

-----------------------------------------------------------------------------
(* The guides                                                              *)

Times   == Nat \cup {NoSnapshot}
Entries == [state : {"entry"}, snap : Times, tried : Times, err : BOOLEAN] \cup {NoGuide, BrokenGuide}
Imports == {NoGuide, GuideEntry(0, 0, FALSE), GuideEntry(NoSnapshot, 0, TRUE)}

Asking    == {"ask", "publish", "record"}
Importing == {"import", "verify"}
WorkerRows  == [job : {"none", "report"} \cup Asking \cup Importing, at : Nat, began : Nat, tried : Nat,
              published : Nat, failures : Nat,
              status : {"none", "success", "partial", "failed", "imported"}]

(* What the variables range over.                                          *)
GuideTypes ==
  /\ guideFiles \in [Parts -> Entries] /\ guideHashes \in [Parts -> Imports]
  /\ tick \in Nat \ {0} /\ worker \in WorkerRows

(* The partitions the worker has been at.                                  *)
Visited == IF worker.job = "report" THEN IF worker.at = 0 THEN {} ELSE Parts
           ELSE {p \in Parts : p < worker.at}

(* An entry is legal, of a time that has passed, and no younger than what  *)
(* the worker is about to write.                                           *)
TimesHavePassed ==
  /\ \A p \in Parts : LegalEntry(guideFiles[p]) /\ guideFiles[p].snap <= guideFiles[p].tried
  /\ \A p \in Parts : guideFiles[p].tried < tick
  /\ worker.began <= tick
  /\ worker.job \in {"publish", "record"} =>
       /\ worker.began <= worker.tried /\ worker.tried < tick
       /\ \A p \in Parts : guideFiles[p].tried <= worker.tried

(* Where the worker is, and what it says of it.                            *)
WorkerIsSomewhere ==
  /\ worker.job \in Asking \cup Importing => worker.at \in Parts /\ worker.status = "none"
  /\ worker.status = "success" => worker.failures = 0
  /\ worker.status \in {"success", "imported"} => worker.at # 0
  /\ worker.job \in Importing => worker.failures = 0

(* What a refresh has visited it has tried, and published if nothing       *)
(* failed; what an import has visited is as Redis has it.                  *)
VisitsLeaveTheirMark ==
  \A p \in Visited : guideFiles[p].state # "broken" =>
    /\ worker.job \in Asking \/ (worker.job = "report" /\ worker.status # "imported") =>
         /\ guideFiles[p].tried >= worker.began
         /\ worker.failures = 0 => ~guideFiles[p].err /\ guideFiles[p].snap >= worker.began
    /\ worker.job \in Importing \/ worker.status = "imported" =>
         guideHashes[p] \in {NoGuide, guideFiles[p]}

(* The inductive invariant of the guides.                                  *)
GuidesInv == GuideTypes /\ TimesHavePassed /\ WorkerIsSomewhere /\ VisitsLeaveTheirMark

(* What an entry is made of.                                               *)
LEMMA EntriesHaveParts ==
  \A n, m \in Times, b \in BOOLEAN :
    /\ GuideEntry(n, m, b).state = "entry" /\ GuideEntry(n, m, b).snap = n
    /\ GuideEntry(n, m, b).tried = m /\ GuideEntry(n, m, b).err = b /\ GuideEntry(n, m, b) \in Entries
BY DEF GuideEntry, Entries

(* What a missing or damaged file counts as.                               *)
LEMMA NoEntries ==
  /\ NoGuide.state = "missing" /\ NoGuide.snap = -1 /\ NoGuide.tried = -1
  /\ BrokenGuide.state = "broken" /\ BrokenGuide.snap = -1 /\ BrokenGuide.tried = -1
  /\ LegalEntry(NoGuide) /\ LegalEntry(BrokenGuide)
<1>1. /\ NoGuide.state = "missing" /\ NoGuide.snap = NoSnapshot /\ NoGuide.tried = NoSnapshot
      /\ BrokenGuide.state = "broken" /\ BrokenGuide.snap = NoSnapshot /\ BrokenGuide.tried = NoSnapshot
  BY DEF NoGuide, BrokenGuide, GuideEntry
<1> QED BY <1>1 DEF LegalEntry, NoSnapshot

(* An entry that was tried is legal if it has a snapshot or an error.      *)
LEMMA LegalEntries ==
  ASSUME NEW n \in Times, NEW m \in Nat, NEW b \in BOOLEAN, n \in Nat \/ b = TRUE
  PROVE  LegalEntry(GuideEntry(n, m, b))
<1>1. GuideEntry(n, m, b).snap = n /\ GuideEntry(n, m, b).tried = m /\ GuideEntry(n, m, b).err = b
  BY DEF GuideEntry
<1>2. m >= 0 /\ (n \in Nat => n >= 0)
  OBVIOUS
<1> HIDE DEF GuideEntry
<1> QED BY <1>1, <1>2 DEF LegalEntry

(* What Redis may have.                                                    *)
LEMMA ImportsAreEntries ==
  /\ Imports \subseteq Entries
  /\ \A e \in Imports : LegalEntry(e) /\ e.snap <= e.tried /\ e.tried < 1 /\ e.state # "broken"
  /\ \A e \in Entries : e.snap \in Times /\ e.tried \in Times /\ -1 <= e.snap
<1>1. 0 \in Times /\ NoSnapshot \in Times /\ TRUE \in BOOLEAN /\ FALSE \in BOOLEAN /\ NoSnapshot = -1
  BY DEF Times, NoSnapshot
<1>2. Imports \subseteq Entries
  <2>1. GuideEntry(0, 0, FALSE) \in Entries /\ GuideEntry(NoSnapshot, 0, TRUE) \in Entries
    BY <1>1, EntriesHaveParts
  <2>2. NoGuide \in Entries
    BY DEF Entries
  <2> QED BY <2>1, <2>2 DEF Imports
<1>3. ASSUME NEW e \in Imports
      PROVE  LegalEntry(e) /\ e.snap <= e.tried /\ e.tried < 1 /\ e.state # "broken"
  <2>1. CASE e = NoGuide
    BY <2>1, NoEntries
  <2>2. CASE e = GuideEntry(0, 0, FALSE)
    <3>1. e.state = "entry" /\ e.snap = 0 /\ e.tried = 0
      BY <1>1, <2>2, EntriesHaveParts
    <3>2. LegalEntry(GuideEntry(0, 0, FALSE))
      BY <1>1, LegalEntries
    <3>3. 0 <= 0 /\ 0 < 1
      OBVIOUS
    <3> QED BY ONLY <2>2, <3>1, <3>2, <3>3
  <2>3. CASE e = GuideEntry(NoSnapshot, 0, TRUE)
    <3>1. e.state = "entry" /\ e.snap = -1 /\ e.tried = 0
      BY <1>1, <2>3, EntriesHaveParts
    <3>2. LegalEntry(GuideEntry(NoSnapshot, 0, TRUE))
      BY <1>1, LegalEntries
    <3>3. -1 <= 0 /\ 0 < 1
      OBVIOUS
    <3> QED BY ONLY <2>3, <3>1, <3>2, <3>3
  <2> QED BY <2>1, <2>2, <2>3 DEF Imports
<1>4. \A e \in Entries : e.snap \in Times /\ e.tried \in Times
  BY <1>1, NoEntries DEF Entries
<1>5. \A t \in Times : -1 <= t
  BY <1>1 DEF Times
<1> QED BY <1>2, <1>3, <1>4, <1>5

(* At first there is nothing, and nobody works.                            *)
LEMMA GuidesInitially ==
  guideHashes \in [Parts -> Imports] /\ guideFiles = [p \in Parts |-> NoGuide] /\ tick = 1
    /\ worker = NoWorker => GuidesInv
<1> SUFFICES ASSUME guideHashes \in [Parts -> Imports], guideFiles = [p \in Parts |-> NoGuide],
                    tick = 1, worker = NoWorker
             PROVE  GuidesInv
  OBVIOUS
<1>1. GuideTypes
  BY DEF GuideTypes, Entries, NoWorker, WorkerRows, Asking, Importing
<1>2. \A p \in Parts : guideFiles[p] = NoGuide
  OBVIOUS
<1>3. TimesHavePassed
  <2>1. -1 <= -1 /\ -1 < 1 /\ 0 <= 1
    OBVIOUS
  <2>2. worker.job = "none" /\ worker.began = 0
    BY DEF NoWorker
  <2> QED BY <1>2, <2>1, <2>2, NoEntries DEF TimesHavePassed
<1>4. Visited = {}
  BY GuidesAssumption DEF Visited, NoWorker, Parts
<1>5. WorkerIsSomewhere
  BY DEF WorkerIsSomewhere, NoWorker, Asking, Importing
<1> QED BY <1>1, <1>3, <1>4, <1>5 DEF GuidesInv, VisitsLeaveTheirMark

(* The steps that leave the files alone.                                   *)
LEMMA WorkerKeeps ==
  ASSUME GuidesInv, BeginGuides \/ NoHeroes \/ BeginMigration \/ EndGuides \/ AskProvider
  PROVE  GuidesInv'
<1>0. GuideTypes /\ TimesHavePassed /\ WorkerIsSomewhere /\ VisitsLeaveTheirMark
  BY DEF GuidesInv
<1>1. 1 \in Parts /\ \A p \in Parts : ~(p < 1)
  BY GuidesAssumption DEF Parts
<1>2. ASSUME BeginGuides PROVE GuidesInv'
  <2>1. /\ worker' = [job |-> "ask", at |-> 1, began |-> tick, tried |-> 0,
                      published |-> 0, failures |-> 0, status |-> "none"]
        /\ UNCHANGED <<guideFiles, guideHashes, tick>>
    BY <1>2 DEF BeginGuides, NoWorker
  <2>2. GuideTypes'
    BY <1>0, <2>1 DEF GuideTypes, WorkerRows, Asking
  <2>3. TimesHavePassed'
    BY <1>0, <2>1 DEF TimesHavePassed, GuideTypes
  <2>4. Visited' = {}
    BY <1>1, <2>1 DEF Visited
  <2>5. WorkerIsSomewhere'
    BY <1>1, <2>1 DEF WorkerIsSomewhere, Importing
  <2> QED BY <2>2, <2>3, <2>4, <2>5 DEF GuidesInv, VisitsLeaveTheirMark
<1>3. ASSUME NoHeroes PROVE GuidesInv'
  <2>1. /\ worker' = [job |-> "report", at |-> 0, began |-> tick, tried |-> 0,
                      published |-> 0, failures |-> 0, status |-> "failed"]
        /\ UNCHANGED <<guideFiles, guideHashes, tick>>
    BY <1>3 DEF NoHeroes, NoWorker
  <2>2. GuideTypes'
    BY <1>0, <2>1 DEF GuideTypes, WorkerRows
  <2>3. TimesHavePassed'
    BY <1>0, <2>1 DEF TimesHavePassed, GuideTypes
  <2>4. Visited' = {}
    BY <2>1 DEF Visited
  <2>5. WorkerIsSomewhere'
    BY <2>1 DEF WorkerIsSomewhere, Importing, Asking
  <2> QED BY <2>2, <2>3, <2>4, <2>5 DEF GuidesInv, VisitsLeaveTheirMark
<1>4. ASSUME BeginMigration PROVE GuidesInv'
  <2>1. /\ worker' = [job |-> "import", at |-> 1, began |-> 0, tried |-> 0,
                      published |-> 0, failures |-> 0, status |-> "none"]
        /\ UNCHANGED <<guideFiles, guideHashes, tick>>
    BY <1>4 DEF BeginMigration, NoWorker
  <2>2. GuideTypes'
    BY <1>0, <2>1 DEF GuideTypes, WorkerRows, Importing
  <2>3. TimesHavePassed'
    BY <1>0, <2>1 DEF TimesHavePassed, GuideTypes
  <2>4. Visited' = {}
    BY <1>1, <2>1 DEF Visited
  <2>5. WorkerIsSomewhere'
    BY <1>1, <2>1 DEF WorkerIsSomewhere, Asking
  <2> QED BY <2>2, <2>3, <2>4, <2>5 DEF GuidesInv, VisitsLeaveTheirMark
<1>5. ASSUME EndGuides PROVE GuidesInv'
  <2>1. /\ worker' = [job |-> "none", at |-> 1, began |-> 0, tried |-> 0,
                      published |-> 0, failures |-> 0, status |-> "none"]
        /\ UNCHANGED <<guideFiles, guideHashes, tick>>
    BY <1>5 DEF EndGuides, NoWorker
  <2>2. GuideTypes'
    BY <1>0, <2>1 DEF GuideTypes, WorkerRows
  <2>3. TimesHavePassed'
    BY <1>0, <2>1 DEF TimesHavePassed, GuideTypes
  <2>4. Visited' = {}
    BY <1>1, <2>1 DEF Visited
  <2>5. WorkerIsSomewhere'
    BY <2>1 DEF WorkerIsSomewhere, Importing, Asking
  <2> QED BY <2>2, <2>3, <2>4, <2>5 DEF GuidesInv, VisitsLeaveTheirMark
<1>6. ASSUME AskProvider PROVE GuidesInv'
  <2>1. PICK next \in {"publish", "record"} : worker' = [worker EXCEPT !.job = next, !.tried = tick]
    BY <1>6 DEF AskProvider
  <2>2. worker.job = "ask" /\ tick' = tick + 1 /\ UNCHANGED <<guideFiles, guideHashes>>
    BY <1>6 DEF AskProvider
  <2>3. /\ worker' \in WorkerRows /\ worker'.job = next /\ worker'.tried = tick /\ worker'.at = worker.at
        /\ worker'.began = worker.began /\ worker'.failures = worker.failures
        /\ worker'.status = worker.status
    BY <1>0, <2>1 DEF GuideTypes, WorkerRows, Asking
  <2>4. GuideTypes'
    BY <1>0, <2>2, <2>3 DEF GuideTypes
  <2>5. \A p \in Parts : guideFiles[p].tried \in Times /\ guideFiles[p] \in Entries
    BY <1>0, ImportsAreEntries DEF GuideTypes
  <2>6. \A t \in Times : t < tick => t < tick + 1 /\ t <= tick
    BY <1>0 DEF GuideTypes, Times, NoSnapshot
  <2>7. \A b \in Nat : b <= tick => b <= tick + 1
    BY <1>0 DEF GuideTypes
  <2>8. tick < tick + 1 /\ worker.began \in Nat
    BY <1>0 DEF GuideTypes, WorkerRows
  <2>9. TimesHavePassed'
    BY <1>0, <2>2, <2>3, <2>5, <2>6, <2>7, <2>8 DEF TimesHavePassed
  <2>10. WorkerIsSomewhere'
    BY <1>0, <2>2, <2>3 DEF WorkerIsSomewhere, Asking, Importing
  <2>11. VisitsLeaveTheirMark'
    BY <1>0, <2>2, <2>3 DEF VisitsLeaveTheirMark, Visited, Asking, Importing, GuideTypes
  <2> QED BY <2>4, <2>9, <2>10, <2>11 DEF GuidesInv
<1> QED BY <1>2, <1>3, <1>4, <1>5, <1>6

(* Where the worker goes next it has visited one partition more.           *)
LEMMA OneMoreVisited ==
  ASSUME GuideTypes, worker.at \in Parts, worker.job \in Asking \cup Importing,
         \/ worker.at < Partitions /\ worker'.at = worker.at + 1 /\ worker'.job # "report"
         \/ worker.at >= Partitions /\ worker'.at = worker.at /\ worker'.job = "report"
  PROVE  /\ Visited' \subseteq Visited \cup {worker.at} /\ worker'.at # 0 /\ worker'.at \in Parts
         /\ Visited' \subseteq Parts
<1>1. worker.job # "report"
  BY DEF Asking, Importing
<1>2. \A a, p \in Nat : p < a + 1 => p < a \/ p = a
  OBVIOUS
<1>3. \A a, p, n \in Nat : p <= n /\ a >= n => p < a \/ p = a
  OBVIOUS
<1>4. \A a, n \in Nat : 1 <= a /\ a < n => a + 1 # 0 /\ 1 <= a + 1 /\ a + 1 <= n /\ a # 0
  OBVIOUS
<1>5. \A a \in Nat : 1 <= a => a # 0
  OBVIOUS
<1>6. Partitions \in Nat /\ Parts = {p \in Nat : 1 <= p /\ p <= Partitions}
  BY GuidesAssumption DEF Parts
<1>7. worker.at \in Nat /\ 1 <= worker.at /\ worker.at <= Partitions
  BY <1>6
<1>8. CASE worker.at < Partitions /\ worker'.at = worker.at + 1 /\ worker'.job # "report"
  <2>1. Visited' = {p \in Parts : p < worker.at + 1}
    BY <1>8 DEF Visited
  <2>2. Visited = {p \in Parts : p < worker.at}
    BY <1>1 DEF Visited
  <2>3. \A p \in Parts : p \in Nat
    BY <1>6
  <2>4. worker'.at # 0 /\ worker'.at \in Parts
    <3>1. worker.at + 1 \in Nat
      BY <1>7
    <3> QED BY <1>4, <1>6, <1>7, <1>8, <3>1
  <2> QED BY <1>2, <1>7, <2>1, <2>2, <2>3, <2>4
<1>9. CASE worker.at >= Partitions /\ worker'.at = worker.at /\ worker'.job = "report"
  <2>1. Visited' = Parts
    BY <1>5, <1>7, <1>9 DEF Visited
  <2>2. Visited = {p \in Parts : p < worker.at}
    BY <1>1 DEF Visited
  <2> QED BY <1>3, <1>5, <1>6, <1>7, <1>9, <2>1, <2>2
<1> QED BY <1>8, <1>9

(* A visit of a refresh leaves an entry of its time.                       *)
LEMMA VisitKeeps ==
  ASSUME GuidesInv, worker.job \in {"publish", "record"}, NEW entry \in Entries,
         NEW published \in Nat, NEW failures \in Nat,
         guideFiles' = [guideFiles EXCEPT ![worker.at] = entry],
         VisitedPart(published, failures), UNCHANGED <<guideHashes, tick>>,
         entry.tried = worker.tried, LegalEntry(entry), entry.snap <= entry.tried,
         failures = 0 => worker.failures = 0 /\ ~entry.err /\ entry.snap >= worker.began
  PROVE  GuidesInv'
<1>0. GuideTypes /\ TimesHavePassed /\ WorkerIsSomewhere /\ VisitsLeaveTheirMark
  BY DEF GuidesInv
<1>1. worker.at \in Parts /\ worker.status = "none" /\ worker.job \in Asking
  BY <1>0 DEF WorkerIsSomewhere, Asking
<1>2. /\ worker' \in WorkerRows /\ worker'.began = worker.began /\ worker'.failures = failures
      /\ worker'.job \in {"ask", "report"} /\ worker'.status # "imported"
      /\ worker'.job = "ask" => worker'.status = "none"
      /\ worker'.status = "success" => failures = 0
      /\ \/ worker.at < Partitions /\ worker'.at = worker.at + 1 /\ worker'.job # "report"
         \/ worker.at >= Partitions /\ worker'.at = worker.at /\ worker'.job = "report"
  <2>1. worker \in WorkerRows /\ worker.at \in Nat /\ Partitions \in Nat
    BY <1>0, GuidesAssumption DEF GuideTypes, WorkerRows
  <2>2. CASE worker.at < Partitions
    <3>1. worker' = [worker EXCEPT !.job = "ask", !.at = @ + 1, !.published = published, !.failures = failures]
      BY <2>2 DEF VisitedPart
    <3>2. worker.at + 1 \in Nat
      BY <2>1
    <3>3. /\ worker' \in WorkerRows /\ worker'.began = worker.began /\ worker'.failures = failures
          /\ worker'.job = "ask" /\ worker'.status = worker.status /\ worker'.at = worker.at + 1
      BY <2>1, <3>1, <3>2 DEF WorkerRows, Asking
    <3> QED BY <1>1, <2>2, <3>3
  <2>3. CASE ~(worker.at < Partitions)
    <3>1. worker.at >= Partitions
      BY <2>1, <2>3
    <3>2. /\ GuideStatus(published, failures) \in {"success", "partial", "failed"}
          /\ GuideStatus(published, failures) = "success" => failures = 0
      BY DEF GuideStatus
    <3>3. worker' = [worker EXCEPT !.job = "report", !.published = published,
                       !.failures = failures, !.status = GuideStatus(published, failures)]
      BY <2>3 DEF VisitedPart
    <3>4. PICK st \in {"success", "partial", "failed"} :
            /\ worker' = [worker EXCEPT !.job = "report", !.published = published,
                            !.failures = failures, !.status = st]
            /\ st = "success" => failures = 0
      BY <3>2, <3>3
    <3>5. /\ worker' \in WorkerRows /\ worker'.began = worker.began /\ worker'.failures = failures
          /\ worker'.job = "report" /\ worker'.status = st /\ worker'.at = worker.at
      BY <2>1, <3>4 DEF WorkerRows
    <3> QED BY <3>1, <3>4, <3>5
  <2> QED BY <2>2, <2>3
<1>3. /\ Visited' \subseteq Visited \cup {worker.at} /\ worker'.at # 0 /\ worker'.at \in Parts
      /\ Visited' \subseteq Parts
  BY <1>0, <1>1, <1>2, OneMoreVisited
<1>4. GuideTypes'
  BY <1>0, <1>2 DEF GuideTypes
<1>5. \A p \in Parts : guideFiles'[p] = (IF p = worker.at THEN entry ELSE guideFiles[p])
  BY <1>0 DEF GuideTypes
<1>6. worker.tried < tick /\ worker.began <= worker.tried /\ worker.began <= tick
  BY <1>0 DEF TimesHavePassed
<1>7. TimesHavePassed'
  BY <1>0, <1>2, <1>5, <1>6 DEF TimesHavePassed
<1>8. WorkerIsSomewhere'
  BY <1>2, <1>3 DEF WorkerIsSomewhere, Asking, Importing
<1>9. VisitsLeaveTheirMark'
  <2>1. \A p \in Visited : guideFiles[p].state # "broken" =>
          /\ guideFiles[p].tried >= worker.began
          /\ worker.failures = 0 => ~guideFiles[p].err /\ guideFiles[p].snap >= worker.began
    BY <1>0, <1>1 DEF VisitsLeaveTheirMark
  <2>2. entry.tried >= worker.began
    <3>1. \A a, b \in Nat : a <= b => b >= a
      OBVIOUS
    <3>2. worker.began \in Nat /\ worker.tried \in Nat
      BY <1>0 DEF GuideTypes, WorkerRows
    <3> QED BY <1>6, <3>1, <3>2
  <2>3. worker'.job \notin Importing /\ worker'.status # "imported"
    BY <1>2 DEF Importing
  <2> QED BY <1>2, <1>3, <1>5, <2>1, <2>2, <2>3 DEF VisitsLeaveTheirMark
<1> QED BY <1>4, <1>7, <1>8, <1>9 DEF GuidesInv

(* The two ends of a visit.                                                *)
LEMMA VisitsKeep ==
  ASSUME GuidesInv, PublishGuide \/ RecordGuideFailure
  PROVE  GuidesInv'
<1>0. GuideTypes /\ TimesHavePassed /\ WorkerIsSomewhere
  BY DEF GuidesInv
<1>1. worker.tried \in Nat /\ worker.published \in Nat /\ worker.failures \in Nat /\ worker.began \in Nat
  BY <1>0 DEF GuideTypes, WorkerRows
<1>2. /\ worker.job \in {"publish", "record"} /\ worker.at \in Parts
      /\ worker.began <= worker.tried
  BY <1>0 DEF PublishGuide, RecordGuideFailure, TimesHavePassed, WorkerIsSomewhere, Asking
<1>3. CASE PublishGuide
  <2> DEFINE entry == GuideEntry(worker.tried, worker.tried, FALSE)
  <2>1. /\ entry \in Entries /\ entry.snap = worker.tried /\ entry.tried = worker.tried
        /\ entry.err = FALSE /\ LegalEntry(entry)
    <3>1. worker.tried \in Times /\ FALSE \in BOOLEAN
      BY <1>1 DEF Times
    <3>2. LegalEntry(entry)
      BY <1>1, <3>1, LegalEntries
    <3> QED BY <3>1, <3>2, EntriesHaveParts
  <2>2. /\ guideFiles' = [guideFiles EXCEPT ![worker.at] = entry]
        /\ VisitedPart(worker.published + 1, worker.failures) /\ UNCHANGED <<guideHashes, tick>>
    BY <1>3 DEF PublishGuide
  <2>3. worker.published + 1 \in Nat /\ worker.tried <= worker.tried /\ worker.tried >= worker.began
    BY <1>1, <1>2
  <2> HIDE DEF entry
  <2> QED BY <1>1, <1>2, <2>1, <2>2, <2>3, VisitKeeps
<1>4. CASE RecordGuideFailure
  <2> DEFINE entry == GuideEntry(guideFiles[worker.at].snap, worker.tried, TRUE)
  <2>1. guideFiles[worker.at] \in Entries /\ guideFiles[worker.at].snap \in Times
    BY <1>0, <1>2, ImportsAreEntries DEF GuideTypes
  <2>2. /\ entry \in Entries /\ entry.snap = guideFiles[worker.at].snap /\ entry.tried = worker.tried
        /\ LegalEntry(entry)
    <3>1. worker.tried \in Times /\ TRUE \in BOOLEAN
      BY <1>1 DEF Times
    <3>2. LegalEntry(entry)
      BY <1>1, <2>1, <3>1, LegalEntries
    <3> QED BY <2>1, <3>1, <3>2, EntriesHaveParts
  <2>3. /\ guideFiles' = [guideFiles EXCEPT ![worker.at] = entry]
        /\ VisitedPart(worker.published, worker.failures + 1) /\ UNCHANGED <<guideHashes, tick>>
    BY <1>4 DEF RecordGuideFailure, WithFailure
  <2>4. worker.failures + 1 \in Nat /\ worker.failures + 1 # 0
    BY <1>1
  <2>5. guideFiles[worker.at].snap <= worker.tried
    <3>1. guideFiles[worker.at].snap <= guideFiles[worker.at].tried /\ guideFiles[worker.at].tried <= worker.tried
      BY <1>0, <1>2 DEF TimesHavePassed
    <3>2. \A a, b, c \in Times : a <= b /\ b <= c => a <= c
      BY DEF Times, NoSnapshot
    <3>3. guideFiles[worker.at].tried \in Times /\ worker.tried \in Times
      BY <1>1, <2>1, ImportsAreEntries DEF Times
    <3> QED BY <2>1, <3>1, <3>2, <3>3
  <2> HIDE DEF entry
  <2> QED BY <1>1, <1>2, <2>2, <2>3, <2>4, <2>5, VisitKeeps
<1> QED BY <1>3, <1>4

(* An import writes what Redis has, and reads it back.                     *)
LEMMA ImportsKeep ==
  ASSUME GuidesInv, ImportPartition \/ VerifyImport
  PROVE  GuidesInv'
<1>0. GuideTypes /\ TimesHavePassed /\ WorkerIsSomewhere /\ VisitsLeaveTheirMark
  BY DEF GuidesInv
<1>1. worker.job \in Importing /\ worker.at \in Parts /\ worker.status = "none" /\ worker.failures = 0
  BY <1>0 DEF ImportPartition, VerifyImport, WorkerIsSomewhere, Importing
<1>2. worker \in WorkerRows /\ worker.at \in Nat /\ Partitions \in Nat /\ UNCHANGED <<guideHashes, tick>>
  BY <1>0, GuidesAssumption DEF GuideTypes, WorkerRows, ImportPartition, VerifyImport
<1>3. \A p \in Visited : guideFiles[p].state # "broken" => guideHashes[p] \in {NoGuide, guideFiles[p]}
  BY <1>0, <1>1 DEF VisitsLeaveTheirMark
<1>4. ASSUME NextImport, UNCHANGED guideFiles, guideHashes[worker.at] \in {NoGuide, guideFiles[worker.at]}
      PROVE  GuidesInv'
  <2>1. /\ worker' \in WorkerRows /\ worker'.began = worker.began /\ worker'.failures = 0
        /\ worker'.job \in {"import", "report"} /\ worker'.status \in {"none", "imported"}
        /\ worker'.job = "import" => worker'.status = "none"
        /\ worker'.job = "report" => worker'.status = "imported"
        /\ \/ worker.at < Partitions /\ worker'.at = worker.at + 1 /\ worker'.job # "report"
           \/ worker.at >= Partitions /\ worker'.at = worker.at /\ worker'.job = "report"
    <3>1. CASE worker.at < Partitions
      <4>1. worker' = [worker EXCEPT !.job = "import", !.at = @ + 1]
        BY <1>4, <3>1 DEF NextImport
      <4>2. worker.at + 1 \in Nat
        BY <1>2
      <4>3. /\ worker' \in WorkerRows /\ worker'.began = worker.began /\ worker'.failures = worker.failures
            /\ worker'.job = "import" /\ worker'.status = worker.status /\ worker'.at = worker.at + 1
        BY <1>2, <4>1, <4>2 DEF WorkerRows, Importing
      <4> QED BY <1>1, <3>1, <4>3
    <3>2. CASE ~(worker.at < Partitions)
      <4>1. worker.at >= Partitions
        BY <1>2, <3>2
      <4>2. worker' = [worker EXCEPT !.job = "report", !.status = "imported"]
        BY <1>4, <3>2 DEF NextImport
      <4>3. /\ worker' \in WorkerRows /\ worker'.began = worker.began /\ worker'.failures = worker.failures
            /\ worker'.job = "report" /\ worker'.status = "imported" /\ worker'.at = worker.at
        BY <1>2, <4>2 DEF WorkerRows
      <4> QED BY <1>1, <4>1, <4>3
    <3> QED BY <3>1, <3>2
  <2>2. /\ Visited' \subseteq Visited \cup {worker.at} /\ worker'.at # 0 /\ worker'.at \in Parts
        /\ Visited' \subseteq Parts
    BY <1>0, <1>1, <2>1, OneMoreVisited
  <2>3. GuideTypes'
    BY <1>0, <1>2, <1>4, <2>1 DEF GuideTypes
  <2>4. TimesHavePassed'
    BY <1>0, <1>2, <1>4, <2>1 DEF TimesHavePassed
  <2>5. WorkerIsSomewhere'
    BY <2>1, <2>2 DEF WorkerIsSomewhere, Asking, Importing
  <2>6. VisitsLeaveTheirMark'
    BY <1>2, <1>3, <1>4, <2>1, <2>2 DEF VisitsLeaveTheirMark, Asking
  <2> QED BY <2>3, <2>4, <2>5, <2>6 DEF GuidesInv
<1>5. CASE VerifyImport
  BY <1>4, <1>5 DEF VerifyImport
<1>6. CASE ImportPartition /\ guideHashes[worker.at] = NoGuide
  BY <1>4, <1>6 DEF ImportPartition
<1>7. CASE ImportPartition /\ guideHashes[worker.at] # NoGuide
  <2> DEFINE entry == guideHashes[worker.at]
  <2>1. /\ guideFiles[worker.at] \in {NoGuide, entry}
        /\ guideFiles' = [guideFiles EXCEPT ![worker.at] = entry]
        /\ worker' = [worker EXCEPT !.job = "verify"]
    BY <1>7 DEF ImportPartition
  <2>2. entry \in Imports /\ entry \in Entries /\ LegalEntry(entry) /\ entry.snap <= entry.tried /\ entry.tried < 1
    BY <1>0, <1>1, ImportsAreEntries DEF GuideTypes
  <2>3. /\ worker' \in WorkerRows /\ worker'.job = "verify" /\ worker'.at = worker.at
        /\ worker'.began = worker.began /\ worker'.failures = worker.failures /\ worker'.status = worker.status
    BY <1>2, <2>1 DEF WorkerRows, Importing
  <2>4. GuideTypes'
    BY <1>0, <1>2, <2>1, <2>2, <2>3 DEF GuideTypes
  <2>5. \A p \in Parts : guideFiles'[p] = (IF p = worker.at THEN entry ELSE guideFiles[p])
    BY <1>0, <2>1 DEF GuideTypes
  <2>6. entry.tried < tick
    <3>1. \A t \in Times, n \in Nat \ {0} : t < 1 => t < n
      BY DEF Times, NoSnapshot
    <3> QED BY <1>0, <2>2, <3>1, ImportsAreEntries DEF GuideTypes
  <2>7. TimesHavePassed'
    BY <1>0, <1>2, <2>2, <2>3, <2>5, <2>6 DEF TimesHavePassed
  <2>8. WorkerIsSomewhere'
    BY <1>0, <1>1, <2>3 DEF WorkerIsSomewhere, Importing
  <2>9. Visited' = Visited /\ worker.at \notin Visited
    <3>1. ~(worker.at < worker.at)
      BY <1>2
    <3> QED BY <1>1, <2>3, <3>1 DEF Visited, Importing
  <2>10. \A p \in Visited' : p \in Parts /\ guideFiles'[p] = guideFiles[p]
    BY <2>5, <2>9, <1>1 DEF Visited, Importing
  <2>11. VisitsLeaveTheirMark'
    BY <1>1, <1>2, <1>3, <2>3, <2>9, <2>10 DEF VisitsLeaveTheirMark, Asking, Importing
  <2> QED BY <2>4, <2>7, <2>8, <2>11 DEF GuidesInv
<1> QED BY <1>5, <1>6, <1>7

(* A file is damaged, or nothing happens.                                  *)
LEMMA DamageKeeps ==
  ASSUME GuidesInv, DamageGuide \/ UNCHANGED guideVars
  PROVE  GuidesInv'
<1>0. GuideTypes /\ TimesHavePassed /\ WorkerIsSomewhere /\ VisitsLeaveTheirMark
  BY DEF GuidesInv
<1>1. CASE UNCHANGED guideVars
  BY <1>0, <1>1
     DEF guideVars, GuidesInv, GuideTypes, TimesHavePassed, WorkerIsSomewhere, VisitsLeaveTheirMark, Visited
<1>2. CASE DamageGuide
  <2>1. PICK p \in Parts : guideFiles' = [guideFiles EXCEPT ![p] = BrokenGuide]
    BY <1>2 DEF DamageGuide
  <2>2. UNCHANGED <<guideHashes, tick, worker>>
    BY <1>2 DEF DamageGuide
  <2>3. \A q \in Parts : guideFiles'[q] = (IF q = p THEN BrokenGuide ELSE guideFiles[q])
    BY <1>0, <2>1 DEF GuideTypes
  <2>4. GuideTypes'
    BY <1>0, <2>1, <2>2 DEF GuideTypes, Entries
  <2>5. /\ -1 <= -1 /\ \A n \in Nat : -1 <= n
        /\ \A n \in Nat \ {0} : -1 < n
    OBVIOUS
  <2>6. tick \in Nat \ {0} /\ worker.tried \in Nat
    BY <1>0 DEF GuideTypes, WorkerRows
  <2>7. TimesHavePassed'
    BY <1>0, <2>2, <2>3, <2>5, <2>6, NoEntries DEF TimesHavePassed
  <2>8. WorkerIsSomewhere'
    BY <1>0, <2>2 DEF WorkerIsSomewhere
  <2>9. VisitsLeaveTheirMark'
    BY <1>0, <2>2, <2>3, NoEntries DEF VisitsLeaveTheirMark, Visited
  <2> QED BY <2>4, <2>7, <2>8, <2>9 DEF GuidesInv
<1> QED BY <1>1, <1>2

(* The invariant is inductive.                                             *)
LEMMA GuidesStep == GuidesInv /\ [GuidesNext]_guideVars => GuidesInv'
BY WorkerKeeps, VisitsKeep, ImportsKeep, DamageKeeps DEF GuidesNext

(* No step takes a partition's snapshot back.                              *)
LEMMA GuidesKeptInStep ==
  GuidesInv /\ [GuidesNext]_guideVars =>
    \A p \in Parts : guideFiles'[p].state # "broken" => guideFiles'[p].snap >= guideFiles[p].snap
<1> SUFFICES ASSUME GuidesInv, [GuidesNext]_guideVars, NEW p \in Parts, guideFiles'[p].state # "broken"
             PROVE  guideFiles'[p].snap >= guideFiles[p].snap
  OBVIOUS
<1>0. GuideTypes /\ TimesHavePassed /\ WorkerIsSomewhere
  BY DEF GuidesInv
<1>1. guideFiles[p].snap \in Times /\ guideFiles[p].tried \in Times /\ -1 <= guideFiles[p].snap
  BY <1>0, ImportsAreEntries DEF GuideTypes
<1>2. \A t \in Times : t >= t /\ t >= -1
  BY DEF Times, NoSnapshot
<1>3. CASE guideFiles'[p] = guideFiles[p]
  BY <1>1, <1>2, <1>3
<1>4. CASE PublishGuide
  <2>1. worker.tried \in Nat
    BY <1>0 DEF GuideTypes, WorkerRows
  <2>2. guideFiles' = [guideFiles EXCEPT ![worker.at] = GuideEntry(worker.tried, worker.tried, FALSE)]
    BY <1>4 DEF PublishGuide
  <2>3. GuideEntry(worker.tried, worker.tried, FALSE).snap = worker.tried
    BY DEF GuideEntry
  <2>4. guideFiles[p].snap <= guideFiles[p].tried /\ guideFiles[p].tried <= worker.tried
    BY <1>0, <1>4 DEF TimesHavePassed, PublishGuide
  <2>5. \A a, b, c \in Times : a <= b /\ b <= c => c >= a
    BY DEF Times, NoSnapshot
  <2>6. worker.tried >= guideFiles[p].snap
    BY <1>1, <2>1, <2>4, <2>5 DEF Times
  <2>7. guideFiles'[p].snap \in {worker.tried, guideFiles[p].snap}
    BY <1>0, <2>2, <2>3 DEF GuideTypes
  <2> QED BY <1>1, <1>2, <2>6, <2>7
<1>5. CASE RecordGuideFailure
  <2>1. guideFiles' = [guideFiles EXCEPT ![worker.at] = GuideEntry(guideFiles[worker.at].snap, worker.tried, TRUE)]
    BY <1>5 DEF RecordGuideFailure, WithFailure
  <2>2. GuideEntry(guideFiles[worker.at].snap, worker.tried, TRUE).snap = guideFiles[worker.at].snap
    BY DEF GuideEntry
  <2>3. guideFiles'[p].snap = guideFiles[p].snap
    BY <1>0, <2>1, <2>2 DEF GuideTypes
  <2> QED BY <1>1, <1>2, <2>3
<1>6. CASE ImportPartition /\ guideFiles'[p] # guideFiles[p]
  <2>1. /\ guideFiles[worker.at] \in {NoGuide, guideHashes[worker.at]} /\ p = worker.at
        /\ guideFiles' = [guideFiles EXCEPT ![worker.at] = guideHashes[worker.at]]
    BY <1>0, <1>6 DEF ImportPartition, GuideTypes
  <2>2. guideFiles[p] = NoGuide /\ guideFiles'[p] = guideHashes[p]
    BY <1>0, <1>6, <2>1 DEF GuideTypes
  <2>3. guideFiles'[p].snap \in Times /\ guideFiles[p].snap = -1
    BY <1>0, <2>2, NoEntries, ImportsAreEntries DEF GuideTypes
  <2> QED BY <1>2, <2>3
<1>7. CASE DamageGuide
  <2>1. PICK q \in Parts : guideFiles' = [guideFiles EXCEPT ![q] = BrokenGuide]
    BY <1>7 DEF DamageGuide
  <2>2. guideFiles'[p] = guideFiles[p]
    BY <1>0, <2>1, NoEntries DEF GuideTypes
  <2> QED BY <1>3, <2>2
<1> QED
  BY <1>3, <1>4, <1>5, <1>6, <1>7
     DEF GuidesNext, guideVars, BeginGuides, NoHeroes, AskProvider, BeginMigration, VerifyImport, EndGuides

(* What a report and an entry promise follows from the invariant.          *)
LEMMA GuidesSound == GuidesInv => GuidesAreSound
<1> SUFFICES ASSUME GuidesInv PROVE GuidesAreSound
  OBVIOUS
<1>0. GuideTypes /\ TimesHavePassed /\ WorkerIsSomewhere /\ VisitsLeaveTheirMark
  BY DEF GuidesInv
<1>1. EntriesAreLegal
  BY <1>0 DEF TimesHavePassed, EntriesAreLegal
<1>2. ReportsAreTrue
  <2> SUFFICES ASSUME worker.job = "report", NEW p \in Parts, guideFiles[p].state # "broken"
               PROVE  /\ worker.status = "success" =>
                           ~guideFiles[p].err /\ guideFiles[p].snap >= worker.began
                      /\ worker.status # "imported" /\ worker.at # 0 => guideFiles[p].tried >= worker.began
                      /\ worker.status = "imported" => guideHashes[p] \in {NoGuide, guideFiles[p]}
    BY DEF ReportsAreTrue
  <2>1. worker.status = "imported" => worker.at # 0
    BY <1>0 DEF WorkerIsSomewhere
  <2> QED BY <1>0, <2>1 DEF VisitsLeaveTheirMark, WorkerIsSomewhere, Visited
<1> QED BY <1>1, <1>2 DEF GuidesAreSound

-----------------------------------------------------------------------------
(* The catalog's build                                                     *)

AnswerStates == {"none", "queued", "calling", "done", "failed"}

(* What the variables range over; a call that was answered was answered by *)
(* a version.                                                              *)
BuildTypes ==
  /\ valve \in 1..MaxVersion
  /\ answers \in [FeedRequests -> [state : AnswerStates, at : Nat]]
  /\ stage \in [Askers -> 0..10] /\ asked \in [Askers -> SUBSET FeedRequests]
  /\ \A k \in FeedRequests : answers[k].state = "done" => answers[k].at \in 1..MaxVersion
  /\ \A k \in FeedRequests : answers[k].state = "none" => answers[k] = Unasked

(* No more calls than the session allows.                                  *)
CallsFit == IsFiniteSet(Calling) /\ Cardinality(Calling) <= MaxConcurrency

(* The stages of a thread, and when the branches work.                     *)
StagesFit ==
  /\ stage["catalog"] \in 1..8 \cup Ended /\ stage["patches"] \in 1..5 \cup Ended
  /\ stage["heroes"] \in 0..4 \cup Ended /\ stage["items"] \in 0..2 \cup Ended
  /\ \A b \in Branches :
       /\ stage["catalog"] < 8 => stage[b] = 0
       /\ stage["catalog"] = 8 => stage[b] # 0
       /\ stage["catalog"] = Over => stage[b] = Over
       /\ stage["catalog"] \in Ended => ~Busy(b)

(* A thread waits for what its stage needs and what somebody will answer.  *)
AskedAreNeeded ==
  /\ \A t \in Askers : ~Busy(t) => asked[t] = {}
  /\ \A t \in Askers : asked[t] \subseteq Needs(t)
  /\ \A t \in Askers : \A k \in asked[t] : answers[k].state # "none"

Passed(t, n) == stage[t] # Broken /\ stage[t] > n
IsDone(k) == answers[k].state = "done"

(* Who has passed a stage has its answers, and has compared them.          *)
AnswersAreIn ==
  /\ Passed("catalog", 1) => IsDone(<<"patchnoteslist">>)
  /\ \A i \in 1..6 : Passed("catalog", i + 1) => IsDone(ListStages[i])
  /\ \A b \in Branches : stage[b] # 0 => \A k \in Lists \X Languages : IsDone(k)
  /\ \A i \in 1..5 : Passed("patches", i) => IsDone(NoteStages[i])
  /\ Passed("heroes", 1) => \A h \in Heroes : IsDone(<<"herodata", h, "english">>)
  /\ Passed("heroes", 2) => HeroesAgree
  /\ Passed("heroes", 3) => \A a \in Supplemental : IsDone(<<"abilitydata", a, "english">>)
  /\ Passed("heroes", 4) => \A a \in Supplemental : IsDone(<<"abilitydata", a, "schinese">>)

(* What HeroesAgree compares is in.                                        *)
ComparedAreIn ==
  Passed("heroes", 2) => \A h \in Heroes : IsDone(<<"herodata", h, "schinese">>)

(* The inductive invariant of the build.                                   *)
BuildInv == BuildTypes /\ CallsFit /\ StagesFit /\ AskedAreNeeded /\ AnswersAreIn /\ ComparedAreIn

(* What a thread asks for in its stage.                                    *)
LEMMA NeedsAre ==
  /\ Needs("patches") = {NoteStages[stage["patches"]]}
  /\ stage["catalog"] = 1 => Needs("catalog") = {<<"patchnoteslist">>}
  /\ stage["catalog"] # 1 /\ stage["catalog"] < 8 =>
       Needs("catalog") = {ListStages[stage["catalog"] - 1]}
  /\ stage["catalog"] # 1 /\ ~(stage["catalog"] < 8) => Needs("catalog") = {}
  /\ Needs("items") = Details("itemdata", Items, stage["items"])
  /\ stage["heroes"] < 3 => Needs("heroes") = Details("herodata", Heroes, stage["heroes"])
  /\ ~(stage["heroes"] < 3) => Needs("heroes") = Details("abilitydata", Supplemental, stage["heroes"] - 2)
BY DEF Needs

(* The lists in the order in which they are asked for.                     *)
LEMMA ListsInOrder ==
  /\ \A i \in 1..6 : ListStages[i] \in Lists \X Languages
  /\ \A k \in Lists \X Languages : \E i \in 1..6 : k = ListStages[i]
<1>1. /\ ListStages[1] = <<"herolist", "english">> /\ ListStages[2] = <<"herolist", "schinese">>
      /\ ListStages[3] = <<"abilitylist", "english">> /\ ListStages[4] = <<"abilitylist", "schinese">>
      /\ ListStages[5] = <<"itemlist", "english">> /\ ListStages[6] = <<"itemlist", "schinese">>
  BY DEF ListStages
<1>2. \A i \in 1..6 : i = 1 \/ i = 2 \/ i = 3 \/ i = 4 \/ i = 5 \/ i = 6
  OBVIOUS
<1>3. 1 \in 1..6 /\ 2 \in 1..6 /\ 3 \in 1..6 /\ 4 \in 1..6 /\ 5 \in 1..6 /\ 6 \in 1..6
  OBVIOUS
<1>4. \A i \in 1..6 : ListStages[i] \in Lists \X Languages
  BY <1>1, <1>2 DEF Lists, Languages
<1>5. \A k \in Lists \X Languages : \E i \in 1..6 : k = ListStages[i]
  BY <1>1, <1>3 DEF Lists, Languages
<1> QED BY <1>4, <1>5

(* What the patch notes are made of, in order.                             *)
LEMMA NotesInOrder ==
  /\ \A i \in 1..5 : NoteStages[i] \in FeedRequests
  /\ \A k \in {<<"patchnoteslist">>} \cup (Lists \X {"english"}) : \E i \in 1..5 : k = NoteStages[i]
<1>1. /\ NoteStages[1] = <<"patchnoteslist">> /\ NoteStages[2] = <<"patchnotes">>
      /\ NoteStages[3] = <<"herolist", "english">> /\ NoteStages[4] = <<"itemlist", "english">>
      /\ NoteStages[5] = <<"abilitylist", "english">>
  BY DEF NoteStages
<1>2. \A i \in 1..5 : i = 1 \/ i = 2 \/ i = 3 \/ i = 4 \/ i = 5
  OBVIOUS
<1>3. 1 \in 1..5 /\ 2 \in 1..5 /\ 3 \in 1..5 /\ 4 \in 1..5 /\ 5 \in 1..5
  OBVIOUS
<1>4. \A i \in 1..5 : NoteStages[i] \in FeedRequests
  BY <1>1, <1>2 DEF FeedRequests, Lists, Languages
<1>5. \A k \in {<<"patchnoteslist">>} \cup (Lists \X {"english"}) : \E i \in 1..5 : k = NoteStages[i]
  BY <1>1, <1>3 DEF Lists
<1> QED BY <1>4, <1>5

(* What details are asked of.                                              *)
LEMMA DetailsAreRequests ==
  /\ \A n : Details("itemdata", Items, n) \subseteq FeedRequests
  /\ \A n : Details("herodata", Heroes, n) \subseteq FeedRequests
  /\ \A n : \A ids \in SUBSET Abilities : Details("abilitydata", ids, n) \subseteq FeedRequests
BY DEF Details, FeedRequests, Languages

(* The lists of a version are in when the branches work.                   *)
LEMMA ListsAreIn ==
  ASSUME BuildInv, NEW b \in Branches, stage[b] # 0
  PROVE  /\ \A k \in Lists \X Languages : IsDone(k) /\ k \in FeedRequests /\ Version(k) \in 1..MaxVersion
         /\ Supplemental \subseteq Abilities
<1>1. \A k \in Lists \X Languages : IsDone(k) /\ k \in FeedRequests
  BY DEF BuildInv, AnswersAreIn, FeedRequests
<1>2. \A k \in Lists \X Languages : Version(k) \in 1..MaxVersion
  BY <1>1 DEF BuildInv, BuildTypes, IsDone, Version
<1>3. <<"abilitylist", "english">> \in Lists \X Languages
  BY DEF Lists, Languages
<1>4. ListedAbilities \subseteq Abilities
  BY <1>2, <1>3 DEF ListedAbilities, Abilities
<1> QED BY <1>1, <1>2, <1>4 DEF Supplemental

(* A thread asks for what the feed has.                                    *)
LEMMA NeedsAreRequests ==
  ASSUME BuildInv, NEW t \in Askers, Busy(t)
  PROVE  Needs(t) \subseteq FeedRequests
<1>0. stage \in [Askers -> 0..10] /\ StagesFit /\ stage[t] \in 1..8
  BY DEF BuildInv, BuildTypes, Busy
<1>1. CASE t = "patches"
  <2>1. stage[t] \in 1..5
    BY <1>0, <1>1 DEF StagesFit, Ended, Over, Broken
  <2> QED BY <1>1, <2>1, NeedsAre, NotesInOrder
<1>2. CASE t = "catalog"
  <2>1. CASE stage[t] = 1
    BY <1>2, <2>1, NeedsAre DEF FeedRequests
  <2>2. CASE stage[t] # 1 /\ stage[t] < 8
    <3>1. stage[t] - 1 \in 1..6
      BY <1>0, <2>2
    <3>2. Lists \X Languages \subseteq FeedRequests
      BY DEF FeedRequests
    <3> QED BY <1>2, <2>2, <3>1, <3>2, NeedsAre, ListsInOrder
  <2>3. CASE stage[t] # 1 /\ ~(stage[t] < 8)
    BY <1>2, <2>3, NeedsAre
  <2> QED BY <2>1, <2>2, <2>3
<1>3. CASE t = "items"
  BY <1>3, NeedsAre, DetailsAreRequests
<1>4. CASE t = "heroes"
  <2>1. Supplemental \subseteq Abilities
    BY <1>0, <1>4, ListsAreIn DEF Branches
  <2> QED BY <1>4, <2>1, NeedsAre, DetailsAreRequests
<1> QED BY <1>1, <1>2, <1>3, <1>4 DEF Askers, FeedJobs, Branches

(* An answer is never taken back, so that what was read of answers stays.  *)
ResolvedStay == \A k \in FeedRequests : Resolved(k) => answers'[k] = answers[k]

(* What is read of the answers that are in does not change.                *)
LEMMA ReadingsStay ==
  ASSUME BuildInv, ResolvedStay
  PROVE  /\ \A k \in FeedRequests : IsDone(k) => IsDone(k)' /\ Version(k)' = Version(k)
         /\ Passed("heroes", 1) =>
              /\ HeroAbilities("english")' = HeroAbilities("english")
              /\ ListedAbilities' = ListedAbilities /\ Supplemental' = Supplemental
         /\ Passed("heroes", 2) => HeroesAgree' = HeroesAgree
<1>1. \A k \in FeedRequests : IsDone(k) => IsDone(k)' /\ Version(k)' = Version(k)
  BY DEF ResolvedStay, Resolved, IsDone, Version
<1>2. \A h \in Heroes, l \in Languages : <<"herodata", h, l>> \in FeedRequests
  BY DEF FeedRequests
<1>3. \A h \in Heroes : <<"herodata", h, "english">> \in FeedRequests /\ <<"herodata", h, "schinese">> \in FeedRequests
  BY <1>2 DEF Languages
<1>4. ASSUME Passed("heroes", 1)
      PROVE  /\ HeroAbilities("english")' = HeroAbilities("english")
             /\ ListedAbilities' = ListedAbilities /\ Supplemental' = Supplemental
             /\ \A h \in Heroes : Version(<<"herodata", h, "english">>)' = Version(<<"herodata", h, "english">>)
  <2>1. \A h \in Heroes : Version(<<"herodata", h, "english">>)' = Version(<<"herodata", h, "english">>)
    BY <1>1, <1>3, <1>4 DEF BuildInv, AnswersAreIn
  <2>2. stage["heroes"] # 0
    BY <1>4 DEF Passed, BuildInv, BuildTypes, Askers, FeedJobs, Branches
  <2>3. ListedAbilities' = ListedAbilities
    BY <1>1, <2>2, ListsAreIn DEF ListedAbilities, Branches, Lists, Languages
  <2>4. HeroAbilities("english")' = HeroAbilities("english")
    BY <2>1 DEF HeroAbilities
  <2> QED BY <2>1, <2>3, <2>4 DEF Supplemental
<1>5. ASSUME Passed("heroes", 2) PROVE HeroesAgree' = HeroesAgree
  <2>1. Passed("heroes", 1)
    BY <1>5 DEF Passed, BuildInv, BuildTypes, Askers, FeedJobs, Branches
  <2>2. \A h \in Heroes : Version(<<"herodata", h, "schinese">>)' = Version(<<"herodata", h, "schinese">>)
    BY <1>1, <1>3, <1>5 DEF BuildInv, ComparedAreIn
  <2> QED BY <1>4, <2>1, <2>2 DEF HeroesAgree
<1> QED BY <1>1, <1>4, <1>5

(* An answer moves on, or is asked for.                                    *)
LEMMA AnswersMove ==
  ASSUME BuildInv, ResolvedStay, UNCHANGED stage, valve' \in 1..MaxVersion,
         answers' \in [FeedRequests -> [state : AnswerStates, at : Nat]],
         \A k \in FeedRequests : answers'[k].state = "done" => answers'[k].at \in 1..MaxVersion,
         \A k \in FeedRequests : answers[k].state # "none" => answers'[k].state # "none",
         \A k \in FeedRequests : answers'[k].state = "none" => answers'[k] = answers[k],
         CallsFit', asked' \in [Askers -> SUBSET FeedRequests],
         \A t \in Askers : asked'[t] \subseteq asked[t] \cup Needs(t),
         \A t \in Askers : ~Busy(t) => asked'[t] = asked[t],
         \A t \in Askers : \A k \in asked'[t] : k \in asked[t] \/ answers'[k].state # "none"
  PROVE  BuildInv'
<1>0. BuildTypes /\ StagesFit /\ AskedAreNeeded /\ AnswersAreIn /\ ComparedAreIn
  BY DEF BuildInv
<1>1. BuildTypes'
  BY <1>0 DEF BuildTypes
<1>2. StagesFit'
  BY <1>0 DEF StagesFit, Busy
<1>3. AskedAreNeeded'
  <2>1. \A t \in Askers : Busy(t)' <=> Busy(t)
    BY DEF Busy
  <2>2. \A t \in Askers : ~Busy(t)' => asked'[t] = {}
    BY <1>0, <2>1 DEF AskedAreNeeded
  <2>3. \A t \in Askers : \A k \in asked'[t] : answers'[k].state # "none"
    <3>1. \A t \in Askers : asked[t] \subseteq FeedRequests
      BY <1>0 DEF BuildTypes
    <3> QED BY <1>0, <3>1 DEF AskedAreNeeded
  <2>4. ASSUME NEW t \in Askers, Busy(t) PROVE Needs(t)' = Needs(t)
    <3>1. CASE t = "heroes" /\ ~(stage["heroes"] < 3)
      <4>1. Passed("heroes", 1)
        BY <1>0, <2>4, <3>1 DEF Passed, Busy, BuildTypes, Broken, Askers, Branches
      <4>2. Supplemental' = Supplemental
        BY <4>1, ReadingsStay
      <4> QED BY <3>1, <4>2 DEF Needs, Details
    <3>2. CASE t # "heroes" \/ stage["heroes"] < 3
      BY <3>2 DEF Needs, Askers, FeedJobs, Branches
    <3> QED BY <3>1, <3>2
  <2>5. \A t \in Askers : asked'[t] \subseteq Needs(t)'
    BY <1>0, <2>1, <2>2, <2>4 DEF AskedAreNeeded
  <2> QED BY <2>2, <2>3, <2>5 DEF AskedAreNeeded
<1>4. \A n : \A t \in Askers : Passed(t, n)' <=> Passed(t, n)
  BY DEF Passed
<1>5. "catalog" \in Askers /\ "patches" \in Askers /\ "heroes" \in Askers
  BY DEF Askers, FeedJobs, Branches
<1>6. Lists \X Languages \subseteq FeedRequests /\ <<"patchnoteslist">> \in FeedRequests
  BY DEF FeedRequests
<1>7. \A h \in Heroes, l \in Languages : <<"herodata", h, l>> \in FeedRequests
  BY DEF FeedRequests
<1>8. \A a \in Abilities, l \in Languages : <<"abilitydata", a, l>> \in FeedRequests
  BY DEF FeedRequests
<1>9. "english" \in Languages /\ "schinese" \in Languages
  BY DEF Languages
<1>10. Passed("heroes", 1) => Supplemental \subseteq Abilities
  BY <1>0, ListsAreIn DEF Passed, Branches, BuildTypes, Askers
<1>11. \A k \in FeedRequests : IsDone(k) => IsDone(k)'
  BY ReadingsStay
<1>12. (Passed("heroes", 3) \/ Passed("heroes", 4) \/ Passed("heroes", 2)) => Passed("heroes", 1)
  BY <1>0, <1>5 DEF Passed, BuildTypes
<1>13. AnswersAreIn'
  <2>1. Passed("catalog", 1)' => IsDone(<<"patchnoteslist">>)'
    BY <1>0, <1>4, <1>5, <1>6, <1>11 DEF AnswersAreIn
  <2>2. \A i \in 1..6 : Passed("catalog", i + 1)' => IsDone(ListStages[i])'
    BY <1>0, <1>4, <1>5, <1>6, <1>11, ListsInOrder DEF AnswersAreIn
  <2>3. \A b \in Branches : stage'[b] # 0 => \A k \in Lists \X Languages : IsDone(k)'
    BY <1>0, <1>6, <1>11 DEF AnswersAreIn
  <2>4. \A i \in 1..5 : Passed("patches", i)' => IsDone(NoteStages[i])'
    BY <1>0, <1>4, <1>5, <1>11, NotesInOrder DEF AnswersAreIn
  <2>5. Passed("heroes", 1)' => \A h \in Heroes : IsDone(<<"herodata", h, "english">>)'
    BY <1>0, <1>4, <1>5, <1>7, <1>9, <1>11 DEF AnswersAreIn
  <2>6. Passed("heroes", 2)' => HeroesAgree'
    BY <1>0, <1>4, <1>5, ReadingsStay DEF AnswersAreIn
  <2>7. Passed("heroes", 3)' => \A a \in Supplemental' : IsDone(<<"abilitydata", a, "english">>)'
    BY <1>0, <1>4, <1>5, <1>8, <1>9, <1>10, <1>11, <1>12, ReadingsStay DEF AnswersAreIn
  <2>8. Passed("heroes", 4)' => \A a \in Supplemental' : IsDone(<<"abilitydata", a, "schinese">>)'
    BY <1>0, <1>4, <1>5, <1>8, <1>9, <1>10, <1>11, <1>12, ReadingsStay DEF AnswersAreIn
  <2> QED BY <2>1, <2>2, <2>3, <2>4, <2>5, <2>6, <2>7, <2>8 DEF AnswersAreIn
<1>14. ComparedAreIn'
  BY <1>0, <1>4, <1>5, <1>7, <1>9, <1>11 DEF ComparedAreIn
<1> QED BY <1>1, <1>2, <1>3, <1>13, <1>14 DEF BuildInv

(* The steps of calls keep the invariant.                                  *)
LEMMA CallsKeep ==
  ASSUME BuildInv,
         \/ Publishes
         \/ \E k \in FeedRequests : StartCall(k) \/ Answer(k)
              \/ (\E t \in Askers : AskFor(t, k)) \/ \E b \in BOOLEAN : FailCall(k, b)
  PROVE  BuildInv'
<1>0. BuildTypes /\ CallsFit /\ StagesFit /\ AskedAreNeeded
  BY DEF BuildInv
<1>1. CASE Publishes
  <2>1. valve' = valve + 1 /\ valve' <= MaxVersion /\ UNCHANGED <<answers, stage, asked>>
    BY <1>0, <1>1, BuildAssumption DEF Publishes, BuildTypes
  <2>2. valve' \in 1..MaxVersion
    BY <1>0, <2>1, BuildAssumption DEF BuildTypes
  <2>3. ResolvedStay /\ CallsFit'
    BY <1>0, <2>1 DEF ResolvedStay, CallsFit, Calling
  <2> QED BY <1>0, <2>1, <2>2, <2>3, AnswersMove DEF BuildTypes, AskedAreNeeded
<1>2. ASSUME NEW k \in FeedRequests, StartCall(k) PROVE BuildInv'
  <2>1. /\ answers[k].state = "queued" /\ Cardinality(Calling) < MaxConcurrency
        /\ answers' = [answers EXCEPT ![k] = [state |-> "calling", at |-> 1]]
        /\ UNCHANGED <<valve, stage, asked>>
    BY <1>2 DEF StartCall, MayCall
  <2>2. answers' \in [FeedRequests -> [state : AnswerStates, at : Nat]]
    BY <1>0, <2>1 DEF BuildTypes, AnswerStates
  <2>3. \A j \in FeedRequests : answers'[j] = (IF j = k THEN [state |-> "calling", at |-> 1] ELSE answers[j])
    BY <1>0, <2>1 DEF BuildTypes
  <2>4. ResolvedStay
    BY <2>1, <2>3 DEF ResolvedStay, Resolved
  <2>5. Calling' = Calling \cup {k} /\ k \notin Calling
    BY <2>1, <2>3 DEF Calling
  <2>6. CallsFit'
    <3>1. IsFiniteSet(Calling \cup {k}) /\ Cardinality(Calling \cup {k}) = Cardinality(Calling) + 1
      BY <1>0, <2>5, FS_AddElement DEF CallsFit
    <3>2. Cardinality(Calling) \in Nat
      BY <1>0, FS_CardinalityType DEF CallsFit
    <3>3. \A n, m \in Nat : n < m => n + 1 <= m
      OBVIOUS
    <3> QED BY <2>1, <2>5, <3>1, <3>2, <3>3, BuildAssumption DEF CallsFit
  <2>7. \A j \in FeedRequests : answers'[j].state = "done" => answers'[j].at \in 1..MaxVersion
    BY <1>0, <2>3 DEF BuildTypes
  <2>8. \A j \in FeedRequests : answers[j].state # "none" => answers'[j].state # "none"
    BY <2>3
  <2> QED BY <1>0, <2>1, <2>2, <2>4, <2>6, <2>7, <2>8, AnswersMove DEF BuildTypes, AskedAreNeeded
<1>3. ASSUME NEW k \in FeedRequests, NEW answer \in [state : AnswerStates, at : Nat],
             answers[k].state = "calling", answers' = [answers EXCEPT ![k] = answer],
             answer.state \in {"calling", "done", "failed"},
             answer.state = "done" => answer.at \in 1..MaxVersion, UNCHANGED <<valve, stage, asked>>
      PROVE  BuildInv'
  <2>1. \A j \in FeedRequests : answers'[j] = (IF j = k THEN answer ELSE answers[j])
    BY <1>0, <1>3 DEF BuildTypes
  <2>2. answers' \in [FeedRequests -> [state : AnswerStates, at : Nat]]
    BY <1>0, <1>3 DEF BuildTypes
  <2>3. ResolvedStay
    BY <1>3, <2>1 DEF ResolvedStay, Resolved
  <2>4. Calling' \subseteq Calling
    BY <1>3, <2>1 DEF Calling
  <2>5. CallsFit'
    <3>1. IsFiniteSet(Calling') /\ Cardinality(Calling') <= Cardinality(Calling)
      BY <1>0, <2>4, FS_Subset DEF CallsFit
    <3>2. Cardinality(Calling) \in Nat /\ Cardinality(Calling') \in Nat
      BY <1>0, <3>1, FS_CardinalityType DEF CallsFit
    <3> QED BY <1>0, <3>1, <3>2, BuildAssumption DEF CallsFit
  <2>6. \A j \in FeedRequests : answers'[j].state = "done" => answers'[j].at \in 1..MaxVersion
    BY <1>0, <1>3, <2>1 DEF BuildTypes
  <2>7. \A j \in FeedRequests : answers[j].state # "none" => answers'[j].state # "none"
    BY <1>3, <2>1
  <2> QED BY <1>0, <1>3, <2>2, <2>3, <2>5, <2>6, <2>7, AnswersMove DEF BuildTypes, AskedAreNeeded
<1>4. ASSUME NEW k \in FeedRequests, Answer(k) PROVE BuildInv'
  <2>1. PICK answer \in {[state |-> "done", at |-> valve], [state |-> "failed", at |-> 0]} :
          answers' = [answers EXCEPT ![k] = answer]
    BY <1>4 DEF Answer
  <2>2. answer \in [state : AnswerStates, at : Nat] /\ answer.state \in {"done", "failed"}
        /\ (answer.state = "done" => answer.at \in 1..MaxVersion)
    BY <1>0 DEF BuildTypes, AnswerStates
  <2> QED BY <1>3, <1>4, <2>1, <2>2 DEF Answer
<1>5. ASSUME NEW k \in FeedRequests, NEW b \in BOOLEAN, FailCall(k, b) PROVE BuildInv'
  <2>1. answers[k] \in [state : AnswerStates, at : Nat] /\ answers[k].state = "calling"
    BY <1>0, <1>5 DEF BuildTypes, FailCall
  <2>2. PICK answer \in {[answers[k] EXCEPT !.at = answers[k].at + 1], [state |-> "failed", at |-> 0]} :
          answers' = [answers EXCEPT ![k] = answer]
    BY <1>5 DEF FailCall
  <2>3. answer \in [state : AnswerStates, at : Nat] /\ answer.state \in {"calling", "failed"}
    BY <2>1, <2>2 DEF AnswerStates
  <2> QED BY <1>3, <1>5, <2>1, <2>2, <2>3 DEF FailCall
<1>6. ASSUME NEW k \in FeedRequests, NEW t \in Askers, AskFor(t, k) PROVE BuildInv'
  <2>1. /\ Busy(t) /\ k \in Needs(t) /\ k \notin asked[t] /\ asked' = [asked EXCEPT ![t] = @ \cup {k}]
        /\ answers' = IF answers[k] = Unasked THEN [answers EXCEPT ![k].state = "queued"] ELSE answers
        /\ UNCHANGED <<valve, stage>>
    BY <1>6 DEF AskFor, MayAsk
  <2>2. answers' \in [FeedRequests -> [state : AnswerStates, at : Nat]]
    BY <1>0, <2>1 DEF BuildTypes, AnswerStates
  <2>3. \A j \in FeedRequests :
          \/ answers'[j] = answers[j]
          \/ j = k /\ answers[j].state = "none" /\ answers'[j].state = "queued"
    BY <1>0, <2>1 DEF BuildTypes, Unasked
  <2>4. ResolvedStay
    BY <2>3 DEF ResolvedStay, Resolved
  <2>5. Calling' = Calling
    BY <2>3 DEF Calling
  <2>6. CallsFit'
    BY <1>0, <2>5 DEF CallsFit
  <2>7. \A j \in FeedRequests : answers'[j].state = "done" => answers'[j].at \in 1..MaxVersion
    BY <1>0, <2>3 DEF BuildTypes
  <2>8. \A j \in FeedRequests : answers[j].state # "none" => answers'[j].state # "none"
    BY <2>3
  <2>9. asked' \in [Askers -> SUBSET FeedRequests]
        /\ \A u \in Askers : asked'[u] = (IF u = t THEN asked[u] \cup {k} ELSE asked[u])
    BY <1>0, <2>1 DEF BuildTypes
  <2>10. answers'[k].state # "none"
    <3>1. CASE answers[k] = Unasked
      BY <1>0, <2>1, <3>1 DEF BuildTypes
    <3>2. CASE answers[k] # Unasked
      <4>1. answers[k].state # "none"
        BY <1>0, <3>2 DEF BuildTypes
      <4> QED BY <2>1, <3>2, <4>1
    <3> QED BY <3>1, <3>2
  <2> QED BY <1>0, <2>1, <2>2, <2>4, <2>6, <2>7, <2>8, <2>9, <2>10, AnswersMove DEF AskedAreNeeded, BuildTypes
<1> QED BY <1>1, <1>2, <1>4, <1>5, <1>6

(* A stage that ends well has its answers; it is over, or the next begins. *)
LEMMA StageEnds ==
  ASSUME BuildInv, NEW t \in Askers, EndStage(t)
  PROVE  /\ UNCHANGED <<valve, answers>> /\ stage[t] \in 1..8 /\ asked' = [asked EXCEPT ![t] = {}]
         /\ stage' \in [Askers -> 0..10]
         /\ stage'[t] = Broken \/
              /\ \A k \in Needs(t) : IsDone(k)
              /\ Agrees(t)
              /\ stage'[t] = IF stage[t] = LastStage(t) THEN Over ELSE stage[t] + 1
         /\ IF t = "catalog" /\ stage[t] = 7 /\ stage'[t] # Broken
            THEN \A u \in Askers \ {t} : stage'[u] = IF u \in Branches THEN 1 ELSE stage[u]
            ELSE \A u \in Askers \ {t} : stage'[u] = stage[u]
         /\ t = "catalog" => stage[t] < 8
<1>0. BuildTypes
  BY DEF BuildInv
<1>1. /\ Busy(t) /\ (t = "catalog" => stage[t] < 8) /\ asked[t] = Needs(t) /\ Pending(t) = {}
      /\ asked' = [asked EXCEPT ![t] = {}] /\ UNCHANGED <<valve, answers>>
  BY DEF EndStage, MayEnd
<1>2. stage \in [Askers -> 0..10] /\ stage[t] \in 1..8 /\ stage[t] \in Nat
  BY <1>0, <1>1 DEF BuildTypes, Busy
<1>3. stage[t] + 1 \in 0..10 /\ Broken \in 0..10 /\ Over \in 0..10 /\ 8 \in 0..10 /\ 1 \in 0..10
      /\ 7 + 1 = 8 /\ 7 # 8
  BY <1>2 DEF Broken, Over
<1>4. "heroes" \in Askers /\ "items" \in Askers /\ Branches = {"heroes", "items"}
  BY DEF Askers, Branches
<1>5. CASE StageFails(t)
  <2>1. stage' = [stage EXCEPT ![t] = Broken]
    BY <1>5 DEF EndStage
  <2> QED BY <1>1, <1>2, <1>3, <2>1
<1>6. CASE ~StageFails(t)
  <2>1. \A k \in Needs(t) : IsDone(k)
    <3>1. \A k \in asked[t] : Resolved(k) /\ answers[k].state # "failed"
      BY <1>1, <1>6 DEF Pending, StageFails
    <3> QED BY <1>1, <3>1 DEF Resolved, IsDone
  <2>2. Agrees(t)
    BY <1>6 DEF StageFails
  <2>3. CASE stage[t] = LastStage(t)
    <3>1. stage' = [stage EXCEPT ![t] = Over]
      BY <1>6, <2>3 DEF EndStage
    <3>2. ~(t = "catalog" /\ stage[t] = 7)
      BY <1>3, <2>3 DEF LastStage
    <3>3. stage' \in [Askers -> 0..10] /\ stage'[t] = Over /\ \A u \in Askers \ {t} : stage'[u] = stage[u]
      BY <1>2, <1>3, <3>1
    <3> QED BY <1>1, <1>2, <2>1, <2>2, <2>3, <3>2, <3>3
  <2>4. CASE stage[t] # LastStage(t) /\ t = "catalog" /\ stage[t] = 7
    <3>1. stage' = [stage EXCEPT ![t] = 8, !["heroes"] = 1, !["items"] = 1]
      BY <1>6, <2>4 DEF EndStage
    <3>2. /\ stage' \in [Askers -> 0..10] /\ stage'[t] = stage[t] + 1
          /\ \A u \in Askers \ {t} : stage'[u] = IF u \in Branches THEN 1 ELSE stage[u]
      BY <1>2, <1>3, <1>4, <2>4, <3>1
    <3>3. stage'[t] # Broken
      BY <1>3, <2>4, <3>2 DEF Broken
    <3> QED BY <1>1, <1>2, <2>1, <2>2, <2>4, <3>2, <3>3
  <2>5. CASE stage[t] # LastStage(t) /\ ~(t = "catalog" /\ stage[t] = 7)
    <3>1. stage' = [stage EXCEPT ![t] = stage[t] + 1]
      BY <1>6, <2>5 DEF EndStage
    <3>2. /\ stage' \in [Askers -> 0..10] /\ stage'[t] = stage[t] + 1
          /\ \A u \in Askers \ {t} : stage'[u] = stage[u]
      BY <1>2, <1>3, <3>1
    <3> QED BY <1>1, <1>2, <2>1, <2>2, <2>5, <3>2
  <2> QED BY <2>3, <2>4, <2>5
<1> QED BY <1>5, <1>6

(* What a stage that moves must establish, when no answer changes.         *)
LEMMA StagesMove ==
  ASSUME BuildInv, UNCHANGED <<valve, answers>>, stage' \in [Askers -> 0..10],
         asked' \in [Askers -> SUBSET FeedRequests],
         \A t \in Askers : asked'[t] = {} \/ (asked'[t] = asked[t] /\ stage'[t] = stage[t]),
         \A t \in Askers : stage'[t] = stage[t] \/ asked'[t] = {},
         StagesFit', AnswersAreIn', ComparedAreIn'
  PROVE  BuildInv'
<1>0. BuildTypes /\ CallsFit /\ AskedAreNeeded
  BY DEF BuildInv
<1>1. BuildTypes'
  BY <1>0 DEF BuildTypes
<1>2. CallsFit'
  BY <1>0 DEF CallsFit, Calling
<1>3. AskedAreNeeded'
  <2>1. ASSUME NEW t \in Askers, asked'[t] # {}
        PROVE  Busy(t)' /\ asked'[t] \subseteq Needs(t)' /\ \A k \in asked'[t] : answers'[k].state # "none"
    <3>1. stage'[t] = stage[t] /\ asked'[t] = asked[t]
      BY <2>1
    <3>2. Busy(t) /\ asked[t] \subseteq Needs(t) /\ \A k \in asked[t] : answers[k].state # "none"
      BY <1>0, <2>1, <3>1 DEF AskedAreNeeded
    <3>3. Supplemental' = Supplemental
      BY DEF Supplemental, ListedAbilities, HeroAbilities, Version
    <3>4. Needs(t)' = Needs(t)
      BY <3>1, <3>3 DEF Needs, Details, Askers, FeedJobs, Branches
    <3> QED BY <3>1, <3>2, <3>4 DEF Busy
  <2> QED BY <2>1 DEF AskedAreNeeded
<1> QED BY <1>1, <1>2, <1>3 DEF BuildInv

(* Facts about answers do not change with the stages.                      *)
LEMMA ReadingsKept ==
  ASSUME UNCHANGED answers
  PROVE  /\ \A k : IsDone(k)' <=> IsDone(k)
         /\ Supplemental' = Supplemental /\ (HeroesAgree' <=> HeroesAgree)
BY DEF IsDone, Supplemental, ListedAbilities, HeroAbilities, HeroesAgree, Version

(* The patch notes go on.                                                  *)
LEMMA NotesGoOn ==
  ASSUME BuildInv, EndStage("patches")
  PROVE  BuildInv'
<1>0. BuildTypes /\ StagesFit /\ AnswersAreIn /\ ComparedAreIn
  BY DEF BuildInv
<1> DEFINE n == stage["patches"]
<1>1. "patches" \in Askers /\ Branches \subseteq Askers \ {"patches"} /\ "catalog" \in Askers \ {"patches"}
      /\ "heroes" \in Branches /\ "items" \in Branches
  BY DEF Askers, FeedJobs, Branches
<1>2. /\ UNCHANGED <<valve, answers>> /\ n \in 1..8 /\ asked' = [asked EXCEPT !["patches"] = {}]
      /\ stage' \in [Askers -> 0..10] /\ \A u \in Askers \ {"patches"} : stage'[u] = stage[u]
      /\ stage'["patches"] = Broken \/
           /\ \A k \in Needs("patches") : IsDone(k)
           /\ stage'["patches"] = IF n = 5 THEN Over ELSE n + 1
  BY <1>1, StageEnds DEF LastStage
<1>3. n \in 1..5
  BY <1>0, <1>2 DEF StagesFit, Ended, Over, Broken
<1>4. stage'["patches"] \in 1..5 \cup Ended
  BY <1>2, <1>3 DEF Ended, Over, Broken
<1>5. StagesFit'
  BY <1>0, <1>1, <1>2, <1>4 DEF StagesFit, Busy
<1>6. \A u \in Askers \ {"patches"} : \A m : Passed(u, m)' <=> Passed(u, m)
  BY <1>2 DEF Passed
<1>7. \A i \in 1..5 : Passed("patches", i)' => IsDone(NoteStages[i])
  <2> SUFFICES ASSUME NEW i \in 1..5, Passed("patches", i)' PROVE IsDone(NoteStages[i])
    OBVIOUS
  <2>1. \A k \in Needs("patches") : IsDone(k)
    BY <1>2 DEF Passed
  <2>2. IsDone(NoteStages[n])
    BY <2>1, NeedsAre
  <2>3. stage'["patches"] = IF n = 5 THEN Over ELSE n + 1
    BY <1>2 DEF Passed
  <2>4. i = n \/ i < n
    BY <1>3, <2>3 DEF Passed, Over
  <2>5. i < n => Passed("patches", i)
    BY <1>3 DEF Passed, Broken
  <2> QED BY <1>0, <2>2, <2>4, <2>5 DEF AnswersAreIn
<1>8. AnswersAreIn'
  BY <1>0, <1>1, <1>2, <1>6, <1>7, ReadingsKept DEF AnswersAreIn
<1>9. ComparedAreIn'
  BY <1>0, <1>1, <1>2, <1>6, ReadingsKept DEF ComparedAreIn
<1> QED BY <1>0, <1>1, <1>2, <1>5, <1>8, <1>9, StagesMove DEF BuildTypes

(* The items' branch goes on.                                              *)
LEMMA ItemsGoOn ==
  ASSUME BuildInv, EndStage("items")
  PROVE  BuildInv'
<1>0. BuildTypes /\ StagesFit /\ AnswersAreIn /\ ComparedAreIn
  BY DEF BuildInv
<1> DEFINE n == stage["items"]
<1>1. "items" \in Askers /\ "patches" \in Askers \ {"items"} /\ "catalog" \in Askers \ {"items"}
      /\ "heroes" \in Askers \ {"items"} /\ Branches = {"heroes", "items"}
  BY DEF Askers, FeedJobs, Branches
<1>2. /\ UNCHANGED <<valve, answers>> /\ n \in 1..8 /\ asked' = [asked EXCEPT !["items"] = {}]
      /\ stage' \in [Askers -> 0..10] /\ \A u \in Askers \ {"items"} : stage'[u] = stage[u]
      /\ stage'["items"] = Broken \/ stage'["items"] = IF n = 2 THEN Over ELSE n + 1
  BY <1>1, StageEnds DEF LastStage
<1>3. n \in 1..2 /\ stage["catalog"] = 8
  <2>1. n \in 1..2
    BY <1>0, <1>2 DEF StagesFit, Ended, Over, Broken
  <2>2. ~(stage["catalog"] < 8) /\ stage["catalog"] \notin Ended
    BY <1>0, <1>1, <1>2 DEF StagesFit, Busy
  <2> QED BY <1>0, <2>1, <2>2 DEF StagesFit
<1>4. stage'["items"] \in {2, Over, Broken} /\ stage'["items"] \in 1..2 \cup Ended
  BY <1>2, <1>3 DEF Ended
<1>5. StagesFit'
  BY <1>0, <1>1, <1>2, <1>3, <1>4 DEF StagesFit, Busy, Ended, Over, Broken
<1>6. \A u \in Askers \ {"items"} : \A m : Passed(u, m)' <=> Passed(u, m)
  BY <1>2 DEF Passed
<1>7. AnswersAreIn'
  <2>1. \A b \in Branches : stage'[b] # 0 => stage[b] # 0
    BY <1>0, <1>1, <1>2, <1>3 DEF StagesFit
  <2> QED BY <1>0, <1>1, <1>2, <1>6, <2>1, ReadingsKept DEF AnswersAreIn
<1>8. ComparedAreIn'
  BY <1>0, <1>1, <1>2, <1>6, ReadingsKept DEF ComparedAreIn
<1> QED BY <1>0, <1>1, <1>2, <1>5, <1>7, <1>8, StagesMove DEF BuildTypes

(* The heroes' branch goes on: first their details, compared when both     *)
(* languages are in, then those of the abilities nobody owns.              *)
LEMMA HeroesGoOn ==
  ASSUME BuildInv, EndStage("heroes")
  PROVE  BuildInv'
<1>0. BuildTypes /\ StagesFit /\ AnswersAreIn /\ ComparedAreIn
  BY DEF BuildInv
<1> DEFINE n == stage["heroes"]
<1>1. "heroes" \in Askers /\ "patches" \in Askers \ {"heroes"} /\ "catalog" \in Askers \ {"heroes"}
      /\ "items" \in Askers \ {"heroes"} /\ Branches = {"heroes", "items"}
  BY DEF Askers, FeedJobs, Branches
<1>2. /\ UNCHANGED <<valve, answers>> /\ n \in 1..8 /\ asked' = [asked EXCEPT !["heroes"] = {}]
      /\ stage' \in [Askers -> 0..10] /\ \A u \in Askers \ {"heroes"} : stage'[u] = stage[u]
      /\ stage'["heroes"] = Broken \/
           /\ \A k \in Needs("heroes") : IsDone(k)
           /\ n = 2 => HeroesAgree
           /\ stage'["heroes"] = IF n = 4 THEN Over ELSE n + 1
  BY <1>1, StageEnds DEF LastStage, Agrees
<1>3. n \in 1..4 /\ stage["catalog"] = 8
  <2>1. n \in 1..4
    BY <1>0, <1>2 DEF StagesFit, Ended, Over, Broken
  <2>2. ~(stage["catalog"] < 8) /\ stage["catalog"] \notin Ended
    BY <1>0, <1>1, <1>2 DEF StagesFit, Busy
  <2> QED BY <1>0, <2>1, <2>2 DEF StagesFit
<1>4. stage'["heroes"] # 0 /\ stage'["heroes"] \in 1..4 \cup Ended
  BY <1>2, <1>3 DEF Ended, Over, Broken
<1>5. StagesFit'
  BY <1>0, <1>1, <1>2, <1>3, <1>4 DEF StagesFit, Busy, Ended, Over, Broken
<1>6. \A u \in Askers \ {"heroes"} : \A m : Passed(u, m)' <=> Passed(u, m)
  BY <1>2 DEF Passed
<1>7. ASSUME NEW m \in 1..4, Passed("heroes", m)'
      PROVE  Passed("heroes", m) \/ (m = n /\ \A k \in Needs("heroes") : IsDone(k))
  <2>1. /\ stage'["heroes"] = IF n = 4 THEN Over ELSE n + 1
        /\ \A k \in Needs("heroes") : IsDone(k)
    BY <1>2, <1>7 DEF Passed
  <2>2. m = n \/ m < n
    BY <1>3, <2>1, <1>7 DEF Passed, Over
  <2>3. m < n => Passed("heroes", m)
    BY <1>3 DEF Passed, Broken
  <2> QED BY <2>1, <2>2, <2>3
<1>8. ASSUME Passed("heroes", 1)' PROVE \A h \in Heroes : IsDone(<<"herodata", h, "english">>)
  <2>1. n = 1 => Needs("heroes") = {<<"herodata", h, "english">> : h \in Heroes}
    BY NeedsAre DEF Details
  <2>2. CASE Passed("heroes", 1)
    BY <1>0, <2>2 DEF AnswersAreIn
  <2>3. CASE n = 1 /\ \A k \in Needs("heroes") : IsDone(k)
    <3>1. \A h \in Heroes : <<"herodata", h, "english">> \in Needs("heroes")
      BY <2>1, <2>3
    <3> QED BY <2>3, <3>1
  <2>4. Passed("heroes", 1) \/ (n = 1 /\ \A k \in Needs("heroes") : IsDone(k))
    BY <1>7, <1>8
  <2> QED BY <2>2, <2>3, <2>4
<1>9. Passed("heroes", 2)' => /\ \A h \in Heroes : IsDone(<<"herodata", h, "schinese">>)
                              /\ HeroesAgree
  <2>1. n = 2 => Needs("heroes") = {<<"herodata", h, "schinese">> : h \in Heroes}
    BY NeedsAre DEF Details
  <2>2. stage'["heroes"] # Broken /\ n = 2 => HeroesAgree
    BY <1>2
  <2> QED BY <1>0, <1>7, <2>1, <2>2 DEF AnswersAreIn, ComparedAreIn, Passed
<1>10. ASSUME Passed("heroes", 3)' PROVE \A a \in Supplemental : IsDone(<<"abilitydata", a, "english">>)
  <2>1. n = 3 => Needs("heroes") = {<<"abilitydata", a, "english">> : a \in Supplemental}
    <3>1. 3 - 2 = 1 /\ ~(3 < 3)
      OBVIOUS
    <3> QED BY <3>1, NeedsAre DEF Details
  <2>2. CASE Passed("heroes", 3)
    BY <1>0, <2>2 DEF AnswersAreIn
  <2>3. CASE n = 3 /\ \A k \in Needs("heroes") : IsDone(k)
    <3>1. \A a \in Supplemental : <<"abilitydata", a, "english">> \in Needs("heroes")
      BY <2>1, <2>3
    <3> QED BY <2>3, <3>1
  <2>4. Passed("heroes", 3) \/ (n = 3 /\ \A k \in Needs("heroes") : IsDone(k))
    BY <1>7, <1>10
  <2> QED BY <2>2, <2>3, <2>4
<1>11. ASSUME Passed("heroes", 4)' PROVE \A a \in Supplemental : IsDone(<<"abilitydata", a, "schinese">>)
  <2>1. n = 4 => Needs("heroes") = {<<"abilitydata", a, "schinese">> : a \in Supplemental}
    <3>1. 4 - 2 # 1 /\ ~(4 < 3)
      OBVIOUS
    <3> QED BY <3>1, NeedsAre DEF Details
  <2>2. CASE Passed("heroes", 4)
    BY <1>0, <2>2 DEF AnswersAreIn
  <2>3. CASE n = 4 /\ \A k \in Needs("heroes") : IsDone(k)
    <3>1. \A a \in Supplemental : <<"abilitydata", a, "schinese">> \in Needs("heroes")
      BY <2>1, <2>3
    <3> QED BY <2>3, <3>1
  <2>4. Passed("heroes", 4) \/ (n = 4 /\ \A k \in Needs("heroes") : IsDone(k))
    BY <1>7, <1>11
  <2> QED BY <2>2, <2>3, <2>4
<1>12. AnswersAreIn'
  <2>1. \A b \in Branches : stage'[b] # 0 => stage[b] # 0
    BY <1>0, <1>1, <1>2, <1>3 DEF StagesFit
  <2> QED BY <1>0, <1>1, <1>2, <1>6, <1>8, <1>9, <1>10, <1>11, <2>1, ReadingsKept DEF AnswersAreIn
<1>13. ComparedAreIn'
  BY <1>2, <1>9, ReadingsKept DEF ComparedAreIn
<1> QED BY <1>0, <1>1, <1>2, <1>5, <1>12, <1>13, StagesMove DEF BuildTypes

(* The catalog's lists go on, one after the other; after the last one the  *)
(* branches begin.                                                         *)
LEMMA CatalogGoesOn ==
  ASSUME BuildInv, EndStage("catalog")
  PROVE  BuildInv'
<1>0. BuildTypes /\ StagesFit /\ AskedAreNeeded /\ AnswersAreIn /\ ComparedAreIn
  BY DEF BuildInv
<1> DEFINE n == stage["catalog"]
<1>1. "catalog" \in Askers /\ "patches" \in Askers \ {"catalog"} /\ "heroes" \in Askers \ {"catalog"}
      /\ "items" \in Askers \ {"catalog"} /\ Branches = {"heroes", "items"} /\ "patches" \notin Branches
      /\ Askers = {"catalog", "patches", "heroes", "items"}
  BY DEF Askers, FeedJobs, Branches
<1>2. /\ UNCHANGED <<valve, answers>> /\ n \in 1..7 /\ asked' = [asked EXCEPT !["catalog"] = {}]
      /\ stage' \in [Askers -> 0..10]
      /\ stage'["catalog"] = Broken \/
           /\ \A k \in Needs("catalog") : IsDone(k)
           /\ stage'["catalog"] = n + 1
      /\ IF n = 7 /\ stage'["catalog"] # Broken
         THEN \A u \in Askers \ {"catalog"} : stage'[u] = IF u \in Branches THEN 1 ELSE stage[u]
         ELSE \A u \in Askers \ {"catalog"} : stage'[u] = stage[u]
  BY <1>1, StageEnds DEF LastStage
<1>3. /\ stage["heroes"] = 0 /\ stage["items"] = 0 /\ stage'["patches"] = stage["patches"]
      /\ stage'["heroes"] \in {0, 1} /\ stage'["items"] \in {0, 1}
      /\ stage'["heroes"] = stage'["items"]
      /\ stage'["heroes"] = 1 <=> stage'["catalog"] = 8
  BY <1>0, <1>1, <1>2 DEF StagesFit, Broken
<1>4. StagesFit'
  BY <1>0, <1>1, <1>2, <1>3 DEF StagesFit, Busy, Ended, Over, Broken
<1>5. ASSUME NEW m \in 1..7, Passed("catalog", m)'
      PROVE  Passed("catalog", m) \/ (m = n /\ \A k \in Needs("catalog") : IsDone(k))
  BY <1>2, <1>5 DEF Passed, Broken
<1>6. Passed("catalog", 1)' => IsDone(<<"patchnoteslist">>)
  <2>1. n = 1 => Needs("catalog") = {<<"patchnoteslist">>}
    BY NeedsAre
  <2> QED BY <1>0, <1>5, <2>1 DEF AnswersAreIn
<1>7. \A i \in 1..6 : Passed("catalog", i + 1)' => IsDone(ListStages[i])
  <2> SUFFICES ASSUME NEW i \in 1..6, Passed("catalog", i + 1)' PROVE IsDone(ListStages[i])
    OBVIOUS
  <2>1. i + 1 \in 1..7 /\ i + 1 # 1 /\ i + 1 < 8 /\ (i + 1) - 1 = i
    OBVIOUS
  <2>2. CASE Passed("catalog", i + 1)
    BY <1>0, <2>2 DEF AnswersAreIn
  <2>3. CASE i + 1 = n /\ \A k \in Needs("catalog") : IsDone(k)
    BY <2>1, <2>3, NeedsAre
  <2> QED BY <1>5, <2>1, <2>2, <2>3
<1>8. stage'["catalog"] = 8 => \A k \in Lists \X Languages : IsDone(k)
  <2>1. stage'["catalog"] = 8 => \A i \in 1..6 : Passed("catalog", i + 1)'
    BY DEF Passed, Broken
  <2> QED BY <1>7, <2>1, ListsInOrder
<1>9. \A m : Passed("patches", m)' <=> Passed("patches", m)
  BY <1>3 DEF Passed
<1>10. \A m \in 1..4 : ~Passed("heroes", m)'
  BY <1>3 DEF Passed
<1>11. AnswersAreIn'
  BY <1>0, <1>1, <1>2, <1>3, <1>6, <1>7, <1>8, <1>9, <1>10, ReadingsKept DEF AnswersAreIn
<1>12. ComparedAreIn'
  BY <1>10 DEF ComparedAreIn
<1>13. \A t \in Askers : asked'[t] = {} \/ (asked'[t] = asked[t] /\ stage'[t] = stage[t])
  <2>1. asked["heroes"] = {} /\ asked["items"] = {}
    BY <1>0, <1>1, <1>3 DEF AskedAreNeeded, Busy
  <2> QED BY <1>0, <1>1, <1>2, <1>3, <2>1 DEF BuildTypes
<1>14. asked' \in [Askers -> SUBSET FeedRequests]
  BY <1>0, <1>2 DEF BuildTypes
<1>15. \A t \in Askers : stage'[t] = stage[t] \/ asked'[t] = {}
  BY <1>13
<1> QED BY <1>2, <1>4, <1>11, <1>12, <1>13, <1>14, <1>15, StagesMove

(* The branches are joined.                                                *)
LEMMA JoinKeeps ==
  ASSUME BuildInv, JoinBranches
  PROVE  BuildInv'
<1>0. BuildTypes /\ StagesFit /\ AskedAreNeeded /\ AnswersAreIn /\ ComparedAreIn
  BY DEF BuildInv
<1>1. "catalog" \in Askers /\ "patches" \in Askers \ {"catalog"} /\ "heroes" \in Askers \ {"catalog"}
      /\ "items" \in Askers \ {"catalog"} /\ Branches = {"heroes", "items"}
      /\ Askers = {"catalog", "patches", "heroes", "items"}
  BY DEF Askers, FeedJobs, Branches
<1>2. /\ stage["catalog"] = 8 /\ \A b \in Branches : stage[b] \in Ended
      /\ UNCHANGED <<valve, answers, asked>>
      /\ stage' = [stage EXCEPT !["catalog"] = IF \A b \in Branches : stage[b] = Over THEN Over ELSE Broken]
  BY DEF JoinBranches, MayJoin
<1>3. /\ stage' \in [Askers -> 0..10] /\ stage'["catalog"] \in Ended
      /\ stage'["catalog"] = Over => \A b \in Branches : stage[b] = Over
      /\ \A u \in Askers \ {"catalog"} : stage'[u] = stage[u]
  BY <1>0, <1>1, <1>2 DEF BuildTypes, Ended, Over, Broken
<1>4. StagesFit'
  BY <1>0, <1>1, <1>2, <1>3 DEF StagesFit, Busy, Ended, Over, Broken
<1>5. \A u \in Askers \ {"catalog"} : \A m : Passed(u, m)' <=> Passed(u, m)
  BY <1>3 DEF Passed
<1>6. \A m \in 1..7 : Passed("catalog", m)
  BY <1>2 DEF Passed, Broken
<1>7. \A i \in 1..6 : i + 1 \in 1..7
  OBVIOUS
<1>8. AnswersAreIn'
  BY <1>0, <1>1, <1>2, <1>3, <1>5, <1>6, <1>7, ReadingsKept DEF AnswersAreIn
<1>9. ComparedAreIn'
  BY <1>0, <1>1, <1>2, <1>5, ReadingsKept DEF ComparedAreIn
<1>10. asked["catalog"] = {}
  BY <1>0, <1>1, <1>2, NeedsAre DEF AskedAreNeeded
<1> QED BY <1>0, <1>1, <1>2, <1>3, <1>4, <1>8, <1>9, <1>10, StagesMove DEF BuildTypes

(* The invariant is inductive.                                             *)
LEMMA BuildInductive == BuildInv /\ [BuildNext]_buildVars => BuildInv'
<1> SUFFICES ASSUME BuildInv, [BuildNext]_buildVars PROVE BuildInv'
  OBVIOUS
<1>1. CASE UNCHANGED buildVars
  <2>1. UNCHANGED <<valve, answers, stage, asked>>
    BY <1>1 DEF buildVars
  <2>2. BuildTypes /\ StagesFit /\ AnswersAreIn /\ ComparedAreIn
    BY DEF BuildInv
  <2>3. StagesFit'
    BY <2>1, <2>2 DEF StagesFit, Busy
  <2>4. \A t, m : Passed(t, m)' <=> Passed(t, m)
    BY <2>1 DEF Passed
  <2>5. AnswersAreIn'
    BY <2>1, <2>2, <2>4, ReadingsKept DEF AnswersAreIn
  <2>6. ComparedAreIn'
    BY <2>1, <2>2, <2>4, ReadingsKept DEF ComparedAreIn
  <2> QED BY <2>1, <2>2, <2>3, <2>5, <2>6, StagesMove DEF BuildTypes
<1>2. CASE BuildNext
  <2>1. \/ \E t \in Askers : EndStage(t)
        \/ JoinBranches
        \/ Publishes
        \/ \E k \in FeedRequests : StartCall(k) \/ Answer(k)
             \/ (\E t \in Askers : AskFor(t, k)) \/ \E b \in BOOLEAN : FailCall(k, b)
    BY <1>2 DEF BuildNext, BuildStep
  <2>2. ASSUME NEW t \in Askers, EndStage(t) PROVE BuildInv'
    BY <2>2, NotesGoOn, ItemsGoOn, HeroesGoOn, CatalogGoesOn DEF Askers, FeedJobs, Branches
  <2> QED BY <2>1, <2>2, JoinKeeps, CallsKeep
<1> QED BY <1>1, <1>2

(* At first nothing was asked.                                             *)
LEMMA BuildInitially == BuildInit => BuildInv
<1> SUFFICES ASSUME BuildInit PROVE BuildInv
  OBVIOUS
<1>1. /\ valve = 1 /\ \A k \in FeedRequests : answers[k] = Unasked
      /\ answers = [k \in FeedRequests |-> Unasked]
      /\ stage \in [Askers -> {0, 1}] /\ asked \in [Askers -> SUBSET FeedRequests]
      /\ stage["catalog"] = 1 /\ stage["patches"] = 1 /\ stage["heroes"] = 0 /\ stage["items"] = 0
      /\ \A t \in Askers : asked[t] = {}
  BY DEF BuildInit, Askers, FeedJobs, Branches
<1>2. Unasked \in [state : AnswerStates, at : Nat] /\ Unasked.state = "none"
  BY DEF Unasked, AnswerStates
<1>3. BuildTypes
  BY <1>1, <1>2, BuildAssumption DEF BuildTypes
<1>4. Calling = {}
  BY <1>1, <1>2 DEF Calling
<1>5. CallsFit
  BY <1>4, FS_EmptySet, BuildAssumption DEF CallsFit
<1>6. StagesFit
  BY <1>1 DEF StagesFit, Ended, Over, Broken, Branches, Busy
<1>7. AskedAreNeeded
  BY <1>1 DEF AskedAreNeeded
<1>8. /\ \A n \in Nat \ {0} : ~Passed("catalog", n) /\ ~Passed("patches", n) /\ ~Passed("heroes", n)
      /\ \A n \in 1..6 : n + 1 \in Nat \ {0}
  BY <1>1 DEF Passed
<1>9. AnswersAreIn /\ ComparedAreIn
  BY <1>1, <1>8 DEF AnswersAreIn, ComparedAreIn, Branches
<1> QED BY <1>3, <1>5, <1>6, <1>7, <1>9 DEF BuildInv

(* A thread that is at work asks, or has something of it under way, or     *)
(* ends its stage.                                                         *)
LEMMA BusyMovesOn ==
  ASSUME BuildInv, NEW t \in Askers, Busy(t), t = "catalog" => stage[t] < 8
  PROVE  \/ Calling # {} \/ MayEnd(t)
         \/ \E k \in FeedRequests : MayCall(k) \/ MayAsk(t, k)
<1>0. asked[t] \subseteq Needs(t) /\ asked[t] \subseteq FeedRequests /\ Needs(t) \subseteq FeedRequests
      /\ \A k \in asked[t] : answers[k] \in [state : AnswerStates, at : Nat] /\ answers[k].state # "none"
  BY NeedsAreRequests DEF BuildInv, BuildTypes, AskedAreNeeded
<1>1. CASE Pending(t) # {}
  <2>1. PICK k \in asked[t] : ~Resolved(k)
    BY <1>1 DEF Pending
  <2>2. answers[k].state \in {"queued", "calling"} /\ k \in FeedRequests
    BY <1>0, <2>1 DEF Resolved, AnswerStates
  <2>3. CASE Calling = {} /\ answers[k].state = "queued"
    <3>1. Cardinality(Calling) < MaxConcurrency
      BY <2>3, FS_EmptySet, BuildAssumption
    <3> QED BY <2>2, <2>3, <3>1 DEF MayCall
  <2>4. CASE answers[k].state = "calling"
    BY <2>2, <2>4 DEF Calling
  <2> QED BY <2>2, <2>3, <2>4
<1>2. CASE Pending(t) = {} /\ asked[t] = Needs(t)
  BY <1>2 DEF MayEnd
<1>3. CASE Pending(t) = {} /\ asked[t] # Needs(t)
  <2>1. PICK k \in Needs(t) : k \notin asked[t]
    BY <1>0, <1>3
  <2>2. Cardinality(Pending(t)) < PoolSize
    BY <1>3, FS_EmptySet, BuildAssumption
  <2> QED BY <1>0, <2>1, <2>2 DEF MayAsk
<1> QED BY <1>1, <1>2, <1>3

(* No refresh waits for itself.                                            *)
LEMMA CallsStayBounded == BuildInv => CallsAreBounded
<1> SUFFICES ASSUME BuildInv, NEW j \in FeedJobs, stage[j] \notin Ended
             PROVE  \/ Calling # {} \/ MayJoin
                    \/ \E k \in FeedRequests : MayCall(k) \/ \E t \in Askers : MayAsk(t, k)
                    \/ \E t \in Askers : MayEnd(t)
  BY DEF CallsAreBounded, BuildInv, CallsFit
<1>0. StagesFit
  BY DEF BuildInv
<1>1. CASE j = "patches" \/ stage[j] < 8
  <2>1. j \in Askers /\ Busy(j) /\ (j = "catalog" => stage[j] < 8)
    BY <1>0, <1>1 DEF StagesFit, Busy, FeedJobs, Askers
  <2> QED BY <2>1, BusyMovesOn
<1>2. CASE j = "catalog" /\ ~(stage[j] < 8)
  <2>1. stage["catalog"] = 8
    BY <1>0, <1>2 DEF StagesFit
  <2>2. CASE \A b \in Branches : stage[b] \in Ended
    BY <2>1, <2>2 DEF MayJoin
  <2>3. CASE \E b \in Branches : stage[b] \notin Ended
    <3>1. PICK b \in Branches : stage[b] \notin Ended
      BY <2>3
    <3>2. b \in Askers /\ Busy(b) /\ b # "catalog"
      BY <1>0, <2>1, <3>1 DEF StagesFit, Busy, Branches, Askers
    <3> QED BY <3>2, BusyMovesOn
  <2> QED BY <2>2, <2>3
<1> QED BY <1>1, <1>2 DEF FeedJobs

(* What a build promises follows from the invariant.                       *)
LEMMA BuildSound == BuildInv => BuildIsSound
<1> SUFFICES ASSUME BuildInv PROVE BuildIsSound
  OBVIOUS
<1>0. BuildTypes /\ StagesFit /\ AskedAreNeeded /\ AnswersAreIn /\ ComparedAreIn
  BY DEF BuildInv
<1>1. BuildLeavesNothing
  BY <1>0 DEF BuildLeavesNothing, StagesFit, AskedAreNeeded, Askers
<1>2. BundleIsWhole
  <2> SUFFICES ASSUME stage["catalog"] = Over
               PROVE  /\ HeroAbilities("english") \cup Supplemental = ListedAbilities
                      /\ \A a \in ListedAbilities :
                           \/ \E h \in Heroes : \A l \in Languages : a \in Owned[Version(<<"herodata", h, l>>)][h]
                           \/ \A l \in Languages : answers[<<"abilitydata", a, l>>].state = "done"
    BY DEF BundleIsWhole
  <2>1. stage["heroes"] = Over
    BY <1>0 DEF StagesFit, Branches
  <2>2. Passed("heroes", 2) /\ Passed("heroes", 3) /\ Passed("heroes", 4)
    BY <2>1 DEF Passed, Over, Broken
  <2>3. HeroesAgree /\ \A a \in Supplemental : IsDone(<<"abilitydata", a, "english">>)
                                              /\ IsDone(<<"abilitydata", a, "schinese">>)
    BY <1>0, <2>2 DEF AnswersAreIn
  <2>4. HeroAbilities("english") \cup Supplemental = ListedAbilities
    BY <2>3 DEF HeroesAgree, Supplemental
  <2>5. ASSUME NEW a \in ListedAbilities
        PROVE  \/ \E h \in Heroes : \A l \in Languages : a \in Owned[Version(<<"herodata", h, l>>)][h]
               \/ \A l \in Languages : answers[<<"abilitydata", a, l>>].state = "done"
    <3>1. CASE a \in HeroAbilities("english")
      <4>1. PICK h \in Heroes : a \in Owned[Version(<<"herodata", h, "english">>)][h]
        BY <3>1 DEF HeroAbilities
      <4>2. a \in Owned[Version(<<"herodata", h, "schinese">>)][h]
        BY <2>3, <4>1 DEF HeroesAgree
      <4> QED BY <4>1, <4>2 DEF Languages
    <3>2. CASE a \in Supplemental
      BY <2>3, <3>2 DEF IsDone, Languages
    <3> QED BY <2>4, <3>1, <3>2
  <2> QED BY <2>4, <2>5
<1>3. NotesFitBundle
  <2> SUFFICES ASSUME NEW j \in FeedJobs, stage[j] = Over,
                      NEW k \in {<<"patchnoteslist">>} \cup (Lists \X {"english"})
               PROVE  IsDone(k)
    BY DEF NotesFitBundle, IsDone
  <2>1. CASE j = "patches"
    <3>1. \A i \in 1..5 : Passed("patches", i)
      BY <2>1 DEF Passed, Over, Broken
    <3> QED BY <1>0, <3>1, NotesInOrder DEF AnswersAreIn
  <2>2. CASE j = "catalog"
    <3>1. Passed("catalog", 1) /\ \A i \in 1..6 : Passed("catalog", i + 1)
      BY <2>2 DEF Passed, Over, Broken
    <3>2. Lists \X {"english"} \subseteq Lists \X Languages
      BY DEF Languages
    <3> QED BY <1>0, <3>1, <3>2, ListsInOrder DEF AnswersAreIn
  <2> QED BY <2>1, <2>2 DEF FeedJobs
<1> QED BY <1>1, <1>2, <1>3, CallsStayBounded DEF BuildIsSound

-----------------------------------------------------------------------------
(* The stores together                                                     *)

(* Every step of the stores is one of each of them, or nothing to it.      *)
LEMMA PartsMove ==
  [Next]_<<part, repoVars, displayVars, guideVars, buildVars>> =>
    [DisplayNext]_displayVars /\ [GuidesNext]_guideVars /\ [BuildNext]_buildVars
BY DEF Next

(* The three invariants hold at first.                                     *)
LEMMA PartsInitially == Init => DisplayInv /\ GuidesInv /\ BuildInv
<1> SUFFICES ASSUME Init PROVE GuidesInv
  BY DisplayInitially, BuildInitially DEF Init
<1> QED BY GuidesInitially DEF Init, GuidesInit, Imports

(* FilesAreSound: whatever fails, is killed or damaged, files and readers  *)
(* only name pictures that were stored, with the address and month they    *)
(* came with; reports and entries of guides say what happened; and a       *)
(* catalog that is built is whole, its calls bounded and never waiting     *)
(* for each other.                                                         *)
THEOREM FilesHold == Spec => []FilesAreSound
<1>1. Init => DisplayInv /\ GuidesInv /\ BuildInv
  BY PartsInitially
<1>2. DisplayInv /\ GuidesInv /\ BuildInv /\ [Next]_<<part, repoVars, displayVars, guideVars, buildVars>>
        => DisplayInv' /\ GuidesInv' /\ BuildInv'
  BY PartsMove, DisplayStep, GuidesStep, BuildInductive
<1>3. DisplayInv /\ GuidesInv /\ BuildInv => FilesAreSound
  BY PicturesSound, GuidesSound, BuildSound DEF FilesAreSound
<1> QED BY <1>1, <1>2, <1>3, PTL DEF Spec

(* FilesMoveForward: no step of a refresh, a reader, an import or a fault  *)
(* takes back a picture or a partition's snapshot, or writes over a file   *)
(* that is damaged.                                                        *)
THEOREM FilesMoveForwardHolds == Spec => FilesMoveForward
<1>1. Init => DisplayInv /\ GuidesInv /\ BuildInv
  BY PartsInitially
<1>2. DisplayInv /\ GuidesInv /\ BuildInv /\ [Next]_<<part, repoVars, displayVars, guideVars, buildVars>>
        => DisplayInv' /\ GuidesInv' /\ BuildInv'
  BY PartsMove, DisplayStep, GuidesStep, BuildInductive
<1>3. DisplayInv /\ [Next]_<<part, repoVars, displayVars, guideVars, buildVars>> =>
        [PicturesStep]_displayVars
  BY PartsMove, PicturesStayInStep
<1>4. GuidesInv /\ [Next]_<<part, repoVars, displayVars, guideVars, buildVars>> =>
        [\A p \in Parts : guideFiles'[p].state # "broken" => guideFiles'[p].snap >= guideFiles[p].snap]_guideVars
  BY PartsMove, GuidesKeptInStep
<1> QED BY <1>1, <1>2, <1>3, <1>4, PTL DEF Spec, FilesMoveForward, PicturesStay, PicturesStep, GuidesAreKept

===============================================================================
