----------------------------- MODULE DisplayFiles -----------------------------
(***************************************************************************)
(* The files behind the pictures (data_updates/image_refresh.py,           *)
(* team_refresh.py and their stores): assets named by their content, the   *)
(* image manifest, the team directory, the two refreshes that write them   *)
(* one after the other, and the readers that keep the last valid file.  A  *)
(* refresh may be killed, or fail on the disk, between any two writes.     *)
(***************************************************************************)
EXTENDS Integers, FiniteSets

CONSTANTS
  Entities,    \* heroes, items and abilities
  Teams,       \* teams of the provider
  Legacy,      \* teams the repository ships an image of
  Hashes,      \* contents of images
  NoHash,
  Urls, NoUrl, \* addresses of team images
  MaxPictures, \* bound: pictures of teams that ever came
  MaxMonth,    \* bound: months, which also number the catalog's patches
  MaxDamage    \* bound: files that are damaged from outside

ASSUME DisplayAssumption ==
  /\ Legacy \subseteq Teams /\ NoHash \notin Hashes /\ NoUrl \notin Urls
  /\ MaxMonth \in Nat \ {0} /\ {MaxPictures, MaxDamage} \subseteq Nat

VARIABLES
  assets,    \* images/assets: absent, whole, or not what its name says
  manifest,  \* images/manifest.json
  directory, \* display/teams.json
  month,     \* the calendar
  writer,    \* the refresh that is running, and its working copy
  shown,     \* the pictures named by _last_valid of the two readers
  fetched,   \* the teams' pictures that came, ever: <<team, address, month>>
  harmed     \* files damaged

displayVars == <<assets, manifest, directory, month, writer, shown, fetched, harmed>>

NoImage == [hash |-> NoHash, patch |-> 0]
NoPicture == [url |-> NoUrl, got |-> NoUrl, hash |-> NoHash, month |-> 0]
FileWith(s, data) == [state |-> s, data |-> data]
NoManifest == FileWith("none", [e \in Entities |-> NoImage])
NoDirectory == FileWith("none", [t \in Teams |-> NoPicture])
Pictures(data) == {data[x].hash : x \in DOMAIN data} \ {NoHash}
NoWriter == [job |-> "none", data |-> NoManifest.data, todo |-> {}, month |-> 0]

DisplayInit ==
  /\ assets = [h \in Hashes |-> "none"]
  /\ manifest = NoManifest /\ directory = NoDirectory
  /\ month = 1 /\ writer = NoWriter /\ fetched = {} /\ harmed = 0
  /\ shown = [images |-> {}, teams |-> {}]
-----------------------------------------------------------------------------
(* content_asset_is_valid *)
AssetIsWhole(h) == h # NoHash /\ assets[h] = "whole"

(* store_content_addressed_png: written unless what is there is valid *)
StoreAsset(h) == assets' = [assets EXCEPT ![h] = "whole"]

(* refresh_images: an invalid manifest is an error; images that are valid  *)
(* and of the current patch are skipped unless forced.                     *)
BeginImages(force) ==
  /\ writer.job = "none" /\ manifest.state # "bad"
  /\ writer' = [job |-> "images", data |-> manifest.data, month |-> month,
                todo |-> {e \in Entities : LET entry == manifest.data[e] IN
                            force \/ entry.patch # month \/ ~AssetIsWhole(entry.hash)}]
  /\ UNCHANGED <<assets, manifest, directory, month, shown, fetched, harmed>>

FetchImage(e, h) ==
  /\ writer.job = "images" /\ e \in writer.todo
  /\ StoreAsset(h)
  /\ writer' = [writer EXCEPT !.data[e] = [hash |-> h, patch |-> writer.month], !.todo = @ \ {e}]
  /\ UNCHANGED <<manifest, directory, month, shown, fetched, harmed>>

(* A download that fails is counted, and the old entry stays *)
ImageFails(e) ==
  /\ writer.job = "images" /\ e \in writer.todo
  /\ writer' = [writer EXCEPT !.todo = @ \ {e}]
  /\ UNCHANGED <<assets, manifest, directory, month, shown, fetched, harmed>>

(* The manifest is replaced at the end; an unchanged one has the same data *)
PublishManifest ==
  /\ writer.job = "images" /\ writer.todo = {}
  /\ manifest' = FileWith("good", writer.data) /\ writer' = NoWriter
  /\ UNCHANGED <<assets, directory, month, shown, fetched, harmed>>
-----------------------------------------------------------------------------
(* refresh_team_directory reads the file strictly; without one the shipped *)
(* images are imported first.                                              *)
BeginTeams ==
  /\ writer.job = "none" /\ directory.state # "bad"
  /\ writer' = [job |-> IF directory.state = "none" THEN "import" ELSE "source",
                data |-> directory.data, month |-> month,
                todo |-> IF directory.state = "none" THEN Legacy ELSE {}]
  /\ UNCHANGED <<assets, manifest, directory, month, shown, fetched, harmed>>

(* A shipped record; its image may be missing or no image *)
ImportTeam(t, h, u) ==
  /\ writer.job = "import" /\ t \in writer.todo
  /\ IF h = NoHash THEN UNCHANGED <<assets, fetched>>
     ELSE StoreAsset(h) /\ fetched' = fetched \cup {<<t, u, 0>>}
  /\ writer' = [writer EXCEPT !.todo = @ \ {t},
       !.data[t] = [url |-> u, got |-> IF h = NoHash THEN NoUrl ELSE u, hash |-> h, month |-> 0]]
  /\ UNCHANGED <<manifest, directory, month, shown, harmed>>

PublishImported ==
  /\ writer.job = "import" /\ writer.todo = {}
  /\ directory' = FileWith("good", writer.data)
  /\ shown' = [shown EXCEPT !.teams = Pictures(writer.data)]
  /\ writer' = [writer EXCEPT !.job = "source"]
  /\ UNCHANGED <<assets, manifest, month, fetched, harmed>>

(* An image is asked for when it is another, none, damaged or a month old *)
MustDownload(r, m) == r.got = NoUrl \/ r.got # r.url \/ ~AssetIsWhole(r.hash) \/ r.month # m

(* The provider's teams, with the addresses it has now *)
ReadSource ==
  /\ writer.job = "source"
  /\ \E seen \in SUBSET Teams : \E urls \in [seen -> Urls \cup {NoUrl}] :
       LET data == [t \in Teams |-> IF t \in seen THEN [writer.data[t] EXCEPT !.url = urls[t]]
                                    ELSE writer.data[t]]
       IN  writer' = [writer EXCEPT !.job = "teams", !.data = data,
             !.todo = {t \in seen : urls[t] # NoUrl /\ MustDownload(data[t], writer.month)}]
  /\ UNCHANGED <<assets, manifest, directory, month, shown, fetched, harmed>>

FetchTeam(t, h) ==
  /\ writer.job = "teams" /\ t \in writer.todo
  /\ StoreAsset(h)
  /\ writer' = [writer EXCEPT !.todo = @ \ {t},
       !.data[t] = [url |-> @.url, got |-> @.url, hash |-> h, month |-> writer.month]]
  /\ fetched' = fetched \cup {<<t, writer.data[t].url, writer.month>>}
  /\ Cardinality(fetched') <= MaxPictures
  /\ UNCHANGED <<manifest, directory, month, shown, harmed>>

(* Broken variant: the month is marked whether the image came or not *)
TeamFailsMarked(t) ==
  /\ writer.job = "teams" /\ t \in writer.todo
  /\ writer' = [writer EXCEPT !.todo = @ \ {t}, !.data[t].month = writer.month]
  /\ UNCHANGED <<assets, manifest, directory, month, shown, fetched, harmed>>

(* A team whose image does not come keeps the one it has, and its mark *)
TeamFails(t) ==
  /\ writer.job = "teams" /\ t \in writer.todo
  /\ writer' = [writer EXCEPT !.todo = @ \ {t}]
  /\ UNCHANGED <<assets, manifest, directory, month, shown, fetched, harmed>>

(* The directory is replaced, and the store that wrote it shows it *)
PublishTeams ==
  /\ writer.job = "teams" /\ writer.todo = {}
  /\ directory' = FileWith("good", writer.data) /\ writer' = NoWriter
  /\ UNCHANGED <<assets, manifest, month, shown, fetched, harmed>>
-----------------------------------------------------------------------------
(* Killed, cancelled, an invalid source or a full disk: nothing is undone *)
AbandonRefresh ==
  /\ writer.job # "none" /\ writer' = NoWriter
  /\ UNCHANGED <<assets, manifest, directory, month, shown, fetched, harmed>>

(* read_current of the readers: a file that is not valid changes nothing *)
ReadManifest ==
  /\ manifest.state = "good" /\ shown' = [shown EXCEPT !.images = Pictures(manifest.data)]
  /\ UNCHANGED <<assets, manifest, directory, month, writer, fetched, harmed>>

ReadDirectory ==
  /\ directory.state = "good" /\ shown' = [shown EXCEPT !.teams = Pictures(directory.data)]
  /\ UNCHANGED <<assets, manifest, directory, month, writer, fetched, harmed>>

(* The reading process starts anew, with nothing *)
RestartReaders ==
  /\ shown' = [images |-> {}, teams |-> {}]
  /\ UNCHANGED <<assets, manifest, directory, month, writer, fetched, harmed>>

NextMonth ==
  /\ month < MaxMonth /\ month' = month + 1
  /\ UNCHANGED <<assets, manifest, directory, writer, shown, fetched, harmed>>

DamageFile ==
  /\ harmed < MaxDamage /\ harmed' = harmed + 1
  /\ \/ /\ \E h \in Hashes : assets[h] = "whole" /\ assets' = [assets EXCEPT ![h] = "bad"]
        /\ UNCHANGED <<manifest, directory>>
     \/ /\ writer.job = "none" /\ manifest' = FileWith("bad", NoManifest.data)
        /\ UNCHANGED <<assets, directory>>
     \/ /\ writer.job = "none" /\ directory' = FileWith("bad", NoDirectory.data)
        /\ UNCHANGED <<assets, manifest>>
  /\ UNCHANGED <<month, writer, shown, fetched>>
-----------------------------------------------------------------------------
DisplayNext ==
  \/ \E f \in BOOLEAN : BeginImages(f)
  \/ \E e \in Entities : ImageFails(e) \/ \E h \in Hashes : FetchImage(e, h)
  \/ \E t \in Teams : TeamFails(t) \/ \E h \in Hashes : FetchTeam(t, h)
  \/ \E t \in Teams, h \in Hashes \cup {NoHash}, u \in Urls : ImportTeam(t, h, u)
  \/ BeginTeams \/ PublishImported \/ ReadSource \/ PublishManifest \/ PublishTeams \/ AbandonRefresh
  \/ ReadManifest \/ ReadDirectory \/ RestartReaders \/ NextMonth \/ DamageFile

DisplaySpec == DisplayInit /\ [][DisplayNext]_displayVars
-----------------------------------------------------------------------------
(* Whatever a file or a reader names was stored before it was named        *)
(* (image_refresh.py 150, team_refresh.py 178).                            *)
NothingDangles ==
  \A h \in Pictures(manifest.data) \cup Pictures(directory.data) \cup shown.images \cup shown.teams :
    assets[h] # "none"

(* A team's record has a picture that came, from the address and in the    *)
(* month it gives (team_refresh.py 188).                                   *)
RecordsAreTrue ==
  \A t \in Teams : LET r == directory.data[t] IN
    r.hash # NoHash => <<t, r.got, r.month>> \in fetched

PicturesAreSound == NothingDangles /\ RecordsAreTrue

(* A picture once published stays until another replaces it, and a damaged *)
(* file is never overwritten (team_directory_store.py 186).                *)
PicturesStay ==
  [][/\ directory.state = "bad" => directory' = directory
     /\ manifest.state = "bad" => manifest' = manifest
     /\ directory'.state = "good" =>
          \A t \in Teams : directory.data[t].hash # NoHash => directory'.data[t].hash # NoHash
     /\ manifest'.state = "good" =>
          \A e \in Entities : manifest.data[e] # NoImage =>
                                manifest'.data[e].patch >= manifest.data[e].patch]_displayVars
=============================================================================
