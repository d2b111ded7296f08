------------------------------ MODULE DiskFiles -----------------------------
(***************************************************************************)
(* The files behind the disks (sync_client/client.py): every run of        *)
(* sync-client calls arrange_disk_backing_files twice, first without and   *)
(* then with a download callback.  Each call deletes the files of disks    *)
(* the target state no longer lists and then looks at the listed disks one *)
(* by one, downloading a missing image through a .partial file and writing *)
(* its key file.  A run may be cut short between any two steps (SIGTERM or *)
(* SIGKILL from the daemon, a crash, an exception), and the server may     *)
(* publish another target state at any time; only the files survive a run. *)
(***************************************************************************)
EXTENDS Integers, FiniteSets

CONSTANTS
  Disks,      \* disk uuids
  Keyed,      \* those whose record has an encryption_key
  Size,       \* length of every image, in download blocks
  None,       \* no disk
  MaxPublish  \* bound: how often the server changes the target state

ASSUME DiskFilesAssumption ==
  /\ Keyed \subseteq Disks
  /\ Size \in Nat \ {0}
  /\ None \notin Disks
  /\ MaxPublish \in Nat

VARIABLES
  image,      \* length of <uuid>.<type>, or Absent
  partial,    \* length of <uuid>.<type>.partial, or Absent
  delta,      \* length of the snapshots <uuid>_<tag>.vhd, or Absent
  keyfile,    \* the key file on /config: "none", "empty" or "whole"
  published,  \* the disks the server's target state lists
  changes,    \* how often the server changed it
  wanted,     \* the disks listed in the state this run received
  pc,         \* where the run is
  pass,       \* which of the two calls: 1 has no download callback
  todo,       \* the disks the call has still to look at
  cur,        \* the disk it is downloading, or None
  info,       \* diskinfo, the result of the call
  fetched     \* the disks this run downloaded (just_created was True)

files  == <<image, partial, delta, keyfile>>
server == <<published, changes>>
run    == <<wanted, pc, pass, todo, cur, info, fetched>>
vars   == <<files, server, run>>

Absent == -1

Downloading == {"stream", "rename", "openkey", "writekey", "record"}

TypeOK ==
  /\ image \in [Disks -> Absent .. Size]
  /\ partial \in [Disks -> Absent .. Size]
  /\ delta \in [Disks -> {Absent, 1}]
  /\ keyfile \in [Disks -> {"none", "empty", "whole"}]
  /\ published \subseteq Disks /\ changes \in 0 .. MaxPublish
  /\ wanted \subseteq Disks
  /\ pc \in {"off", "prune", "each", "vms"} \cup Downloading
  /\ pass \in {1, 2}
  /\ todo \subseteq wanted
  /\ cur \in Disks \cup {None}
  /\ info \in [Disks -> 0 .. Size]
  /\ fetched \subseteq wanted

Init ==
  /\ image = [d \in Disks |-> Absent]
  /\ partial = [d \in Disks |-> Absent]
  /\ delta = [d \in Disks |-> Absent]
  /\ keyfile = [d \in Disks |-> "none"]
  /\ published \in SUBSET Disks /\ changes = 0
  /\ wanted = {} /\ pc = "off" /\ pass = 1
  /\ todo = {} /\ cur = None
  /\ info = [d \in Disks |-> 0]
  /\ fetched = {}

-----------------------------------------------------------------------------
(* delete_unused_disks.                                                    *)

StartRun ==
  /\ pc = "off"
  /\ wanted' = published
  /\ pc' = "prune" /\ pass' = 1
  /\ fetched' = {}
  /\ UNCHANGED <<todo, cur, info, files, server>>

Exists(length) == length # Absent

\* Faulty: the file names of unfinished downloads are kept.
UnlinkImages(d) ==
  /\ pc = "prune"
  /\ d \notin wanted
  /\ \/ Exists(image[d]) /\ image' = [image EXCEPT ![d] = Absent]
        /\ UNCHANGED <<partial, delta>>
     \/ Exists(delta[d]) /\ delta' = [delta EXCEPT ![d] = Absent]
        /\ UNCHANGED <<image, partial>>
  /\ UNCHANGED <<keyfile, run, server>>

\* Faulty: the .partial files of listed disks are deleted too.
UnlinkAnyPartial(d) ==
  /\ pc = "prune"
  /\ \/ d \notin wanted /\ Exists(image[d]) /\ image' = [image EXCEPT ![d] = Absent]
        /\ UNCHANGED <<partial, delta>>
     \/ Exists(partial[d]) /\ partial' = [partial EXCEPT ![d] = Absent]
        /\ UNCHANGED <<image, delta>>
     \/ d \notin wanted /\ Exists(delta[d]) /\ delta' = [delta EXCEPT ![d] = Absent]
        /\ UNCHANGED <<image, partial>>
  /\ UNCHANGED <<keyfile, run, server>>

\* Key files stay behind: only DISK_DIR is listed.
Unlink(d) ==
  /\ pc = "prune"
  /\ d \notin wanted
  /\ \/ Exists(image[d]) /\ image' = [image EXCEPT ![d] = Absent]
        /\ UNCHANGED <<partial, delta>>
     \/ Exists(partial[d]) /\ partial' = [partial EXCEPT ![d] = Absent]
        /\ UNCHANGED <<image, delta>>
     \/ Exists(delta[d]) /\ delta' = [delta EXCEPT ![d] = Absent]
        /\ UNCHANGED <<image, partial>>
  /\ UNCHANGED <<keyfile, run, server>>

\* Faulty: a file name with two dots is not recognised as a disk's.
UnusedImages(d) == d \notin wanted /\ (Exists(image[d]) \/ Exists(delta[d]))

Unused(d) ==
  d \notin wanted /\ (Exists(image[d]) \/ Exists(partial[d]) \/ Exists(delta[d]))

EndPrune ==
  /\ pc = "prune"
  /\ \A d \in Disks : ~Unused(d)
  /\ pc' = "each"
  /\ todo' = wanted
  /\ info' = [d \in Disks |-> 0]
  /\ UNCHANGED <<wanted, pass, cur, fetched, files, server>>

-----------------------------------------------------------------------------
(* ensure_disk_downloaded and HTTPServer.download.                         *)

Done(d, length) ==
  /\ info' = [info EXCEPT ![d] = length]
  /\ todo' = todo \ {d}

Have(d) ==
  /\ pc = "each" /\ d \in todo
  /\ Exists(image[d])
  /\ Done(d, image[d])
  /\ UNCHANGED <<wanted, pc, pass, cur, fetched, files, server>>

\* Faulty: the failed stat's result is recorded as the size.
MissingAsAbsent(d) ==
  /\ pc = "each" /\ d \in todo
  /\ pass = 1 /\ ~Exists(image[d])
  /\ Done(d, image[d])
  /\ UNCHANGED <<wanted, pc, pass, cur, fetched, files, server>>

Missing(d) ==
  /\ pc = "each" /\ d \in todo
  /\ pass = 1 /\ ~Exists(image[d])
  /\ Done(d, 0)
  /\ UNCHANGED <<wanted, pc, pass, cur, fetched, files, server>>

Length(d) == IF Exists(partial[d]) THEN partial[d] ELSE 0

\* Faulty: the partial file is opened with O_TRUNC.
StartDownloadTrunc(d) ==
  /\ pc = "each" /\ d \in todo
  /\ pass = 2 /\ ~Exists(image[d])
  /\ cur' = d
  /\ pc' = "stream" /\ partial' = [partial EXCEPT ![d] = 0]
  /\ UNCHANGED <<wanted, pass, todo, info, fetched, image, delta, keyfile, server>>

\* Faulty: an existing partial file is taken for a complete one.
StartDownloadNoResume(d) ==
  /\ pc = "each" /\ d \in todo
  /\ pass = 2 /\ ~Exists(image[d])
  /\ cur' = d
  /\ IF ~Exists(partial[d])
     THEN pc' = "stream" /\ partial' = [partial EXCEPT ![d] = 0]
     ELSE pc' = "rename" /\ UNCHANGED partial
  /\ UNCHANGED <<wanted, pass, todo, info, fetched, image, delta, keyfile, server>>

\* A complete .partial needs no curl; otherwise O_CREAT makes the file.
StartDownload(d) ==
  /\ pc = "each" /\ d \in todo
  /\ pass = 2 /\ ~Exists(image[d])
  /\ cur' = d
  /\ IF Length(d) < Size
     THEN pc' = "stream" /\ partial' = [partial EXCEPT ![d] = Length(d)]
     ELSE pc' = "rename" /\ UNCHANGED partial
  /\ UNCHANGED <<wanted, pass, todo, info, fetched, image, delta, keyfile, server>>

Receive ==
  /\ pc = "stream"
  /\ partial[cur] < Size
  /\ partial' = [partial EXCEPT ![cur] = @ + 1]
  /\ UNCHANGED <<image, delta, keyfile, run, server>>

\* Faulty: the end of the stream is enough, curl's exit status is not read.
StreamEndsUnchecked ==
  /\ pc = "stream"
  /\ pc' = "rename"
  /\ UNCHANGED <<wanted, pass, todo, cur, info, fetched, files, server>>

\* curl exits 0 only when it passed the whole range on; otherwise Abort.
StreamEnds ==
  /\ pc = "stream"
  /\ partial[cur] = Size
  /\ pc' = "rename"
  /\ UNCHANGED <<wanted, pass, todo, cur, info, fetched, files, server>>

Rename ==
  /\ pc = "rename"
  /\ image' = [image EXCEPT ![cur] = partial[cur]]
  /\ partial' = [partial EXCEPT ![cur] = Absent]
  /\ fetched' = fetched \cup {cur}
  /\ pc' = IF cur \in Keyed THEN "openkey" ELSE "record"
  /\ UNCHANGED <<wanted, pass, todo, cur, info, delta, keyfile, server>>

-----------------------------------------------------------------------------
(* place_vhd_key: Icbinn.write_file creates the file and then fills it.    *)

OpenKey ==
  /\ pc = "openkey"
  /\ keyfile' = [keyfile EXCEPT ![cur] = IF @ = "none" THEN "empty" ELSE @]
  /\ pc' = "writekey"
  /\ UNCHANGED <<wanted, pass, todo, cur, info, fetched, image, partial, delta, server>>

\* Faulty: the key is written for encrypted snapshots only.
WriteKeyNot ==
  /\ pc = "writekey"
  /\ pc' = "record"
  /\ UNCHANGED <<wanted, pass, todo, cur, info, fetched, files, server>>

WriteKey ==
  /\ pc = "writekey"
  /\ keyfile' = [keyfile EXCEPT ![cur] = "whole"]
  /\ pc' = "record"
  /\ UNCHANGED <<wanted, pass, todo, cur, info, fetched, image, partial, delta, server>>

Record ==
  /\ pc = "record"
  /\ Done(cur, image[cur])
  /\ cur' = None
  /\ pc' = "each"
  /\ UNCHANGED <<wanted, pass, fetched, files, server>>

-----------------------------------------------------------------------------
(* The rest of the run.                                                    *)

EndPass ==
  /\ pc = "each" /\ todo = {}
  /\ pc' = "vms"
  /\ UNCHANGED <<wanted, pass, todo, cur, info, fetched, files, server>>

\* arrange_vms makes a snapshot; from then on it holds a user's data.
Snapshot(d) ==
  /\ pc = "vms" /\ d \in wanted
  /\ info[d] # 0 /\ ~Exists(delta[d])
  /\ delta' = [delta EXCEPT ![d] = 1]
  /\ UNCHANGED <<image, partial, keyfile, run, server>>

EndVms ==
  /\ pc = "vms"
  /\ IF pass = 1 THEN pass' = 2 /\ pc' = "prune"
                 ELSE pc' = "off" /\ UNCHANGED pass
  /\ UNCHANGED <<wanted, todo, cur, info, fetched, files, server>>

Abort ==
  /\ pc # "off"
  /\ pc' = "off"
  /\ todo' = {} /\ cur' = None
  /\ UNCHANGED <<wanted, pass, info, fetched, files, server>>

Publish(L) ==
  /\ changes < MaxPublish
  /\ published' = L /\ changes' = changes + 1
  /\ UNCHANGED <<files, run>>

DiskStep(d) ==
  \/ Unlink(d)
  \/ Have(d)
  \/ Missing(d)
  \/ StartDownload(d)
  \/ Snapshot(d)

RunStep ==
  \/ StartRun
  \/ EndPrune
  \/ Receive
  \/ StreamEnds
  \/ Rename
  \/ OpenKey
  \/ WriteKey
  \/ Record
  \/ EndPass
  \/ EndVms

Next ==
  \/ RunStep
  \/ \E d \in Disks : DiskStep(d)
  \/ Abort
  \/ \E L \in SUBSET Disks : Publish(L)

Spec == Init /\ [][Next]_vars

(***************************************************************************)
(* The daemon starts run after run and ends one that hangs, and no step    *)
(* fails in every run that gets to it.  Aborts remain possible at every    *)
(* step, for ever.                                                         *)
(***************************************************************************)
Fairness ==
  /\ WF_vars(RunStep)
  /\ \A p \in {1, 2} : SF_vars(EndPrune /\ pass = p)
  /\ SF_vars(EndPass) /\ SF_vars(EndVms)
  /\ SF_vars(Receive) /\ SF_vars(StreamEnds) /\ SF_vars(Rename)
  /\ \A d \in Disks :
       SF_vars(Unlink(d)) /\ SF_vars(Have(d)) /\ SF_vars(Missing(d))
         /\ SF_vars(StartDownload(d))

FairSpec == Spec /\ Fairness

-----------------------------------------------------------------------------
(* Properties.                                                             *)

Gone(d) == image[d] = Absent /\ partial[d] = Absent /\ delta[d] = Absent

(***************************************************************************)
(* An image is never seen under its own name before it is complete,        *)
(* whatever earlier runs left behind and wherever a run is cut short.      *)
(***************************************************************************)
ImageWhole == \A d \in Disks : image[d] \in {Absent, Size}

(***************************************************************************)
(* What arrange_vms is told after either call is true: the result gives    *)
(* every listed disk's length, 0 exactly for a missing one, after the      *)
(* second call none is missing, and no other disk has a file left.         *)
(***************************************************************************)
Reconciled ==
  pc = "vms" =>
    \A d \in Disks :
      IF d \in wanted
      THEN /\ info[d] = IF Exists(image[d]) THEN image[d] ELSE 0
           /\ pass = 2 => info[d] = Size
      ELSE Gone(d)

(***************************************************************************)
(* What was downloaded and what a user wrote is kept while the disk is     *)
(* listed: no step of a run shortens a file of a disk that the run's state *)
(* lists, except that the rename turns a partial file into the image.      *)
(***************************************************************************)
Shrinks(d) ==
  \/ image'[d] < image[d]
  \/ delta'[d] < delta[d]
  \/ partial'[d] < partial[d] /\ image'[d] < partial[d]

NothingLostWhileListed == [][\A d \in Disks : Shrinks(d) => d \notin wanted]_vars

(***************************************************************************)
(* A disk with an encryption key that this run downloaded has its key file *)
(* when the virtual machines are arranged.                                 *)
(***************************************************************************)
KeyedIfFetched ==
  pc = "vms" => \A d \in fetched \cap Keyed : keyfile[d] = "whole"

(***************************************************************************)
(* "Ensure that disks have been downloaded and key files created": after   *)
(* the second call every listed disk with an encryption key has its key    *)
(* file.  The code does not promise this across runs.                      *)
(***************************************************************************)
KeyFilesCreated ==
  pc = "vms" /\ pass = 2 => \A d \in wanted \cap Keyed : keyfile[d] = "whole"

(***************************************************************************)
(* A disk the server keeps listing is eventually there to stay, although   *)
(* runs may be cut short without end, because each continues the .partial  *)
(* file of the one before.                                                 *)
(***************************************************************************)
ListedDisksArrive ==
  \A d \in Disks :
    <>[](d \in published) => <>[](image[d] = Size)

(***************************************************************************)
(* A disk the server no longer lists eventually gives its space back.      *)
(***************************************************************************)
UnlistedDisksGo ==
  \A d \in Disks :
    <>[](d \notin published) =>
      <>[]Gone(d)

(***************************************************************************)
(* To its caller the file handling looks like DiskCatalog: whole images,   *)
(* dropped only when not listed, and exactly the listed ones at the end.   *)
(***************************************************************************)
Catalog == INSTANCE DiskCatalog WITH
  listed  <- wanted,
  have    <- {d \in Disks : image[d] = Size},
  settled <- (pc = "vms" /\ pass = 2)

CatalogSpec == Catalog!Spec
=============================================================================
