--------------------------- MODULE DiskFilesProofs --------------------------
(***************************************************************************)
(* Proofs about DiskFiles for any set of disks, any image size and any     *)
(* sequence of target states, with runs cut short anywhere.                *)
(***************************************************************************)
EXTENDS DiskFiles, TLAPS

USE DiskFilesAssumption

-----------------------------------------------------------------------------
(* The inductive invariant.                                                *)

PastPrune == {"each", "vms"} \cup Downloading

(***************************************************************************)
(* The download in progress: what curl still has to pass on, and that the  *)
(* image of the disk appears exactly at the rename.                        *)
(***************************************************************************)
DownloadInv ==
  /\ pc \in {"off", "prune"} => todo = {}
  /\ pc \in Downloading => cur \in todo /\ pass = 2
  /\ pc = "stream" => partial[cur] # Absent
  /\ pc = "rename" => partial[cur] = Size
  /\ pc \in {"stream", "rename"} => image[cur] = Absent
  /\ pc \in {"openkey", "writekey", "record"} => image[cur] = Size

\* Files of disks that are not listed are gone once the pruning is over.
PrunedInv ==
  pc \in PastPrune => \A d \in Disks \ wanted : Gone(d)

\* The result so far is right for every disk already looked at.
InfoInv ==
  /\ pc \in PastPrune =>
       \A d \in wanted \ todo :
         /\ info[d] = IF Exists(image[d]) THEN image[d] ELSE 0
         /\ pass = 2 => info[d] = Size
  /\ pc = "vms" => todo = {}

\* The key of a downloaded disk is written, or about to be.
KeyInv ==
  pc # "off" =>
    \A d \in fetched \cap Keyed :
      keyfile[d] = "whole" \/ (d = cur /\ pc \in {"openkey", "writekey"})

DiskInv ==
  /\ TypeOK
  /\ ImageWhole
  /\ DownloadInv
  /\ PrunedInv
  /\ InfoInv
  /\ KeyInv

LEMMA DiskInit == Init => DiskInv
  BY DEF Init, DiskInv, TypeOK, ImageWhole, DownloadInv, PrunedInv, InfoInv,
         KeyInv, PastPrune, Downloading, Absent

LEMMA DiskInvStep == DiskInv /\ [Next]_vars => DiskInv'
<1> SUFFICES ASSUME DiskInv, [Next]_vars PROVE DiskInv'
  OBVIOUS
<1> USE DEF DiskInv, TypeOK, ImageWhole, DownloadInv, PrunedInv, InfoInv,
            KeyInv, PastPrune, Downloading, Absent, Exists, Gone,
            files, server, run
<1>1. CASE StartRun
  BY <1>1 DEF StartRun
<1>2. CASE EndPrune
  BY <1>2 DEF EndPrune, Unused
<1>3. CASE Receive
  BY <1>3 DEF Receive
<1>4. CASE StreamEnds
  BY <1>4 DEF StreamEnds
<1>5. CASE Rename
  BY <1>5 DEF Rename
<1>6. CASE OpenKey
  BY <1>6 DEF OpenKey
<1>7. CASE WriteKey
  BY <1>7 DEF WriteKey
<1>8. CASE Record
  BY <1>8 DEF Record, Done
<1>9. CASE EndPass
  BY <1>9 DEF EndPass
<1>10. CASE EndVms
  BY <1>10 DEF EndVms
<1>11. ASSUME NEW d \in Disks, DiskStep(d) PROVE DiskInv'
  <2>1. CASE Unlink(d)
    BY <2>1 DEF Unlink
  <2>2. CASE Have(d)
    BY <2>2 DEF Have, Done
  <2>3. CASE Missing(d)
    BY <2>3 DEF Missing, Done
  <2>4. CASE StartDownload(d)
    BY <2>4 DEF StartDownload, Length
  <2>5. CASE Snapshot(d)
    BY <2>5 DEF Snapshot
  <2>6. QED BY <1>11, <2>1, <2>2, <2>3, <2>4, <2>5 DEF DiskStep
<1>12. CASE Abort
  BY <1>12 DEF Abort
<1>13. ASSUME NEW L \in SUBSET Disks, Publish(L) PROVE DiskInv'
  BY <1>13 DEF Publish
<1>14. CASE UNCHANGED vars
  BY <1>14 DEF vars
<1>15. QED
  BY <1>1, <1>2, <1>3, <1>4, <1>5, <1>6, <1>7, <1>8, <1>9, <1>10, <1>11,
     <1>12, <1>13, <1>14
  DEF Next, RunStep

LEMMA DiskInvariant == Spec => []DiskInv
  BY DiskInit, DiskInvStep, PTL DEF Spec

(***************************************************************************)
(* Images are whole: none is ever seen half downloaded.                    *)
(***************************************************************************)
THEOREM ImagesAreWhole == Spec => []ImageWhole
<1>1. DiskInv => ImageWhole
  BY DEF DiskInv
<1>2. QED BY <1>1, DiskInvariant, PTL

(***************************************************************************)
(* arrange_vms is told the truth about the disks, and finds them all after *)
(* the second call.                                                        *)
(***************************************************************************)
THEOREM ResultIsTrue == Spec => []Reconciled
<1>1. DiskInv => Reconciled
  BY DEF DiskInv, Reconciled, PrunedInv, InfoInv, PastPrune
<1>2. QED BY <1>1, DiskInvariant, PTL

(***************************************************************************)
(* A run leaves no disk it downloaded without its key file.                *)
(***************************************************************************)
THEOREM FetchedIsKeyed == Spec => []KeyedIfFetched
<1>1. DiskInv => KeyedIfFetched
  BY DEF DiskInv, KeyedIfFetched, KeyInv
<1>2. QED BY <1>1, DiskInvariant, PTL

(***************************************************************************)
(* The files and every local of a run keep their types.                    *)
(***************************************************************************)
THEOREM DiskTypes == Spec => []TypeOK
<1>1. DiskInv => TypeOK
  BY DEF DiskInv
<1>2. QED BY <1>1, DiskInvariant, PTL

-----------------------------------------------------------------------------
(* Nothing is lost while listed.                                           *)

LEMMA ShrinkStep ==
  DiskInv /\ [Next]_vars => \A d \in Disks : Shrinks(d) => d \notin wanted
<1> SUFFICES ASSUME DiskInv, [Next]_vars, NEW d \in Disks, Shrinks(d)
             PROVE  d \notin wanted
  OBVIOUS
<1> USE DEF DiskInv, TypeOK, Shrinks, Absent, files, server, run
<1>1. CASE \E x \in Disks : Unlink(x)
  BY <1>1 DEF Unlink
<1>2. CASE Rename
  BY <1>2 DEF Rename, DownloadInv, Downloading
<1>3. CASE Receive
  BY <1>3 DEF Receive, DownloadInv, Downloading
<1>4. ASSUME NEW x \in Disks, StartDownload(x) PROVE d \notin wanted
  BY <1>4 DEF StartDownload, Length, Exists
<1>5. ASSUME NEW x \in Disks, Snapshot(x) PROVE d \notin wanted
  BY <1>5 DEF Snapshot, Exists
<1>6. CASE UNCHANGED <<image, partial, delta>>
  BY <1>6
<1>7. UNCHANGED <<image, partial, delta>>
        \/ Rename \/ Receive
        \/ \E x \in Disks : Unlink(x) \/ StartDownload(x) \/ Snapshot(x)
  BY DEF Next, RunStep, DiskStep, StartRun, EndPrune, StreamEnds, OpenKey,
         WriteKey, Record, EndPass, EndVms, Abort, Publish, Have, Missing, vars
<1>8. QED BY <1>1, <1>2, <1>3, <1>4, <1>5, <1>6, <1>7

(***************************************************************************)
(* No step of a run takes downloaded data, an image or a user's delta away *)
(* from a disk its target state lists.                                     *)
(***************************************************************************)
THEOREM ListedDataIsKept == Spec => NothingLostWhileListed
  BY ShrinkStep, DiskInvariant, PTL DEF Spec, NothingLostWhileListed

-----------------------------------------------------------------------------
(* The refinement of DiskCatalog.                                          *)

LEMMA CatalogStep == DiskInv /\ DiskInv' /\ [Next]_vars => [Catalog!Next]_(Catalog!vars)
<1> SUFFICES ASSUME DiskInv, DiskInv', [Next]_vars
             PROVE  [Catalog!Next]_(Catalog!vars)
  OBVIOUS
<1> DEFINE have == {d \in Disks : image[d] = Size}
           settled == pc = "vms" /\ pass = 2
<1> USE DEF Catalog!Next, Catalog!vars, Catalog!Restart, Catalog!Fetch,
            Catalog!Drop, Catalog!Settle, files, server, run
<1>1. CASE have' = have /\ pc' # "vms"
  <2>1. wanted' \in SUBSET Disks
    BY DEF DiskInv, TypeOK
  <2>2. Catalog!Restart(wanted')
    BY <1>1
  <2>3. QED BY <2>1, <2>2
<1>2. CASE UNCHANGED <<wanted, image, pc, pass>>
  BY <1>2
<1>3. CASE EndPass
  <2>1. have' = have /\ wanted' = wanted /\ pc' = "vms" /\ pass' = pass
    BY <1>3 DEF EndPass
  <2>2. CASE pass = 2
    <3>1. have' = wanted'
      BY <2>1, <2>2 DEF DiskInv, TypeOK, PrunedInv, InfoInv, PastPrune, Gone,
                        Exists, Absent, ImageWhole
    <3>2. Catalog!Settle
      BY <2>1, <2>2, <3>1
    <3>3. QED BY <3>2
  <2>3. CASE pass # 2
    <3>1. wanted' \in SUBSET Disks
      BY DEF DiskInv, TypeOK
    <3>2. Catalog!Restart(wanted')
      BY <2>1, <2>3
    <3>3. QED BY <3>1, <3>2
  <2>4. QED BY <2>2, <2>3
<1>4. ASSUME NEW x \in Disks, Unlink(x) PROVE [Catalog!Next]_(Catalog!vars)
  <2>1. pc = "prune" /\ x \notin wanted /\ UNCHANGED <<wanted, pc, pass>>
    BY <1>4 DEF Unlink
  <2>2. CASE UNCHANGED image
    BY <1>2, <2>1, <2>2
  <2>3. CASE image' = [image EXCEPT ![x] = Absent]
    <3>1. have' = have \ {x}
      BY <2>3 DEF DiskInv, TypeOK, Absent
    <3>2. CASE x \in have
      <4>1. Catalog!Drop(x)
        BY <2>1, <3>1, <3>2
      <4>2. QED BY <4>1
    <3>3. CASE x \notin have
      BY <1>1, <2>1, <3>1, <3>3
    <3>4. QED BY <3>2, <3>3
  <2>4. QED BY <1>4, <2>2, <2>3 DEF Unlink
<1>5. CASE Rename
  <2>1. /\ pc = "rename" /\ pc' # "vms" /\ UNCHANGED <<wanted, pass>>
        /\ image' = [image EXCEPT ![cur] = Size]
        /\ image[cur] = Absent /\ cur \in wanted /\ cur \in Disks
    BY <1>5 DEF Rename, DiskInv, TypeOK, DownloadInv, Downloading
  <2>2. have' = have \cup {cur} /\ cur \notin have
    BY <2>1 DEF DiskInv, TypeOK, Absent
  <2>3. Catalog!Fetch(cur)
    BY <2>1, <2>2
  <2>4. QED BY <2>1, <2>3
<1>6. \/ UNCHANGED <<wanted, image, pc, pass>>
      \/ image' = image /\ pc' # "vms"
      \/ EndPass \/ Rename
      \/ \E x \in Disks : Unlink(x)
  BY DEF Next, RunStep, DiskStep, StartRun, EndPrune, Receive, StreamEnds,
         OpenKey, WriteKey, Record, EndPass, EndVms, Abort, Publish, Have,
         Missing, StartDownload, Snapshot, vars
<1>7. QED BY <1>1, <1>2, <1>3, <1>4, <1>5, <1>6

(***************************************************************************)
(* The file handling of both calls, aborts included, implements the        *)
(* catalogue of whole images that the rest of the client relies on.        *)
(***************************************************************************)
THEOREM ImplementsCatalog == Spec => CatalogSpec
<1>1. Init => Catalog!Init
  BY DEF Init, Catalog!Init, Absent
<1>2. QED
  BY <1>1, CatalogStep, DiskInvariant, PTL DEF Spec, CatalogSpec, Catalog!Spec
=============================================================================
