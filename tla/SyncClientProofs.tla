-------------------------- MODULE SyncClientProofs --------------------------
(***************************************************************************)
(* Proofs about SyncClient for any virtual machines, disks, target states  *)
(* and paths.                                                              *)
(***************************************************************************)
EXTENDS SyncClient, SequenceTheorems, TLAPS

\* Of the VMs on the machine one is the other synchronizer's, the rest ours.
RealmInv ==
  /\ vm[Foreign] # None /\ vm[Foreign].realm = "other"
  /\ \A p \in Paths : vm[p] # None => vm[p].realm = "ours"

\* Where the loops of arrange_vms are.
LoopInv ==
  /\ pc \in {"off", "disks", "ensure", "retire"} => cur = None
  /\ pc \in {"ensure", "arrange"} \cup DiskSteps => todo \subseteq With("wanted")
  /\ pc = "ensure" => \A v \in With("wanted") \ todo : have[v] # None
  /\ pc \in {"arrange"} \cup DiskSteps => \A v \in With("wanted") : have[v] # None
  /\ pc \in {"arrange", "delete"} /\ cur # None => cur \in todo
  /\ pc \in DiskSteps => cur \in todo
  /\ pc \in {"retire", "delete"} => \A v \in todo : have[v] # None
  /\ pc = "retire" => todo \subseteq With("removed")

\* Until its VM is deleted, have maps each of the server's VMs to ours.
HaveInv ==
  pc \notin {"off", "disks"} =>
    \A v \in VMs : (pc = "delete" => v \in todo) =>
      /\ have[v] = None => \A p \in Paths : vm[p] # None => vm[p].sync # v
      /\ have[v] # None =>
           have[v] \in Paths /\ vm[have[v]] # None /\ vm[have[v]].sync = v

\* How many disk objects there are while arrange_vm goes through them.
SlotInv ==
  pc \in DiskSteps =>
    LET n == Len(vm[have[cur]].disks)
        w == Len(want[cur].disks)
    IN  /\ slot >= 1
        /\ pc \in {"key", "add", "attach"} => slot <= w
        /\ pc = "add" => slot > objects
        /\ slot <= w + 1 =>
             n = IF slot <= objects THEN objects ELSE IF pc = "attach" THEN slot ELSE slot - 1
        /\ slot > w + 1 =>
             slot <= objects + 1 /\ n <= objects /\ n >= objects - (slot - 1)

\* A VM to be removed cannot be started any more once it was retired.
RetireInv ==
  /\ pc = "retire" =>
       \A v \in With("removed") \ todo : have[v] # None => ~vm[have[v]].ready
  /\ pc = "delete" =>
       \A v \in With("removed") \cap todo : ~vm[have[v]].ready
  /\ pc = "delete" /\ cur # None => Unwanted(cur)

RunInv == TypeOK /\ RealmInv /\ LoopInv /\ HaveInv /\ SlotInv /\ RetireInv /\ OnePerSync

-----------------------------------------------------------------------------
(* What the types say of a target state and of an object.                  *)

\* What a disk object may be configured for.
Slotted == Disks \cup {None}

LEMMA WantTypes ==
  ASSUME TypeOK, NEW v \in VMs
  PROVE  /\ want[v].status \in {"unlisted", "wanted", "removed"}
         /\ want[v].disks \in Seq(Disks)
         /\ want[v].runs \in VMs \cup {"plain", None}
         /\ want[v].sets = {}
<1>1. PICK P \in Plans : want = Censor(P)
  BY DEF TypeOK
<1>2. P[v] \in [status : {"unlisted", "wanted", "removed"}, disks : Seq(Disks),
                runs : VMs \cup {"plain", None}, sets : SUBSET {"realm", "ready"}]
  BY SyncClientAssumption DEF SyncClientAssumption, Plan
<1>3. want[v] = [P[v] EXCEPT !.sets = @ \ {"realm", "ready"},
                             !.runs = IF Role = "realm" THEN None ELSE @]
  BY <1>1 DEF Censor
<1>4. QED BY <1>2, <1>3

LEMMA ObjectTypes ==
  ASSUME TypeOK, NEW p \in AllPaths, vm[p] # None
  PROVE  /\ vm[p] \in Object
         /\ vm[p].sync \in VMs /\ vm[p].up \in BOOLEAN /\ vm[p].ready \in BOOLEAN
         /\ vm[p].disks \in Seq(Slotted) /\ Len(vm[p].disks) \in Nat
         /\ vm[p].runs \in AllPaths \cup {None}
<1>1. vm[p] \in Object
  BY DEF TypeOK
<1>2. QED BY <1>1 DEF Object, Slotted

-----------------------------------------------------------------------------
(* Most steps that change a VM replace one of our objects by one that      *)
(* stands for the same VM.                                                 *)

Change(q, o) ==
  /\ q \in Paths /\ vm[q] # None
  /\ o \in Object /\ o.sync = vm[q].sync /\ o.realm = "ours"
  /\ vm' = [vm EXCEPT ![q] = o]

SameVms ==
  \A p \in AllPaths :
    /\ vm'[p] = None <=> vm[p] = None
    /\ vm[p] # None => vm'[p].sync = vm[p].sync

LEMMA ChangeKeeps ==
  ASSUME RunInv, NEW q, NEW o, Change(q, o)
  PROVE  /\ vm' \in [AllPaths -> Object \cup {None}]
         /\ RealmInv' /\ OnePerSync' /\ SameVms
         /\ vm'[q] = o /\ \A p \in AllPaths \ {q} : vm'[p] = vm[p]
<1>1. o # None /\ q # Foreign /\ q \in AllPaths
  BY ObjectAssumption, SyncClientAssumption
     DEF ObjectAssumption, SyncClientAssumption, Change, AllPaths
<1>2. vm \in [AllPaths -> Object \cup {None}]
  BY DEF RunInv, TypeOK
<1>3. vm' \in [AllPaths -> Object \cup {None}]
  BY <1>2 DEF Change
<1>4. vm'[q] = o /\ \A p \in AllPaths \ {q} : vm'[p] = vm[p]
  BY <1>1, <1>2 DEF Change
<1>5. SameVms
  BY <1>1, <1>4 DEF SameVms, Change
<1>6. RealmInv'
  BY <1>1, <1>4 DEF RealmInv, RunInv, Change, AllPaths
<1>7. OnePerSync'
  BY <1>5 DEF OnePerSync, RunInv, SameVms, AllPaths
<1>8. QED BY <1>3, <1>4, <1>5, <1>6, <1>7

\* Our object of v, in a pass.
LEMMA OurObject ==
  ASSUME RunInv, pc \notin {"off", "disks"},
         NEW v \in VMs, have[v] # None, pc = "delete" => v \in todo
  PROVE  /\ have[v] \in Paths /\ have[v] \in AllPaths
         /\ vm[have[v]] # None /\ vm[have[v]] \in Object
         /\ vm[have[v]].sync = v /\ vm[have[v]].realm = "ours"
<1>1. have[v] \in Paths /\ vm[have[v]] # None /\ vm[have[v]].sync = v
  BY DEF RunInv, HaveInv
<1>2. QED BY <1>1, ObjectTypes DEF RunInv, RealmInv, AllPaths

LEMMA HaveKept ==
  ASSUME RunInv, SameVms, have' = have,
         pc' \notin {"off", "disks"} => pc \notin {"off", "disks"},
         pc = "delete" => pc' \in {"off", "delete"} /\ todo' \subseteq todo
  PROVE  HaveInv'
BY DEF RunInv, HaveInv, SameVms, AllPaths

LEMMA InitInv == Init => RunInv
<1> SUFFICES ASSUME Init PROVE RunInv
  OBVIOUS
<1>1. PICK u \in VMs : vm = [p \in AllPaths |-> IF p = Foreign THEN NewVm(u, "other") ELSE None]
  BY DEF Init
<1>2. NewVm(u, "other") \in Object
  BY DEF NewVm, Object
<1>3. TypeOK
  <2>1. vm \in [AllPaths -> Object \cup {None}]
    BY <1>1, <1>2
  <2>2. want \in {Censor(P) : P \in Plans}
    BY DEF Init
  <2>3. /\ plan \in Plans /\ changes \in 0 .. MaxPublish
        /\ snaps \in [VMs \X Disks -> {"none", "bare", "keyed"}]
        /\ have \in [VMs -> AllPaths \cup {None}]
    BY SyncClientAssumption DEF Init, SyncClientAssumption
  <2>4. QED BY <2>1, <2>2, <2>3 DEF Init, TypeOK
<1>4. RealmInv /\ OnePerSync
  BY <1>1, <1>2, SyncClientAssumption, ObjectAssumption
     DEF RealmInv, OnePerSync, NewVm, AllPaths, SyncClientAssumption, ObjectAssumption
<1>5. LoopInv /\ HaveInv /\ SlotInv /\ RetireInv
  BY DEF Init, LoopInv, HaveInv, SlotInv, RetireInv, DiskSteps
<1>6. QED BY <1>3, <1>4, <1>5 DEF RunInv

-----------------------------------------------------------------------------
(* The steps that change one of our objects.                               *)

\* v is wanted and has its object, when the pass gets to it.
LEMMA WantedObject ==
  ASSUME RunInv, pc \in {"ensure", "arrange"} \cup DiskSteps,
         NEW v \in todo, pc = "ensure" => have[v] # None
  PROVE  /\ v \in VMs /\ v \in With("wanted") /\ have[v] # None
         /\ have[v] \in Paths /\ have[v] \in AllPaths
         /\ vm[have[v]] # None /\ vm[have[v]] \in Object
         /\ vm[have[v]].sync = v /\ vm[have[v]].realm = "ours"
<1>1. v \in VMs /\ v \in With("wanted")
  BY DEF RunInv, LoopInv, With
<1>2. have[v] # None
  BY <1>1 DEF RunInv, LoopInv, DiskSteps
<1>3. QED BY <1>1, <1>2, OurObject DEF DiskSteps

LEMMA ReadyChange ==
  ASSUME RunInv, NEW v \in VMs, have[v] \in Paths, vm[have[v]] \in Object,
         vm[have[v]].realm = "ours", vm[have[v]] # None,
         NEW value \in BOOLEAN, SetReady(v, value)
  PROVE  /\ Change(have[v], [vm[have[v]] EXCEPT !.ready = value])
         /\ vm'[have[v]].disks = vm[have[v]].disks
         /\ vm'[have[v]].up = vm[have[v]].up
         /\ vm'[have[v]].ready = value
<1> DEFINE o == [vm[have[v]] EXCEPT !.ready = value]
<1>1. /\ o \in Object /\ o.sync = vm[have[v]].sync /\ o.realm = "ours"
      /\ o.disks = vm[have[v]].disks /\ o.up = vm[have[v]].up /\ o.ready = value
  BY DEF Object
<1>2. Change(have[v], o)
  BY <1>1 DEF Change, SetReady
<1>3. vm'[have[v]] = o
  BY <1>2, ChangeKeeps
<1>4. QED BY <1>1, <1>2, <1>3

LEMMA LabelChange ==
  ASSUME RunInv, NEW v \in VMs, Label(v)
  PROVE  \E o : Change(have[v], o)
<1>1. /\ have[v] \in Paths /\ vm[have[v]] # None /\ vm[have[v]] \in Object
      /\ vm[have[v]].sync = v
  BY WantedObject DEF Label
<1> DEFINE o == [[vm[have[v]] EXCEPT !.realm = "ours"] EXCEPT !.sync = v]
<1>2. o \in Object /\ o.sync = v /\ o.realm = "ours"
  BY <1>1 DEF Object
<1>3. vm' = [vm EXCEPT ![have[v]] = o]
  BY <1>1 DEF Label, RunInv, TypeOK, AllPaths
<1>4. QED BY <1>1, <1>2, <1>3 DEF Change

LEMMA ConfigureChange ==
  ASSUME RunInv, NEW v \in VMs, Configure(v)
  PROVE  \E o : Change(have[v], o)
<1>1. /\ have[v] \in Paths /\ vm[have[v]] # None /\ vm[have[v]] \in Object
      /\ vm[have[v]].sync = v /\ vm[have[v]].realm = "ours"
  BY WantedObject DEF Configure
<1>2. want[v].sets = {}
  BY WantTypes DEF RunInv
<1> DEFINE w == vm[have[v]]
           runs == IF HasItem(v) THEN LocalValue(v) ELSE w.runs
           o == [[[w EXCEPT !.runs = runs] EXCEPT !.realm = w.realm] EXCEPT !.ready = w.ready]
<1>3. runs \in AllPaths \cup {None}
  <2>1. w.runs \in AllPaths \cup {None}
    BY <1>1 DEF Object
  <2>2. LocalValue(v) \in AllPaths \cup {None}
    BY DEF LocalValue, RunInv, TypeOK
  <2>3. QED BY <2>1, <2>2
<1>4. o \in Object /\ o.sync = v /\ o.realm = "ours"
  BY <1>1, <1>3 DEF Object
<1>5. vm' = [vm EXCEPT ![have[v]] = o]
  BY <1>1, <1>2 DEF Configure, SetConfig, RunInv, TypeOK, AllPaths, Object
<1>6. QED BY <1>1, <1>4, <1>5 DEF Change

\* The object of cur, and its disk objects, while arrange_vm is at the disks.
LEMMA CurObject ==
  ASSUME RunInv, pc \in DiskSteps
  PROVE  /\ cur \in VMs /\ cur \in todo /\ have[cur] \in Paths /\ have[cur] \in AllPaths
         /\ vm[have[cur]] # None /\ vm[have[cur]] \in Object
         /\ vm[have[cur]].sync = cur /\ vm[have[cur]].realm = "ours"
         /\ vm[have[cur]].disks \in Seq(Slotted) /\ Len(vm[have[cur]].disks) \in Nat
         /\ want[cur].disks \in Seq(Disks) /\ Len(want[cur].disks) \in Nat
         /\ slot \in Nat /\ objects \in Nat
<1>1. cur \in todo
  BY DEF RunInv, LoopInv
<1>2. /\ cur \in VMs /\ have[cur] \in Paths /\ have[cur] \in AllPaths
      /\ vm[have[cur]] # None /\ vm[have[cur]] \in Object
      /\ vm[have[cur]].sync = cur /\ vm[have[cur]].realm = "ours"
  BY <1>1, WantedObject DEF DiskSteps
<1>3. want[cur].disks \in Seq(Disks) /\ Len(want[cur].disks) \in Nat
  BY <1>2, WantTypes, LenProperties DEF RunInv
<1>4. vm[have[cur]].disks \in Seq(Slotted) /\ Len(vm[have[cur]].disks) \in Nat
  BY <1>2, ObjectTypes DEF RunInv
<1>5. QED BY <1>1, <1>2, <1>3, <1>4 DEF RunInv, TypeOK

\* Another list of disks for the object of cur.
LEMMA DisksChange ==
  ASSUME RunInv, pc \in DiskSteps, NEW ds \in Seq(Slotted),
         vm' = [vm EXCEPT ![have[cur]].disks = ds]
  PROVE  \E o : Change(have[cur], o) /\ o.disks = ds
<1> DEFINE o == [vm[have[cur]] EXCEPT !.disks = ds]
<1>1. o \in Object /\ o.sync = cur /\ o.realm = "ours" /\ o.disks = ds
  BY CurObject DEF Object, Slotted
<1>2. vm' = [vm EXCEPT ![have[cur]] = o]
  BY CurObject
<1>3. Change(have[cur], o)
  BY <1>1, <1>2, CurObject DEF Change
<1>4. QED BY <1>1, <1>3

LEMMA AddDiskChange ==
  ASSUME RunInv, AddDisk
  PROVE  \E o : Change(have[cur], o) /\ Len(o.disks) = slot
<1> DEFINE w  == vm[have[cur]]
           ds == Append(w.disks, None)
<1>1. pc \in DiskSteps /\ pc = "add"
  BY DEF AddDisk, DiskSteps
<1>2. ds \in Seq(Slotted) /\ Len(ds) = Len(w.disks) + 1
  BY <1>1, CurObject, AppendProperties DEF Slotted
<1>3. Len(ds) = slot
  <2>1. /\ slot <= Len(want[cur].disks) /\ slot > objects
        /\ slot <= Len(want[cur].disks) + 1 =>
             Len(w.disks) = IF slot <= objects THEN objects ELSE slot - 1
    BY <1>1 DEF RunInv, SlotInv
  <2>2. slot \in Nat /\ objects \in Nat /\ Len(want[cur].disks) \in Nat
    BY <1>1, CurObject
  <2> HIDE DEF w, ds
  <2>3. QED BY <1>2, <2>1, <2>2
<1>4. vm' = [vm EXCEPT ![have[cur]].disks = ds]
  BY DEF AddDisk
<1> HIDE DEF ds
<1>5. QED BY <1>1, <1>2, <1>3, <1>4, DisksChange

LEMMA AttachChange ==
  ASSUME RunInv, Attach
  PROVE  \E o : Change(have[cur], o) /\ Len(o.disks) = Len(vm[have[cur]].disks)
<1> DEFINE w  == vm[have[cur]]
           ds == Attached(w.disks)
<1>1. pc \in DiskSteps /\ pc = "attach"
  BY DEF Attach, DiskSteps
<1>2. slot \in 1 .. Len(want[cur].disks) /\ slot \in 1 .. Len(w.disks)
  BY <1>1, CurObject DEF RunInv, SlotInv
<1>3. Disk \in Slotted
  BY <1>1, <1>2, CurObject, ElementOfSeq DEF Disk, Slotted
<1>4. ds \in Seq(Slotted) /\ Len(ds) = Len(w.disks)
  BY <1>1, <1>2, <1>3, CurObject, ExceptSeq DEF Attached
<1>5. vm' = [vm EXCEPT ![have[cur]].disks = ds]
  BY DEF Attach
<1> HIDE DEF ds
<1>6. QED BY <1>1, <1>4, <1>5, DisksChange

\* One of the objects beyond the wanted disks goes.
LEMMA RemovedSeq ==
  ASSUME NEW S, NEW disks \in Seq(S), NEW i \in 1 .. Len(disks)
  PROVE  RemoveAt(disks, i) \in Seq(S) /\ Len(RemoveAt(disks, i)) = Len(disks) - 1
<1> DEFINE a == SubSeq(disks, 1, i - 1)
           b == SubSeq(disks, i + 1, Len(disks))
<1>1. Len(disks) \in Nat
  BY LenProperties
<1>2. \A j \in 1 .. Len(disks) : disks[j] \in S
  BY ElementOfSeq
<1>3. a \in Seq(S) /\ Len(a) = i - 1
  <2>1. /\ 1 \in Int /\ i - 1 \in Int /\ \A j \in 1 .. (i - 1) : disks[j] \in S
    BY <1>1, <1>2
  <2>2. a \in Seq(S) /\ Len(a) = IF 1 <= i - 1 THEN (i - 1) - 1 + 1 ELSE 0
    BY <2>1, SubSeqProperties
  <2>3. QED BY <1>1, <2>2
<1>4. b \in Seq(S) /\ Len(b) = Len(disks) - i
  <2>1. /\ i + 1 \in Int /\ Len(disks) \in Int
        /\ \A j \in i + 1 .. Len(disks) : disks[j] \in S
    BY <1>1, <1>2
  <2>2. b \in Seq(S)
        /\ Len(b) = IF i + 1 <= Len(disks) THEN Len(disks) - (i + 1) + 1 ELSE 0
    BY <2>1, SubSeqProperties
  <2>3. QED BY <1>1, <2>2
<1>5. RemoveAt(disks, i) = a \o b
  BY DEF RemoveAt
<1>6. QED
  <2> HIDE DEF a, b
  <2>1. a \o b \in Seq(S) /\ Len(a \o b) = Len(a) + Len(b)
    BY <1>3, <1>4, ConcatProperties
  <2>2. QED BY <1>1, <1>3, <1>4, <1>5, <2>1

LEMMA DestroyExcessChange ==
  ASSUME RunInv, NEW deleted \in BOOLEAN, DestroyExcess(deleted)
  PROVE  \E o :
           /\ Change(have[cur], o)
           /\ Len(o.disks) \in {Len(vm[have[cur]].disks), Len(vm[have[cur]].disks) - 1}
<1> DEFINE w  == vm[have[cur]]
           i  == slot - (objects - Len(w.disks))
           ds == RemoveAt(w.disks, i)
<1>1. pc \in DiskSteps /\ pc = "look" /\ slot > Len(want[cur].disks) /\ slot <= objects
  <2>1. pc \in DiskSteps
    BY DEF DestroyExcess, DiskSteps
  <2>2. QED BY <2>1, CurObject DEF DestroyExcess, SlotIsWanted
<1>2. i \in 1 .. Len(w.disks)
  <2>1. /\ slot >= 1
        /\ slot <= Len(want[cur].disks) + 1 => Len(w.disks) = objects
        /\ slot > Len(want[cur].disks) + 1 =>
             Len(w.disks) <= objects /\ Len(w.disks) >= objects - (slot - 1)
    BY <1>1 DEF RunInv, SlotInv
  <2>2. /\ slot \in Nat /\ objects \in Nat
        /\ Len(want[cur].disks) \in Nat /\ Len(w.disks) \in Nat
    BY <1>1, CurObject
  <2> HIDE DEF w
  <2>3. QED BY <1>1, <2>1, <2>2
<1>3. ds \in Seq(Slotted) /\ Len(ds) = Len(w.disks) - 1
  BY <1>1, <1>2, CurObject, RemovedSeq
<1>4. CASE deleted
  <2>1. vm' = [vm EXCEPT ![have[cur]].disks = ds]
    BY <1>4 DEF DestroyExcess
  <2> HIDE DEF ds
  <2>2. QED BY <1>1, <1>3, <2>1, DisksChange
<1>5. CASE ~deleted
  <2>1. vm' = [vm EXCEPT ![have[cur]] = w]
    BY <1>1, <1>5, CurObject DEF DestroyExcess, RunInv, TypeOK
  <2>2. Change(have[cur], w)
    BY <1>1, <2>1, CurObject DEF Change
  <2>3. QED BY <2>2
<1>6. QED BY <1>4, <1>5

LEMMA RetireChange ==
  ASSUME RunInv, NEW v \in VMs, Retire(v)
  PROVE  /\ \E o : Change(have[v], o)
         /\ ~vm'[have[v]].ready
<1>1. /\ have[v] \in Paths /\ vm[have[v]] # None /\ vm[have[v]] \in Object
      /\ vm[have[v]].realm = "ours"
  BY OurObject DEF Retire, RunInv, LoopInv
<1>2. QED BY <1>1, ReadyChange DEF Retire

\* NoDataYet and EndDiskConfig.
LEMMA CurReadyChange ==
  ASSUME RunInv, pc \in {"arrange"} \cup DiskSteps, cur # None,
         NEW value \in BOOLEAN, SetReady(cur, value)
  PROVE  \E o : Change(have[cur], o)
<1>1. cur \in todo
  BY DEF RunInv, LoopInv
<1>2. /\ cur \in VMs /\ have[cur] \in Paths /\ vm[have[cur]] # None
      /\ vm[have[cur]] \in Object /\ vm[have[cur]].realm = "ours"
  BY <1>1, WantedObject DEF DiskSteps
<1>3. QED BY <1>2, ReadyChange

LEMMA UserChange ==
  ASSUME RunInv, NEW p \in Paths, UserStart(p) \/ UserStop(p)
  PROVE  /\ \E o : Change(p, o)
         /\ vm'[p].disks = vm[p].disks
         /\ vm'[p].ready = vm[p].ready
         /\ ~vm[p].ready /\ ~vm[p].up => ~vm'[p].up
<1>1. vm[p] # None /\ vm[p] \in Object /\ vm[p].realm = "ours"
  BY ObjectTypes DEF UserStart, UserStop, RunInv, RealmInv, AllPaths
<1>2. CASE UserStart(p)
  <2> DEFINE w == [vm[p] EXCEPT !.up = TRUE]
  <2>1. /\ w \in Object /\ w.sync = vm[p].sync /\ w.realm = "ours"
        /\ w.disks = vm[p].disks /\ w.ready = vm[p].ready
    BY <1>1 DEF Object
  <2>2. Change(p, w)
    BY <1>1, <1>2, <2>1 DEF Change, UserStart
  <2>3. vm'[p] = w
    BY <2>2, ChangeKeeps
  <2>4. vm[p].ready
    BY <1>2 DEF UserStart
  <2>5. vm'[p].disks = vm[p].disks /\ vm'[p].ready = vm[p].ready
    BY <2>1, <2>3
  <2> HIDE DEF w
  <2>6. QED BY <2>2, <2>4, <2>5
<1>3. CASE UserStop(p)
  <2> DEFINE w == [vm[p] EXCEPT !.up = FALSE]
  <2>1. /\ w \in Object /\ w.sync = vm[p].sync /\ w.realm = "ours"
        /\ w.disks = vm[p].disks /\ w.ready = vm[p].ready
    BY <1>1 DEF Object
  <2>2. Change(p, w)
    BY <1>1, <1>3, <2>1 DEF Change, UserStop
  <2>3. vm'[p] = w
    BY <2>2, ChangeKeeps
  <2>4. vm[p].up
    BY <1>3 DEF UserStop
  <2>5. vm'[p].disks = vm[p].disks /\ vm'[p].ready = vm[p].ready
    BY <2>1, <2>3
  <2> HIDE DEF w
  <2>6. QED BY <2>2, <2>4, <2>5
<1>4. QED BY <1>2, <1>3

-----------------------------------------------------------------------------
(* What a step does to the VM objects.                                     *)

LEMMA CreateKeeps ==
  ASSUME RunInv, NEW v \in VMs, NEW p \in Paths, Create(v, p)
  PROVE  /\ vm' \in [AllPaths -> Object \cup {None}]
         /\ RealmInv' /\ OnePerSync'
         /\ vm[p] = None /\ vm'[p] = NewVm(v, "ours") /\ NewVm(v, "ours") # None
         /\ \A q \in AllPaths \ {p} : vm'[q] = vm[q]
<1> DEFINE o == NewVm(v, "ours")
<1>1. o \in Object /\ o.sync = v /\ o.realm = "ours"
  BY DEF NewVm, Object
<1>2. o # None /\ p # Foreign /\ p \in AllPaths
  BY <1>1, ObjectAssumption, SyncClientAssumption
     DEF ObjectAssumption, SyncClientAssumption, AllPaths
<1>3. vm' = [vm EXCEPT ![p] = o] /\ vm[p] = None
  BY DEF Create, Fresh
<1>4. vm \in [AllPaths -> Object \cup {None}]
  BY DEF RunInv, TypeOK
<1> HIDE DEF o
<1>5. vm'[p] = o /\ \A q \in AllPaths \ {p} : vm'[q] = vm[q]
  BY <1>2, <1>3, <1>4
<1>6. vm' \in [AllPaths -> Object \cup {None}]
  BY <1>1, <1>3, <1>4
<1>7. RealmInv'
  BY <1>1, <1>2, <1>5 DEF RealmInv, RunInv, AllPaths
<1>8. \A q \in Paths : vm[q] # None => vm[q].sync # v
  BY DEF Create, RunInv, HaveInv
<1>9. OnePerSync'
  BY <1>1, <1>3, <1>5, <1>8 DEF OnePerSync, RunInv, AllPaths
<1>10. QED BY <1>2, <1>3, <1>5, <1>6, <1>7, <1>9 DEF o

\* The VM deleted is ours, and it is not wanted.
LEMMA DestroyKeeps ==
  ASSUME RunInv, Destroy
  PROVE  /\ vm' \in [AllPaths -> Object \cup {None}]
         /\ RealmInv' /\ OnePerSync'
         /\ cur \in todo /\ Unwanted(cur)
         /\ have[cur] \in Paths /\ vm[have[cur]] # None /\ vm[have[cur]].sync = cur
         /\ vm'[have[cur]] = None
         /\ \A q \in AllPaths \ {have[cur]} : vm'[q] = vm[q]
<1>1. cur \in todo /\ cur \in VMs /\ Unwanted(cur) /\ have[cur] # None
  BY DEF Destroy, RunInv, LoopInv, RetireInv, TypeOK
<1>2. have[cur] \in Paths /\ vm[have[cur]] # None /\ vm[have[cur]].sync = cur
  BY <1>1, OurObject DEF Destroy
<1>3. have[cur] # Foreign
  BY <1>2, SyncClientAssumption DEF SyncClientAssumption
<1>4. /\ vm \in [AllPaths -> Object \cup {None}]
      /\ vm' = [vm EXCEPT ![have[cur]] = None]
  BY DEF RunInv, TypeOK, Destroy
<1>5. vm' \in [AllPaths -> Object \cup {None}]
  BY <1>4
<1>6. vm'[have[cur]] = None /\ \A q \in AllPaths \ {have[cur]} : vm'[q] = vm[q]
  BY <1>2, <1>4 DEF AllPaths
<1>7. RealmInv' /\ OnePerSync'
  BY <1>3, <1>6 DEF RealmInv, OnePerSync, RunInv, AllPaths
<1>8. QED BY <1>1, <1>2, <1>5, <1>6, <1>7

LEMMA VmStepKinds ==
  ASSUME RunInv, [Next]_vars
  PROVE  \/ vm' = vm
         \/ \E q, o : Change(q, o)
         \/ \E v \in VMs, p \in Paths : Create(v, p)
         \/ Destroy
<1>1. CASE \/ StartRun \/ EndDisks \/ EndEnsure \/ SkipRunning \/ BeginDiskConfig
           \/ UseDisk \/ MakeSnapshot \/ PlaceKey \/ EndArrange \/ EndRetire
           \/ EndRun \/ Raise \/ Abort \/ ServerStep \/ UNCHANGED vars
           \/ \E d \in Disks : DiskStep(d)
           \/ \E v \in VMs : Check(v)
  BY <1>1 DEF StartRun, EndDisks, EndEnsure, SkipRunning, BeginDiskConfig, UseDisk,
              MakeSnapshot, PlaceKey, EndArrange, EndRetire, EndRun, Raise, Abort,
              CutShort, ServerStep, Publish, vars, machine, DiskStep, Drop, Fetch, Check
<1>2. CASE \E v \in VMs : Label(v) \/ Configure(v) \/ Retire(v)
  BY <1>2, LabelChange, ConfigureChange, RetireChange
<1>3. CASE NoDataYet \/ EndDiskConfig
  <2>1. pc \in {"arrange"} \cup DiskSteps /\ cur # None
    BY <1>3, SyncClientAssumption
       DEF NoDataYet, EndDiskConfig, DiskSteps, RunInv, LoopInv, TypeOK, SyncClientAssumption
  <2>2. SetReady(cur, FALSE) \/ SetReady(cur, TRUE)
    BY <1>3 DEF NoDataYet, EndDiskConfig
  <2>3. QED BY <2>1, <2>2, CurReadyChange
<1>4. CASE AddDisk \/ Attach \/ \E deleted \in BOOLEAN : DestroyExcess(deleted)
  BY <1>4, AddDiskChange, AttachChange, DestroyExcessChange
<1>5. CASE UserStep
  BY <1>5, UserChange DEF UserStep
<1>6. QED BY <1>1, <1>2, <1>3, <1>4, <1>5 DEF Next, ClientStep, RunStep, VmStep

LEMMA VmKept ==
  ASSUME RunInv, [Next]_vars
  PROVE  vm' \in [AllPaths -> Object \cup {None}] /\ RealmInv' /\ OnePerSync'
<1>1. CASE vm' = vm
  BY <1>1 DEF RunInv, TypeOK, RealmInv, OnePerSync
<1>2. QED BY <1>1, VmStepKinds, ChangeKeeps, CreateKeeps, DestroyKeeps

-----------------------------------------------------------------------------
(* Every step keeps the invariant, conjunct by conjunct.                   *)

LEMMA TypeStep ==
  ASSUME RunInv, [Next]_vars
  PROVE  TypeOK'
<1> USE DEF RunInv, TypeOK, DiskSteps, machine, server, run, loop
<1>1. vm' \in [AllPaths -> Object \cup {None}]
  BY VmKept
<1>2. With("wanted") \subseteq VMs /\ With("removed") \subseteq VMs
  BY DEF With
<1>3. CASE StartRun
  BY <1>1, <1>3 DEF StartRun
<1>4. CASE \E d \in Disks : DiskStep(d)
  BY <1>1, <1>4 DEF DiskStep, Drop, Fetch
<1>5. CASE EndDisks
  <2>1. have' \in [VMs -> AllPaths \cup {None}]
    BY <1>5 DEF EndDisks, ListVms
  <2>2. QED BY <1>1, <1>2, <1>5, <2>1 DEF EndDisks
<1>6. CASE \E v \in VMs, p \in Paths : Create(v, p)
  BY <1>1, <1>6 DEF Create, AllPaths
<1>7. CASE \E v \in VMs : Label(v) \/ Configure(v) \/ Retire(v) \/ Check(v)
  BY <1>1, <1>7 DEF Label, Configure, Retire, Check, Visited
<1>8. CASE EndEnsure \/ EndArrange \/ EndRetire \/ EndRun
  BY <1>1, <1>2, <1>8 DEF EndEnsure, EndArrange, EndRetire, EndRun
<1>9. CASE NoDataYet \/ SkipRunning \/ EndDiskConfig \/ Destroy
  BY <1>1, <1>9 DEF NoDataYet, SkipRunning, EndDiskConfig, Destroy, Visited
<1>10. CASE BeginDiskConfig
  <2>1. cur \in todo
    BY <1>10 DEF BeginDiskConfig, LoopInv
  <2>2. have[cur] \in AllPaths /\ vm[have[cur]] # None
    BY <1>10, <2>1, WantedObject DEF BeginDiskConfig
  <2>3. Len(vm[have[cur]].disks) \in Nat
    BY <2>2, ObjectTypes
  <2>4. QED BY <1>1, <1>10, <2>3 DEF BeginDiskConfig
<1>11. CASE UseDisk \/ AddDisk \/ Attach \/ \E deleted \in BOOLEAN : DestroyExcess(deleted)
  BY <1>1, <1>11 DEF UseDisk, Attaching, AddDisk, Attach, DestroyExcess
<1>12. CASE MakeSnapshot \/ PlaceKey
  BY <1>1, <1>12 DEF MakeSnapshot, PlaceKey, Attaching
<1>13. CASE Raise \/ Abort
  BY <1>1, <1>13 DEF Raise, Abort, CutShort
<1>14. CASE UserStep
  BY <1>1, <1>14 DEF UserStep, UserStart, UserStop
<1>15. CASE ServerStep
  BY <1>1, <1>15, SyncClientAssumption DEF ServerStep, Publish, SyncClientAssumption
<1>16. CASE UNCHANGED vars
  BY <1>1, <1>16 DEF vars
<1>17. QED
  BY <1>3, <1>4, <1>5, <1>6, <1>7, <1>8, <1>9, <1>10, <1>11, <1>12, <1>13, <1>14,
     <1>15, <1>16 DEF Next, ClientStep, RunStep, VmStep

\* Users, the server and the disks do not interfere with the loops.
LoopsKept == UNCHANGED <<want, pc, pass, have, bytes, todo, cur, slot, objects>>

LEMMA OthersKeepLoops ==
  ASSUME \/ UserStep \/ ServerStep \/ UNCHANGED vars
         \/ \E d \in Disks : DiskStep(d)
  PROVE  LoopsKept
BY DEF LoopsKept, UserStep, UserStart, UserStop, ServerStep, Publish, vars, run, loop,
       DiskStep, Drop, Fetch

LEMMA LoopStep ==
  ASSUME RunInv, [Next]_vars
  PROVE  LoopInv'
<1> USE DEF RunInv, LoopInv, DiskSteps, With
<1>1. CASE StartRun \/ Raise \/ Abort \/ EndRun
  BY <1>1 DEF StartRun, Raise, Abort, CutShort, EndRun, loop, TypeOK
<1>2. CASE EndDisks
  BY <1>2 DEF EndDisks
<1>3. CASE \E v \in VMs, p \in Paths : Create(v, p)
  BY <1>3 DEF Create, loop, TypeOK
<1>4. CASE \E v \in VMs : Label(v)
  BY <1>4 DEF Label
<1>5. CASE EndEnsure
  BY <1>5 DEF EndEnsure
<1>6. CASE \E v \in VMs : Configure(v)
  BY <1>6 DEF Configure
<1>7. CASE \E v \in VMs : Retire(v)
  BY <1>7 DEF Retire
<1>8. CASE \E v \in VMs : Check(v)
  BY <1>8 DEF Check, Visited
<1>9. CASE NoDataYet \/ SkipRunning \/ Destroy
  BY <1>9 DEF NoDataYet, SkipRunning, Destroy, Visited
<1>10. CASE EndDiskConfig
  BY <1>10 DEF EndDiskConfig, Visited
<1>11. CASE BeginDiskConfig \/ EndArrange \/ EndRetire
  BY <1>11 DEF BeginDiskConfig, EndArrange, EndRetire
<1>12. CASE UseDisk \/ MakeSnapshot \/ PlaceKey \/ AddDisk \/ Attach
           \/ \E deleted \in BOOLEAN : DestroyExcess(deleted)
  BY <1>12 DEF UseDisk, MakeSnapshot, PlaceKey, Attaching, AddDisk, Attach, DestroyExcess, loop
<1>13. CASE UserStep \/ ServerStep \/ UNCHANGED vars \/ \E d \in Disks : DiskStep(d)
  BY <1>13, OthersKeepLoops DEF LoopsKept
<1>14. QED
  BY <1>1, <1>2, <1>3, <1>4, <1>5, <1>6, <1>7, <1>8, <1>9, <1>10, <1>11, <1>12, <1>13
     DEF Next, ClientStep, RunStep, VmStep

\* What Change leaves of the other VM objects, for the steps of HaveStep.
LEMMA ChangeSame ==
  ASSUME RunInv, \E q, o : Change(q, o)
  PROVE  SameVms
BY ChangeKeeps

LEMMA HaveStep ==
  ASSUME RunInv, [Next]_vars
  PROVE  HaveInv'
<1>1. CASE StartRun \/ Raise \/ Abort \/ EndRun
  BY <1>1 DEF StartRun, Raise, Abort, CutShort, EndRun, HaveInv
<1>2. CASE EndDisks
  <2>1. /\ vm' = vm
        /\ \A v \in VMs : IF OursFor(v) = {} THEN have'[v] = None ELSE have'[v] \in OursFor(v)
    BY <1>2 DEF EndDisks, ListVms, machine
  <2>2. \A p \in AllPaths : vm[p] # None /\ vm[p].realm = "ours" => p \in Paths
    BY DEF RunInv, RealmInv, AllPaths
  <2>3. \A p \in Paths : vm[p] # None => p \in AllPaths /\ vm[p].realm = "ours"
    BY DEF RunInv, RealmInv, AllPaths
  <2>4. None \notin AllPaths
    BY SyncClientAssumption DEF SyncClientAssumption, AllPaths
  <2>5. ASSUME NEW v \in VMs, have'[v] = None
        PROVE  \A p \in Paths : vm[p] # None => vm[p].sync # v
    <3>1. OursFor(v) = {}
      BY <2>1, <2>4, <2>5 DEF OursFor
    <3>2. QED BY <2>3, <3>1 DEF OursFor
  <2>6. ASSUME NEW v \in VMs, have'[v] # None
        PROVE  have'[v] \in Paths /\ vm[have'[v]] # None /\ vm[have'[v]].sync = v
    BY <2>1, <2>2, <2>6 DEF OursFor
  <2>7. QED BY <2>1, <2>5, <2>6 DEF HaveInv
<1>3. CASE \E v \in VMs, p \in Paths : Create(v, p)
  <2>1. PICK v \in VMs, p \in Paths : Create(v, p)
    BY <1>3
  <2>2. /\ vm[p] = None /\ vm'[p] = NewVm(v, "ours") /\ NewVm(v, "ours") # None
        /\ \A q \in AllPaths \ {p} : vm'[q] = vm[q]
    BY <2>1, CreateKeeps
  <2>3. /\ pc = "ensure" /\ pc' = "ensure" /\ have[v] = None
        /\ have' = [have EXCEPT ![v] = p]
        /\ have \in [VMs -> AllPaths \cup {None}]
    BY <2>1 DEF Create, RunInv, TypeOK
  <2>4. have'[v] = p /\ vm'[p].sync = v /\ p # None /\ vm'[p] # None
    BY <2>2, <2>3, SyncClientAssumption DEF NewVm, SyncClientAssumption
  <2>5. ASSUME NEW u \in VMs, u # v
        PROVE  /\ have'[u] = None => \A q \in Paths : vm'[q] # None => vm'[q].sync # u
               /\ have'[u] # None =>
                    have'[u] \in Paths /\ vm'[have'[u]] # None /\ vm'[have'[u]].sync = u
    <3>1. have'[u] = have[u]
      BY <2>3, <2>5
    <3>2. /\ have[u] = None => \A q \in Paths : vm[q] # None => vm[q].sync # u
          /\ have[u] # None =>
               have[u] \in Paths /\ vm[have[u]] # None /\ vm[have[u]].sync = u
      BY <2>3 DEF RunInv, HaveInv
    <3>3. QED BY <2>2, <2>4, <2>5, <3>1, <3>2 DEF AllPaths
  <2>6. QED BY <2>3, <2>4, <2>5 DEF HaveInv
<1>4. CASE Destroy
  <2>1. /\ cur \in todo /\ have[cur] \in Paths
        /\ vm[have[cur]] # None /\ vm[have[cur]].sync = cur
        /\ vm'[have[cur]] = None
        /\ \A q \in AllPaths \ {have[cur]} : vm'[q] = vm[q]
    BY <1>4, DestroyKeeps
  <2>2. pc = "delete" /\ pc' = "delete" /\ todo' = todo \ {cur} /\ have' = have
    BY <1>4 DEF Destroy, Visited
  <2>3. QED BY <2>1, <2>2 DEF HaveInv, RunInv, AllPaths
<1>5. CASE \E v \in VMs : Label(v) \/ Configure(v) \/ Retire(v)
  <2>1. SameVms
    BY <1>5, LabelChange, ConfigureChange, RetireChange, ChangeSame
  <2>2. have' = have /\ pc' = pc /\ pc # "delete"
    BY <1>5 DEF Label, Configure, Retire
  <2>3. QED BY <2>1, <2>2, HaveKept
<1>6. CASE \/ NoDataYet \/ EndDiskConfig \/ AddDisk \/ Attach
           \/ \E deleted \in BOOLEAN : DestroyExcess(deleted)
  <2>1. /\ have' = have /\ pc # "delete" /\ pc \notin {"off", "disks"}
        /\ pc' \in {"arrange", "look", "attach"}
    BY <1>6 DEF NoDataYet, EndDiskConfig, AddDisk, Attach, DestroyExcess
  <2>2. SameVms
    <3>1. \/ vm' = vm
          \/ \E q, o : Change(q, o)
      <4>1. ~(\E v \in VMs, p \in Paths : Create(v, p)) /\ ~Destroy
        BY <1>6 DEF NoDataYet, EndDiskConfig, AddDisk, Attach, DestroyExcess, Create, Destroy
      <4>2. QED BY <4>1, VmStepKinds
    <3>2. QED BY <3>1, ChangeSame DEF SameVms
  <2>3. QED BY <2>1, <2>2, HaveKept
<1>7. CASE UserStep
  <2>1. SameVms
    BY <1>7, UserChange, ChangeSame DEF UserStep
  <2>2. QED BY <1>7, <2>1, OthersKeepLoops, HaveKept DEF LoopsKept
<1>8. CASE ServerStep \/ UNCHANGED vars \/ \E d \in Disks : DiskStep(d)
  <2>1. vm' = vm
    BY <1>8 DEF ServerStep, Publish, vars, machine, DiskStep, Drop, Fetch
  <2>2. SameVms
    BY <2>1 DEF SameVms
  <2>3. QED BY <1>8, <2>2, OthersKeepLoops, HaveKept DEF LoopsKept
<1>9. CASE \/ EndEnsure \/ SkipRunning \/ BeginDiskConfig \/ UseDisk \/ MakeSnapshot
           \/ PlaceKey \/ EndArrange \/ EndRetire \/ \E v \in VMs : Check(v)
  <2>1. /\ vm' = vm /\ have' = have /\ pc \notin {"off", "disks"}
        /\ pc = "delete" => pc' = "delete" /\ todo' \subseteq todo
    BY <1>9 DEF EndEnsure, SkipRunning, BeginDiskConfig, UseDisk, MakeSnapshot,
                PlaceKey, EndArrange, EndRetire, Check, Visited, machine
  <2>2. SameVms
    BY <2>1 DEF SameVms
  <2>3. QED BY <2>1, <2>2, HaveKept
<1>10. QED
  BY <1>1, <1>2, <1>3, <1>4, <1>5, <1>6, <1>7, <1>8, <1>9
     DEF Next, ClientStep, RunStep, VmStep

LEMMA SlotStep ==
  ASSUME RunInv, [Next]_vars
  PROVE  SlotInv'
<1>1. CASE pc' \notin DiskSteps
  BY <1>1 DEF SlotInv
<1>2. CASE pc' \in DiskSteps
  <2>1. ASSUME cur \in VMs, pc \in {"arrange"} \cup DiskSteps, cur \in todo
        PROVE  /\ have[cur] \in Paths /\ vm[have[cur]] # None
               /\ vm[have[cur]].disks \in Seq(Slotted)
               /\ Len(vm[have[cur]].disks) \in Nat /\ Len(want[cur].disks) \in Nat
               /\ slot \in Nat /\ objects \in Nat
    BY <2>1, WantedObject, WantTypes, ObjectTypes, LenProperties DEF RunInv, TypeOK, DiskSteps
  <2>2. pc \in DiskSteps => cur \in todo /\ cur \in VMs
    BY DEF RunInv, LoopInv, TypeOK
  <2>3. CASE BeginDiskConfig
    <3>1. cur \in VMs /\ cur \in todo /\ pc = "arrange" /\ pc' = "look"
      BY <2>3 DEF BeginDiskConfig, RunInv, LoopInv, TypeOK
    <3>2. /\ slot' = 1 /\ objects' = Len(vm[have[cur]].disks)
          /\ UNCHANGED <<vm, have, want, cur>>
      BY <2>3 DEF BeginDiskConfig, machine
    <3>3. Len(vm[have[cur]].disks) \in Nat /\ Len(want[cur].disks) \in Nat
      BY <2>1, <3>1
    <3>4. QED BY <3>1, <3>2, <3>3 DEF SlotInv
  <2>4. CASE UseDisk \/ MakeSnapshot
    <3>1. pc \in DiskSteps /\ pc = "look" /\ slot <= Len(want[cur].disks)
      BY <2>4 DEF UseDisk, MakeSnapshot, SlotIsWanted, DiskSteps
    <3>2. /\ UNCHANGED <<vm, have, want, cur, slot, objects>>
          /\ pc' \in {"key", Attaching}
      BY <2>4 DEF UseDisk, MakeSnapshot, machine, loop
    <3>3. QED BY <2>1, <2>2, <3>1, <3>2 DEF SlotInv, RunInv, Attaching
  <2>5. CASE PlaceKey
    <3>1. /\ pc = "key" /\ pc \in DiskSteps /\ pc' = Attaching
          /\ UNCHANGED <<vm, have, want, cur, slot, objects>>
      BY <2>5 DEF PlaceKey, loop, DiskSteps
    <3>2. QED BY <2>1, <2>2, <3>1 DEF SlotInv, RunInv, Attaching
  <2>6. CASE AddDisk \/ Attach
    <3>1. /\ pc \in DiskSteps /\ UNCHANGED <<have, want, cur, objects>>
          /\ \/ pc = "add" /\ pc' = "attach" /\ slot' = slot
             \/ pc = "attach" /\ pc' = "look" /\ slot' = slot + 1
      BY <2>6 DEF AddDisk, Attach, DiskSteps, loop
    <3>2. PICK o : /\ Change(have[cur], o)
                   /\ Len(o.disks) = IF pc = "add" THEN slot ELSE Len(vm[have[cur]].disks)
      <4>1. CASE AddDisk
        BY <4>1, AddDiskChange DEF AddDisk
      <4>2. CASE Attach
        BY <4>2, AttachChange DEF Attach
      <4>3. QED BY <2>6, <4>1, <4>2
    <3>3. vm'[have[cur]] = o
      BY <3>2, ChangeKeeps
    <3> DEFINE n == Len(vm[have[cur]].disks)
               m == Len(vm'[have'[cur']].disks)
               w == Len(want[cur].disks)
    <3>4. slot \in Nat /\ objects \in Nat /\ w \in Nat /\ n \in Nat
      BY <2>1, <2>2, <3>1
    <3>5. m = (IF pc = "add" THEN slot ELSE n) /\ Len(want'[cur'].disks) = w
      BY <3>1, <3>2, <3>3
    <3>6. /\ slot >= 1 /\ slot <= w
          /\ pc = "add" => slot > objects
          /\ n = IF slot <= objects THEN objects ELSE IF pc = "attach" THEN slot ELSE slot - 1
      BY <3>1, <3>4 DEF SlotInv, RunInv
    <3> HIDE DEF n, m, w
    <3>7. /\ slot' >= 1 /\ slot' <= w + 1 /\ pc' # "add"
          /\ pc' = "attach" => slot' <= w
          /\ pc' # "key"
          /\ m = IF slot' <= objects THEN objects
                 ELSE IF pc' = "attach" THEN slot' ELSE slot' - 1
      BY <3>1, <3>4, <3>5, <3>6
    <3>8. ~(slot' > w + 1)
      BY <3>1, <3>4, <3>7
    <3>9. QED
      BY <3>1, <3>5, <3>7, <3>8 DEF SlotInv, m, w
  <2>7. CASE \E deleted \in BOOLEAN : DestroyExcess(deleted)
    <3>1. PICK deleted \in BOOLEAN : DestroyExcess(deleted)
      BY <2>7
    <3>2. /\ pc = "look" /\ pc \in DiskSteps /\ pc' = "look" /\ slot' = slot + 1
          /\ UNCHANGED <<have, want, cur, objects>>
          /\ ~(slot <= Len(want[cur].disks)) /\ slot <= objects
      BY <3>1 DEF DestroyExcess, SlotIsWanted, DiskSteps
    <3>3. PICK o :
            /\ Change(have[cur], o)
            /\ Len(o.disks) \in {Len(vm[have[cur]].disks), Len(vm[have[cur]].disks) - 1}
      BY <3>1, DestroyExcessChange
    <3>4. vm'[have[cur]] = o
      BY <3>3, ChangeKeeps
    <3> DEFINE n == Len(vm[have[cur]].disks)
               m == Len(vm'[have'[cur']].disks)
               w == Len(want[cur].disks)
    <3>5. slot \in Nat /\ objects \in Nat /\ w \in Nat /\ n \in Nat
      BY <2>1, <2>2, <3>2
    <3>6. m \in {n, n - 1} /\ Len(want'[cur'].disks) = w
      BY <3>2, <3>3, <3>4
    <3>7. /\ slot >= 1
          /\ slot <= w + 1 => n = objects
          /\ slot > w + 1 => n <= objects /\ n >= objects - (slot - 1)
      BY <3>2 DEF SlotInv, RunInv
    <3> HIDE DEF n, m, w
    <3>8. /\ slot + 1 >= 1 /\ slot + 1 > w + 1 /\ slot + 1 <= objects + 1
          /\ m <= objects /\ m >= objects - ((slot + 1) - 1)
      BY <3>2, <3>5, <3>6, <3>7 DEF w
    <3>9. QED
      BY <3>2, <3>5, <3>6, <3>8 DEF SlotInv, n, m, w
  <2>8. CASE UserStep
    <3>1. PICK p \in Paths : UserStart(p) \/ UserStop(p)
      BY <2>8 DEF UserStep
    <3>2. PICK o : Change(p, o)
      BY <3>1, UserChange
    <3>3. vm'[p].disks = vm[p].disks /\ \A q \in AllPaths \ {p} : vm'[q] = vm[q]
      BY <3>1, <3>2, UserChange, ChangeKeeps
    <3>4. UNCHANGED <<pc, have, want, cur, slot, objects>>
      BY <2>8, OthersKeepLoops DEF LoopsKept
    <3>5. vm'[have[cur]].disks = vm[have[cur]].disks
      BY <1>2, <2>1, <2>2, <3>3, <3>4 DEF AllPaths
    <3>6. QED BY <1>2, <3>4, <3>5 DEF SlotInv, RunInv
  <2>9. CASE ServerStep \/ UNCHANGED vars
    <3>1. UNCHANGED <<vm, pc, have, want, cur, slot, objects>>
      BY <2>9 DEF ServerStep, Publish, vars, machine, run, loop
    <3>2. QED BY <3>1 DEF SlotInv, RunInv
  <2>10. \/ BeginDiskConfig \/ UseDisk \/ MakeSnapshot \/ PlaceKey \/ AddDisk \/ Attach
         \/ \E deleted \in BOOLEAN : DestroyExcess(deleted)
         \/ UserStep \/ ServerStep \/ UNCHANGED vars
    <3>1. ~(\E d \in Disks : DiskStep(d))
      BY <1>2 DEF DiskStep, Drop, Fetch, run, DiskSteps
    <3>2. ~(\E v \in VMs : VmStep(v))
      BY <1>2 DEF VmStep, Create, Label, Configure, Retire, Check, DiskSteps
    <3>3. ~StartRun /\ ~EndDisks /\ ~EndEnsure /\ ~EndArrange /\ ~EndRetire /\ ~EndRun
      BY <1>2 DEF StartRun, EndDisks, EndEnsure, EndArrange, EndRetire, EndRun, DiskSteps
    <3>4. ~NoDataYet /\ ~SkipRunning /\ ~EndDiskConfig /\ ~Destroy /\ ~Raise /\ ~Abort
      BY <1>2 DEF NoDataYet, SkipRunning, EndDiskConfig, Destroy, Raise, Abort, CutShort, DiskSteps
    <3>5. QED BY <3>1, <3>2, <3>3, <3>4 DEF Next, ClientStep, RunStep
  <2>11. QED BY <2>3, <2>4, <2>5, <2>6, <2>7, <2>8, <2>9, <2>10
<1>3. QED BY <1>1, <1>2

LEMMA RetireStep ==
  ASSUME RunInv, [Next]_vars
  PROVE  RetireInv'
<1>1. CASE pc' \notin {"retire", "delete"}
  BY <1>1 DEF RetireInv
<1>2. CASE pc' \in {"retire", "delete"}
  <2>1. ASSUME pc \in {"retire", "delete"}, NEW v \in VMs, have[v] # None,
               pc = "delete" => v \in todo
        PROVE  have[v] \in Paths /\ have[v] \in AllPaths
               /\ vm[have[v]] # None /\ vm[have[v]].sync = v
    BY <2>1, OurObject
  <2>2. pc = "retire" => cur = None
    BY DEF RunInv, LoopInv
  <2>3. CASE EndArrange
    BY <1>2, <2>3 DEF EndArrange, RetireInv, With, machine
  <2>4. CASE \E v \in VMs : Retire(v)
    <3>1. PICK v \in VMs : Retire(v)
      BY <2>4
    <3>2. /\ pc = "retire" /\ pc' = "retire" /\ todo' = todo \ {v}
          /\ UNCHANGED <<have, want, cur>>
      BY <3>1 DEF Retire
    <3>3. PICK o : Change(have[v], o)
      BY <3>1, RetireChange
    <3>4. ~vm'[have[v]].ready /\ \A q \in AllPaths \ {have[v]} : vm'[q] = vm[q]
      BY <3>1, <3>3, RetireChange, ChangeKeeps
    <3>5. ASSUME NEW u \in With("removed") \ todo', have[u] # None
          PROVE  ~vm'[have[u]].ready
      <4>1. u \in VMs /\ have[u] \in AllPaths
        BY <2>1, <3>2, <3>5 DEF With
      <4>2. CASE have[u] = have[v]
        BY <3>4, <4>2
      <4>3. CASE have[u] # have[v]
        <5>1. u \in With("removed") \ todo
          BY <3>2, <3>5, <4>3
        <5>2. ~vm[have[u]].ready
          BY <3>2, <3>5, <5>1 DEF RunInv, RetireInv
        <5>3. QED BY <3>4, <4>1, <4>3, <5>2
      <4>4. QED BY <4>2, <4>3
    <3>6. QED BY <3>2, <3>5 DEF RetireInv, With
  <2>5. CASE EndRetire
    BY <2>2, <2>5 DEF EndRetire, RetireInv, RunInv, With, machine
  <2>6. CASE \E v \in VMs : Check(v)
    BY <2>6 DEF Check, Visited, RetireInv, RunInv, With, Unwanted, machine
  <2>7. CASE Destroy
    <3>1. /\ pc = "delete" /\ pc' = "delete" /\ todo' = todo \ {cur} /\ cur' = None
          /\ UNCHANGED <<have, want>>
      BY <2>7 DEF Destroy, Visited
    <3>2. /\ cur \in todo /\ vm[have[cur]].sync = cur
          /\ \A q \in AllPaths \ {have[cur]} : vm'[q] = vm[q]
      BY <2>7, DestroyKeeps
    <3>3. ASSUME NEW v \in With("removed") \cap todo'
          PROVE  ~vm'[have[v]].ready
      <4>1. v \in VMs /\ v \in todo /\ v # cur /\ v \in With("removed") /\ have[v] # None
        BY <3>1, <3>3 DEF With, RunInv, LoopInv
      <4>2. have[v] \in AllPaths /\ vm[have[v]].sync = v
        BY <2>1, <3>1, <4>1
      <4>3. ~vm[have[v]].ready
        BY <3>1, <4>1 DEF RunInv, RetireInv
      <4>4. QED BY <3>2, <4>1, <4>2, <4>3
    <3>4. QED BY <3>1, <3>3 DEF RetireInv, With
  <2>8. CASE UserStep
    <3>1. PICK p \in Paths : UserStart(p) \/ UserStop(p)
      BY <2>8 DEF UserStep
    <3>2. PICK o : Change(p, o)
      BY <3>1, UserChange
    <3>3. /\ vm'[p].ready = vm[p].ready
          /\ ~vm[p].ready /\ ~vm[p].up => ~vm'[p].up
          /\ \A q \in AllPaths \ {p} : vm'[q] = vm[q]
      BY <3>1, <3>2, UserChange, ChangeKeeps
    <3>4. UNCHANGED <<pc, have, want, cur, todo>>
      BY <2>8, OthersKeepLoops DEF LoopsKept
    <3>5. \A q \in AllPaths :
            /\ ~vm[q].ready => ~vm'[q].ready
            /\ ~vm[q].ready /\ ~vm[q].up => ~vm'[q].up
      BY <3>3
    <3>6. ASSUME pc = "retire", NEW v \in With("removed") \ todo, have[v] # None
          PROVE  ~vm'[have[v]].ready
      <4>1. v \in VMs /\ have[v] \in AllPaths
        BY <2>1, <3>6 DEF With
      <4>2. ~vm[have[v]].ready
        BY <3>6 DEF RunInv, RetireInv
      <4>3. QED BY <3>5, <4>1, <4>2
    <3>7. ASSUME pc = "delete", NEW v \in With("removed") \cap todo
          PROVE  have[v] \in AllPaths /\ ~vm[have[v]].ready /\ ~vm'[have[v]].ready
      <4>1. v \in VMs /\ v \in todo /\ have[v] # None
        BY <3>7 DEF RunInv, LoopInv, With
      <4>2. have[v] \in AllPaths
        BY <2>1, <3>7, <4>1
      <4>3. ~vm[have[v]].ready
        BY <3>7 DEF RunInv, RetireInv
      <4>4. QED BY <3>5, <4>2, <4>3
    <3>8. ASSUME pc = "delete", cur # None
          PROVE  \/ want[cur].status = "unlisted"
                 \/ want[cur].status = "removed" /\ ~vm'[have[cur]].up
      <4>1. cur \in todo /\ cur \in VMs /\ Unwanted(cur)
        BY <3>8 DEF RunInv, RetireInv, LoopInv, TypeOK
      <4>2. CASE want[cur].status = "unlisted"
        BY <4>2
      <4>3. CASE want[cur].status = "removed" /\ ~vm[have[cur]].up
        BY <3>5, <3>7, <3>8, <4>1, <4>3 DEF With
      <4>4. QED BY <4>1, <4>2, <4>3 DEF Unwanted
    <3>9. QED BY <3>4, <3>6, <3>7, <3>8 DEF RetireInv, With, Unwanted
  <2>9. CASE ServerStep \/ UNCHANGED vars
    <3>1. UNCHANGED <<vm, pc, have, want, cur, todo>>
      BY <2>9 DEF ServerStep, Publish, vars, machine, run, loop
    <3>2. QED BY <3>1 DEF RetireInv, RunInv, With, Unwanted
  <2>10. \/ EndArrange \/ EndRetire \/ Destroy \/ UserStep \/ ServerStep \/ UNCHANGED vars
         \/ \E v \in VMs : Retire(v) \/ Check(v)
    <3>1. ~(\E d \in Disks : DiskStep(d))
      BY <1>2 DEF DiskStep, Drop, Fetch, run
    <3>2. ~(\E v \in VMs : (\E p \in Paths : Create(v, p)) \/ Label(v) \/ Configure(v))
      BY <1>2 DEF Create, Label, Configure
    <3>3. ~StartRun /\ ~EndDisks /\ ~EndEnsure /\ ~EndRun
      BY <1>2 DEF StartRun, EndDisks, EndEnsure, EndRun
    <3>4. ~NoDataYet /\ ~SkipRunning /\ ~EndDiskConfig /\ ~Raise /\ ~Abort
      BY <1>2 DEF NoDataYet, SkipRunning, EndDiskConfig, Raise, Abort, CutShort
    <3>5. ~BeginDiskConfig /\ ~UseDisk /\ ~MakeSnapshot /\ ~PlaceKey
          /\ ~AddDisk /\ ~Attach /\ ~(\E deleted \in BOOLEAN : DestroyExcess(deleted))
      BY <1>2 DEF BeginDiskConfig, UseDisk, MakeSnapshot, PlaceKey, Attaching, AddDisk, Attach, DestroyExcess
    <3>6. QED BY <3>1, <3>2, <3>3, <3>4, <3>5 DEF Next, ClientStep, RunStep, VmStep
  <2>11. QED BY <2>3, <2>4, <2>5, <2>6, <2>7, <2>8, <2>9, <2>10
<1>3. QED BY <1>1, <1>2

-----------------------------------------------------------------------------
(***************************************************************************)
(* RunInv is what every step of work_toward_state, of the users and of the *)
(* server keeps.                                                           *)
(***************************************************************************)
THEOREM RunInvariant == Spec => []RunInv
<1>1. RunInv /\ [Next]_vars => RunInv'
  BY TypeStep, VmKept, LoopStep, HaveStep, SlotStep, RetireStep DEF RunInv
<1>2. QED BY InitInv, <1>1, PTL DEF Spec

\* The state of a run and of the machine keeps its types.
THEOREM SyncClientTypes == Spec => []TypeOK
<1>1. RunInv => TypeOK
  BY DEF RunInv
<1>2. QED BY <1>1, RunInvariant, PTL

(***************************************************************************)
(* Wherever runs are cut short, list_vms and ensure_vm_exists never leave  *)
(* two VM objects of ours that stand for one VM of the target state.       *)
(***************************************************************************)
THEOREM OneVmPerSync == Spec => []OnePerSync
<1>1. RunInv => OnePerSync
  BY DEF RunInv
<1>2. QED BY <1>1, RunInvariant, PTL

(***************************************************************************)
(* No step, not of arrange_vms's configuration and not of its deletions,   *)
(* touches the VM of another realm.                                        *)
(***************************************************************************)
THEOREM ForeignVmsUntouched == Spec => ForeignUntouched
<1>1. RunInv /\ [Next]_vars => vm'[Foreign] = vm[Foreign]
  <2> SUFFICES ASSUME RunInv, [Next]_vars PROVE vm'[Foreign] = vm[Foreign]
    OBVIOUS
  <2>1. Foreign \in AllPaths /\ Foreign \notin Paths
    BY SyncClientAssumption DEF SyncClientAssumption, AllPaths
  <2>2. ASSUME NEW q, NEW o, Change(q, o)
        PROVE  vm'[Foreign] = vm[Foreign]
    <3>1. q # Foreign
      BY <2>1, <2>2 DEF Change
    <3>2. QED BY <2>1, <2>2, <3>1, ChangeKeeps
  <2>3. QED BY <2>1, <2>2, VmStepKinds, CreateKeeps, DestroyKeeps
<1>2. QED BY <1>1, RunInvariant, PTL DEF Spec, ForeignUntouched

(***************************************************************************)
(* A user can start a VM between the moment arrange_vms finds it stopped   *)
(* and its deletion only if it is ready; it was retired before, so what is *)
(* deleted is unlisted, or removed and not running.                        *)
(***************************************************************************)
THEOREM RemovalIsGraceful == Spec => GracefulRemoval
<1> DEFINE Graceful ==
      \A p \in Paths : Deleted(p) =>
        LET v == vm[p].sync IN
        \/ want[v].status = "unlisted"
        \/ want[v].status = "removed" /\ ~vm[p].up
<1>1. RunInv /\ [Next]_vars => Graceful
  <2> SUFFICES ASSUME RunInv, [Next]_vars, NEW p \in Paths, Deleted(p)
               PROVE  LET v == vm[p].sync IN
                      \/ want[v].status = "unlisted"
                      \/ want[v].status = "removed" /\ ~vm[p].up
    OBVIOUS
  <2>1. p \in AllPaths /\ vm[p] # None /\ vm'[p] = None
    BY DEF Deleted, AllPaths
  <2>2. vm' # vm /\ ~(\E q, o : Change(q, o))
    BY <2>1, ChangeKeeps DEF SameVms
  <2>3. ASSUME NEW v \in VMs, NEW q \in Paths, Create(v, q)
        PROVE  FALSE
    BY <2>1, <2>3, CreateKeeps
  <2>4. Destroy
    BY <2>2, <2>3, VmStepKinds
  <2>5. Unwanted(cur) /\ vm[have[cur]].sync = cur /\ p = have[cur]
    BY <2>1, <2>4, DestroyKeeps
  <2>6. QED BY <2>5 DEF Unwanted
<1>2. QED BY <1>1, RunInvariant, PTL DEF Spec, GracefulRemoval
=============================================================================
