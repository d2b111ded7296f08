-------------------------- MODULE SyncClientPassProofs ----------------------
(***************************************************************************)
(* Proofs about what a pass of a run achieves, for any virtual machines,   *)
(* disks, target states and paths, on top of RunInv.                       *)
(***************************************************************************)
EXTENDS SyncClientProofs

Arranging == pc \in {"arrange"} \cup DiskSteps

\* While the VMs are arranged, the images are those the run has found.
FilesInv ==
  /\ pc \notin {"off", "disks"} => bytes = images /\ images \subseteq ListedDisks
  /\ pc \notin {"off", "disks"} /\ pass = 2 => images = ListedDisks
  /\ pc \in {"retire", "delete"} => pass = 2

\* No snapshot is keyed that is to be clear.
SnapsInv == \A v \in VMs, d \in Disks : snaps[v, d] = "keyed" => Encrypted(v, d)

\* The wanted VMs that this pass is over with, and those it has configured.
Over       == IF Arranging THEN With("wanted") \ todo
              ELSE IF PassOver THEN With("wanted") ELSE {}
ItemsSet   == Over \cup (IF Arranging THEN With("wanted") \cap {cur} ELSE {})

Standing(v) == have[v] \in Paths /\ vm[have[v]] # None /\ vm[have[v]].sync = v

StandingInv == \A v \in Over : Standing(v)

ItemsInv == \A v \in ItemsSet : HasItem(v) => vm[have[v]].runs = LocalValue(v)

ReadyInv ==
  \A v \in Over \ skipped :
    /\ vm[have[v]].ready => Configured(v, vm[have[v]])
    /\ pass = 2 /\ pc # "disks" => vm[have[v]].ready

SnapshotDone(v, d) ==
  d \notin ReadOnly => snaps[v, d] = IF Encrypted(v, d) THEN "keyed" ELSE "bare"

\* How far arrange_vm got with the disks of the VM it is at.
DisksInv ==
  pc \in DiskSteps =>
    LET o == vm[have[cur]]
        w == Len(want[cur].disks)
    IN  /\ DisksOf(cur) \subseteq images
        /\ slot > w + 1 => Len(o.disks) >= objects - (slot - 1 - w)
        /\ \A i \in 1 .. w :
             i < slot => o.disks[i] = want[cur].disks[i] /\ SnapshotDone(cur, want[cur].disks[i])
        /\ pc = "key" => Encrypted(cur, Disk)
        /\ pc \in {"add", "attach"} => SnapshotDone(cur, Disk)

PassInv == FilesInv /\ SnapsInv /\ StandingInv /\ ItemsInv /\ ReadyInv /\ DisksInv

Interrupted == StartRun \/ Raise \/ Abort \/ EndRun

-----------------------------------------------------------------------------
(* Where a step finds the pass.                                            *)

\* The steps of a pass once its VMs all exist.
LEMMA PassSteps ==
  ASSUME RunInv, [Next]_vars, Arranging' \/ PassOver'
  PROVE  \/ EndEnsure
         \/ (Arranging \/ PassOver) /\ have' = have /\ want' = want
<1> USE DEF Arranging, PassOver, DiskSteps
<1>1. CASE Interrupted
  BY <1>1 DEF Interrupted, StartRun, Raise, Abort, CutShort, EndRun
<1>2. CASE EndDisks \/ \E v \in VMs : Label(v) \/ \E p \in Paths : Create(v, p)
  BY <1>2 DEF EndDisks, Label, Create
<1>3. CASE \/ NoDataYet \/ SkipRunning \/ BeginDiskConfig \/ UseDisk \/ MakeSnapshot
           \/ PlaceKey \/ EndArrange \/ EndRetire \/ Destroy \/ AddDisk \/ Attach \/ EndDiskConfig
           \/ \E deleted \in BOOLEAN : DestroyExcess(deleted)
  BY <1>3 DEF NoDataYet, SkipRunning, BeginDiskConfig, UseDisk, Attaching, MakeSnapshot, PlaceKey,
              EndArrange, EndRetire, Destroy, AddDisk, Attach, EndDiskConfig, DestroyExcess
<1>4. CASE \E v \in VMs : Configure(v) \/ Retire(v) \/ Check(v)
  BY <1>4 DEF Configure, Retire, Check
<1>5. CASE \/ UserStep \/ ServerStep \/ UNCHANGED vars
           \/ \E d \in Disks : DiskStep(d)
  BY <1>5, OthersKeepLoops DEF LoopsKept
<1>6. QED BY <1>1, <1>2, <1>3, <1>4, <1>5
          DEF Interrupted, Next, ClientStep, RunStep, VmStep

LEMMA WantedStands ==
  ASSUME RunInv, StandingInv, Arranging \/ PassOver, NEW v \in With("wanted")
  PROVE  /\ v \in VMs /\ Standing(v)
         /\ have[v] \in AllPaths /\ vm[have[v]] \in Object /\ want[v].sets = {}
<1>1. v \in VMs
  BY DEF With
<1>2. CASE Arranging
  <2>1. have[v] # None /\ pc \notin {"off", "disks", "delete"}
    BY <1>2 DEF Arranging, RunInv, LoopInv, DiskSteps
  <2>2. QED BY <1>1, <2>1, OurObject, WantTypes DEF Standing, RunInv
<1>3. CASE ~Arranging
  <2>1. Standing(v)
    BY <1>3 DEF StandingInv, Over
  <2>2. QED BY <1>1, <2>1, ObjectTypes, WantTypes DEF Standing, RunInv, AllPaths
<1>4. QED BY <1>2, <1>3

\* Two VMs do not share an object.
LEMMA Apart ==
  ASSUME NEW v, NEW w, Standing(v), Standing(w), v # w
  PROVE  have[v] # have[w]
BY DEF Standing

\* In a pass the object of a VM that is visited stands for it.
LEMMA CurStands ==
  ASSUME RunInv, pc \in {"arrange"} \cup DiskSteps \cup {"delete"}, cur # None
  PROVE  /\ cur \in VMs /\ Standing(cur) /\ have[cur] \in AllPaths
         /\ vm[have[cur]] \in Object
         /\ pc # "delete" => cur \in With("wanted") /\ cur \in todo
         /\ pc = "delete" => cur \notin With("wanted")
<1>1. cur \in todo /\ cur \in VMs /\ have[cur] # None
  BY DEF RunInv, LoopInv, TypeOK, DiskSteps, With
<1>2. pc \notin {"off", "disks"}
  BY DEF DiskSteps
<1>3. Standing(cur) /\ have[cur] \in AllPaths /\ vm[have[cur]] \in Object
  BY <1>1, <1>2, OurObject DEF Standing
<1>4. pc = "delete" => cur \notin With("wanted")
  BY DEF RunInv, RetireInv, Unwanted, With
<1>5. pc # "delete" => cur \in With("wanted")
  BY <1>1 DEF RunInv, LoopInv, DiskSteps
<1>6. QED BY <1>1, <1>3, <1>4, <1>5

\* cur is a VM in the loop over the disks.
LEMMA DiskCur ==
  ASSUME RunInv, pc \in DiskSteps
  PROVE  cur # None
BY SyncClientAssumption DEF RunInv, LoopInv, TypeOK, SyncClientAssumption

LEMMA StandingStep ==
  ASSUME RunInv, StandingInv, [Next]_vars
  PROVE  StandingInv'
<1>1. CASE ~(Arranging' \/ PassOver')
  BY <1>1 DEF StandingInv, Over
<1>2. CASE EndEnsure
  BY <1>2 DEF EndEnsure, StandingInv, Over, Arranging, With
<1>3. CASE (Arranging \/ PassOver) /\ have' = have /\ want' = want
  <2> SUFFICES ASSUME NEW v \in Over' PROVE Standing(v)'
    BY DEF StandingInv
  <2>1. v \in With("wanted")
    BY <1>3 DEF Over, With
  <2>2. v \in VMs /\ Standing(v) /\ have[v] \in AllPaths
    BY <1>3, <2>1, WantedStands
  <2>3. CASE vm' = vm \/ \E q, o : Change(q, o)
    BY <1>3, <2>2, <2>3, ChangeKeeps DEF Standing, SameVms
  <2>4. ASSUME NEW w \in VMs, NEW p \in Paths, Create(w, p)
        PROVE  FALSE
    BY <1>3, <2>4 DEF Create, Arranging, PassOver, DiskSteps
  <2>5. CASE Destroy
    <3>1. pc = "delete" /\ cur # None
      BY <2>5 DEF Destroy
    <3>2. Standing(cur) /\ cur # v
      BY <2>1, <3>1, CurStands
    <3>3. have[v] # have[cur]
      BY <2>2, <3>2, Apart
    <3>4. vm'[have[v]] = vm[have[v]]
      BY <2>2, <2>5, <3>3, DestroyKeeps
    <3>5. QED BY <1>3, <2>2, <3>4 DEF Standing
  <2>6. QED BY <2>3, <2>4, <2>5, VmStepKinds
<1>4. QED BY <1>1, <1>2, <1>3, PassSteps

-----------------------------------------------------------------------------
(* Images and snapshots.                                                   *)

LEMMA FilesStep ==
  ASSUME RunInv, FilesInv, [Next]_vars
  PROVE  FilesInv'
<1> USE DEF FilesInv, DiskSteps, ListedDisks, Listed, With, DisksOf
<1>1. CASE Interrupted
  BY <1>1 DEF Interrupted, StartRun, Raise, Abort, CutShort, EndRun
<1>2. CASE EndDisks
  <2>1. /\ UNCHANGED <<images, want, pass>> /\ bytes' = images \cap ListedDisks
        /\ pc' = "ensure"
    BY <1>2 DEF EndDisks, machine
  <2>2. \A d \in Disks : ~Unlisted(d)
    BY <1>2 DEF EndDisks, DisksReady
  <2>3. images \subseteq ListedDisks
    BY <2>2 DEF Unlisted, RunInv, TypeOK
  <2>4. pass = 2 => ListedDisks \subseteq images
    BY <1>2 DEF EndDisks, DisksReady
  <2>5. QED BY <2>1, <2>3, <2>4
<1>3. CASE \E d \in Disks : DiskStep(d)
  BY <1>3 DEF DiskStep, Drop, Fetch, run
<1>4. CASE EndArrange
  BY <1>4 DEF EndArrange, machine, RunInv, TypeOK
<1>5. CASE \/ EndEnsure \/ NoDataYet \/ SkipRunning \/ BeginDiskConfig \/ UseDisk
           \/ MakeSnapshot \/ PlaceKey \/ EndRetire \/ Destroy \/ AddDisk \/ Attach \/ EndDiskConfig
           \/ \E deleted \in BOOLEAN : DestroyExcess(deleted)
           \/ \E v \in VMs : VmStep(v)
  <2>1. /\ UNCHANGED <<images, want, pass, bytes>> /\ pc \notin {"off", "disks"}
        /\ pc' \in {"retire", "delete"} => pc \in {"retire", "delete"}
    BY <1>5 DEF EndEnsure, NoDataYet, SkipRunning, BeginDiskConfig, UseDisk, Attaching, MakeSnapshot,
                PlaceKey, EndRetire, Destroy, AddDisk, Attach, EndDiskConfig, DestroyExcess, VmStep,
                Create, Label, Configure, Retire, Check, machine
  <2>2. QED BY <2>1
<1>6. CASE UserStep \/ ServerStep \/ UNCHANGED vars
  BY <1>6 DEF UserStep, UserStart, UserStop, ServerStep, Publish, vars, machine, run
<1>7. QED BY <1>1, <1>2, <1>3, <1>4, <1>5, <1>6 DEF Interrupted, Next, ClientStep, RunStep

LEMMA SnapsKept ==
  ASSUME [Next]_vars
  PROVE  \/ snaps' = snaps
         \/ MakeSnapshot \/ PlaceKey \/ \E d \in Disks : Drop(d)
BY DEF Next, ClientStep, RunStep, VmStep, DiskStep, UserStep, ServerStep, StartRun, EndDisks,
       EndEnsure, NoDataYet, SkipRunning, BeginDiskConfig, UseDisk, MakeSnapshot, PlaceKey,
       AddDisk, Attach, DestroyExcess, EndDiskConfig, EndArrange, EndRetire, Destroy, EndRun, Raise,
       Abort, CutShort, Fetch, Create, Label, Configure, Retire, Check, UserStart, UserStop,
       Publish, vars, machine

LEMMA ImagesKept ==
  ASSUME [Next]_vars
  PROVE  images' = images \/ \E d \in Disks : DiskStep(d)
BY DEF Next, ClientStep, RunStep, VmStep, UserStep, ServerStep, StartRun, EndDisks,
       EndEnsure, NoDataYet, SkipRunning, BeginDiskConfig, UseDisk, MakeSnapshot, PlaceKey,
       AddDisk, Attach, DestroyExcess, EndDiskConfig, EndArrange, EndRetire, Destroy, EndRun, Raise,
       Abort, CutShort, Create, Label, Configure, Retire, Check, UserStart, UserStop,
       Publish, vars, machine

-----------------------------------------------------------------------------
(* What a step of a pass leaves of the objects of the wanted VMs.          *)

ItemsKept(v) == vm'[have[v]].runs = vm[have[v]].runs

DisksKept(v) ==
  vm'[have[v]].disks = vm[have[v]].disks /\ vm'[have[v]].ready = vm[have[v]].ready

\* The steps of arrange_vm that write to the object of the VM it is at.
CurWrites ==
  \/ NoDataYet \/ EndDiskConfig \/ AddDisk \/ Attach
  \/ \E deleted \in BOOLEAN : DestroyExcess(deleted)

LEMMA FieldsKept ==
  ASSUME NEW o \in Object, NEW x
  PROVE  /\ [o EXCEPT !.ready = x].runs = o.runs /\ [o EXCEPT !.ready = x].disks = o.disks
         /\ [o EXCEPT !.ready = x].ready = x
         /\ [o EXCEPT !.disks = x].runs = o.runs /\ [o EXCEPT !.disks = x].ready = o.ready
         /\ [o EXCEPT !.disks = x].disks = x
         /\ [o EXCEPT !.up = x].runs = o.runs /\ [o EXCEPT !.up = x].disks = o.disks
         /\ [o EXCEPT !.up = x].ready = o.ready
BY DEF Object

LEMMA CurWritesTo ==
  ASSUME RunInv, CurWrites
  PROVE  /\ pc \in {"arrange"} \cup DiskSteps /\ cur # None
         /\ \A p \in AllPaths \ {have[cur]} : vm'[p] = vm[p]
         /\ vm'[have[cur]].runs = vm[have[cur]].runs
<1>1. pc \in {"arrange"} \cup DiskSteps /\ cur # None
  BY DiskCur DEF CurWrites, NoDataYet, EndDiskConfig, AddDisk, Attach, DestroyExcess, DiskSteps
<1>2. /\ have[cur] \in AllPaths /\ vm[have[cur]] \in Object
      /\ vm \in [AllPaths -> Object \cup {None}]
  BY <1>1, CurStands DEF RunInv, TypeOK
<1> DEFINE o == vm[have[cur]]
<1>3. CASE NoDataYet \/ EndDiskConfig
  <2>1. PICK value \in BOOLEAN : vm' = [vm EXCEPT ![have[cur]] = [o EXCEPT !.ready = value]]
    BY <1>3 DEF NoDataYet, EndDiskConfig, SetReady
  <2>2. vm'[have[cur]] = [o EXCEPT !.ready = value]
    BY <1>2, <2>1
  <2>3. vm'[have[cur]].runs = o.runs
    BY <1>2, <2>2, FieldsKept
  <2>4. QED BY <1>1, <1>2, <2>1, <2>3
<1>4. CASE AddDisk \/ Attach \/ \E deleted \in BOOLEAN : DestroyExcess(deleted)
  <2>1. CASE vm' = vm
    BY <1>1, <2>1
  <2>2. CASE vm' # vm
    <3>1. PICK ds : vm' = [vm EXCEPT ![have[cur]] = [o EXCEPT !.disks = ds]]
      BY <1>4, <2>2 DEF AddDisk, Attach, DestroyExcess
    <3>2. vm'[have[cur]] = [o EXCEPT !.disks = ds]
      BY <1>2, <3>1
    <3>3. vm'[have[cur]].runs = o.runs
      BY <1>2, <3>2, FieldsKept
    <3>4. QED BY <1>1, <1>2, <3>1, <3>3
  <2>3. QED BY <2>1, <2>2
<1>5. QED BY <1>1, <1>3, <1>4 DEF CurWrites

LEMMA WantedKept ==
  ASSUME RunInv, StandingInv, [Next]_vars, Arranging \/ PassOver, NEW v \in With("wanted")
  PROVE  /\ Configure(v) \/ ItemsKept(v)
         /\ (Arranging /\ v = cur) \/ DisksKept(v)
<1> USE DEF ItemsKept, DisksKept
<1>1. /\ v \in VMs /\ Standing(v) /\ have[v] \in AllPaths /\ vm[have[v]] \in Object
      /\ want[v].sets = {}
  BY WantedStands
<1>2. CASE vm' = vm
  BY <1>2
<1>3. CASE CurWrites
  <2>1. /\ Arranging /\ Standing(cur)
        /\ \A p \in AllPaths \ {have[cur]} : vm'[p] = vm[p]
        /\ vm'[have[cur]].runs = vm[have[cur]].runs
    BY <1>3, CurWritesTo, CurStands DEF Arranging
  <2>2. CASE v = cur
    BY <2>1, <2>2
  <2>3. CASE v # cur
    BY <1>1, <2>1, <2>3, Apart
  <2>4. QED BY <2>2, <2>3
<1>4. ASSUME NEW u \in VMs, Configure(u)
      PROVE  (Configure(v) \/ ItemsKept(v)) /\ DisksKept(v)
  <2>1. u \in With("wanted") /\ Standing(u) /\ have[u] \in AllPaths
    <3>1. u \in todo /\ pc = "arrange"
      BY <1>4 DEF Configure
    <3>2. u \in With("wanted")
      BY <3>1 DEF RunInv, LoopInv
    <3>3. QED BY <3>2, WantedStands
  <2>2. CASE u = v
    <3>1. vm' = [vm EXCEPT
                  ![have[v]].runs  = IF HasItem(v) THEN LocalValue(v) ELSE @,
                  ![have[v]].realm = IF "realm" \in want[v].sets THEN "none" ELSE @,
                  ![have[v]].ready = @ \/ "ready" \in want[v].sets]
      BY <1>4, <2>2 DEF Configure, SetConfig
    <3>2. vm \in [AllPaths -> Object \cup {None}] /\ vm[have[v]].ready \in BOOLEAN
      BY <1>1 DEF RunInv, TypeOK, Object
    <3>3. DisksKept(v)
      BY <1>1, <3>1, <3>2 DEF Object
    <3>4. QED BY <1>4, <2>2, <3>3
  <2>3. CASE u # v
    <3>1. have[u] # have[v]
      BY <1>1, <2>1, <2>3, Apart
    <3>2. vm'[have[v]] = vm[have[v]]
      BY <1>1, <1>4, <3>1, ConfigureChange, ChangeKeeps
    <3>3. QED BY <3>2
  <2>4. QED BY <2>2, <2>3
<1>5. ASSUME NEW u \in VMs, Retire(u) PROVE ItemsKept(v) /\ DisksKept(v)
  <2>1. pc = "retire" /\ u \in todo
    BY <1>5 DEF Retire
  <2>2. have[u] # None /\ pc \notin {"off", "disks", "delete"}
    BY <2>1 DEF RunInv, LoopInv
  <2>3. Standing(u) /\ have[u] \in AllPaths
    BY <2>2, OurObject DEF Standing
  <2>4. CASE u = v
    BY <2>1, <2>4 DEF RunInv, LoopInv, With
  <2>5. CASE u # v
    <3>1. vm'[have[v]] = vm[have[v]]
      BY <1>1, <1>5, <2>3, <2>5, Apart, RetireChange, ChangeKeeps
    <3>2. QED BY <3>1
  <2>6. QED BY <2>4, <2>5
<1>6. CASE Destroy
  <2>1. Standing(cur) /\ cur # v
    BY <1>6, CurStands DEF Destroy
  <2>2. QED BY <1>1, <1>6, <2>1, Apart, DestroyKeeps
<1>7. ASSUME NEW p \in Paths, UserStart(p) \/ UserStop(p)
      PROVE  ItemsKept(v) /\ DisksKept(v)
  <2>1. CASE p # have[v]
    <3>1. vm'[have[v]] = vm[have[v]]
      BY <1>1, <1>7, <2>1, UserChange, ChangeKeeps
    <3>2. QED BY <3>1
  <2>2. CASE p = have[v]
    <3>1. PICK value : vm' = [vm EXCEPT ![p] = [vm[p] EXCEPT !.up = value]]
      BY <1>7 DEF UserStart, UserStop
    <3>2. vm'[p] = [vm[p] EXCEPT !.up = value]
      BY <1>1, <2>2, <3>1 DEF RunInv, TypeOK
    <3>3. QED BY <1>1, <2>2, <3>2, FieldsKept
  <2>3. QED BY <2>1, <2>2
<1>8. \/ vm' = vm \/ CurWrites \/ Destroy \/ UserStep
      \/ \E u \in VMs : Configure(u) \/ Retire(u)
  <2>1. ~(\E u \in VMs : Label(u) \/ \E p \in Paths : Create(u, p))
    BY DEF Label, Create, Arranging, PassOver, DiskSteps
  <2>2. QED
    BY <2>1 DEF Next, ClientStep, RunStep, VmStep, CurWrites, StartRun, EndDisks, EndEnsure,
                SkipRunning, BeginDiskConfig, UseDisk, MakeSnapshot, PlaceKey, EndArrange,
                EndRetire, EndRun, Raise, Abort, CutShort, ServerStep, Publish, vars, machine,
                DiskStep, Drop, Fetch, Check
<1>9. QED BY <1>2, <1>3, <1>4, <1>5, <1>6, <1>7, <1>8 DEF UserStep

-----------------------------------------------------------------------------
(* Items of the configuration.                                             *)

\* A pass gets over a VM in three ways.
Leaves == NoDataYet \/ SkipRunning \/ EndDiskConfig

LEMMA OverGrows ==
  ASSUME RunInv, [Next]_vars, ~EndEnsure, Arranging \/ PassOver, want' = want, NEW v \in Over'
  PROVE  v \in With("wanted") /\ (v \in Over \/ (v = cur /\ Leaves))
<1> USE DEF Over, Arranging, PassOver, DiskSteps, With, Leaves
<1>1. v \in With("wanted")
  OBVIOUS
<1>2. CASE Leaves
  BY <1>1, <1>2 DEF NoDataYet, SkipRunning, EndDiskConfig, Visited
<1>3. CASE Interrupted \/ EndDisks
  BY <1>3 DEF Interrupted, StartRun, Raise, Abort, CutShort, EndRun, EndDisks
<1>4. CASE \/ BeginDiskConfig \/ UseDisk \/ MakeSnapshot \/ PlaceKey \/ AddDisk \/ Attach
           \/ \E deleted \in BOOLEAN : DestroyExcess(deleted)
           \/ \E u \in VMs : Configure(u)
  BY <1>1, <1>4 DEF BeginDiskConfig, UseDisk, Attaching, MakeSnapshot, PlaceKey, AddDisk, Attach,
                    DestroyExcess, Configure, loop
<1>5. CASE EndArrange
  BY <1>1, <1>5 DEF EndArrange
<1>6. CASE \/ EndRetire \/ Destroy
           \/ \E u \in VMs : Label(u) \/ Retire(u) \/ Check(u) \/ \E p \in Paths : Create(u, p)
  BY <1>1, <1>6 DEF EndRetire, Destroy, Label, Retire, Check, Create
<1>7. CASE \/ UserStep \/ ServerStep \/ UNCHANGED vars
           \/ \E d \in Disks : DiskStep(d)
  BY <1>1, <1>7, OthersKeepLoops DEF LoopsKept
<1>8. QED BY <1>2, <1>3, <1>4, <1>5, <1>6, <1>7
          DEF Interrupted, Next, ClientStep, RunStep, VmStep

LEMMA ItemsGrow ==
  ASSUME RunInv, [Next]_vars, ~EndEnsure, Arranging \/ PassOver, want' = want,
         NEW v \in ItemsSet'
  PROVE  v \in With("wanted") /\ (v \in ItemsSet \/ Configure(v))
<1>1. v \in With("wanted")
  BY DEF ItemsSet, Over, With
<1>2. CASE v \in Over'
  <2>1. CASE v \in Over
    BY <1>1, <2>1 DEF ItemsSet
  <2>2. CASE v = cur /\ Leaves
    <3>1. Arranging
      BY <2>2 DEF Leaves, NoDataYet, SkipRunning, EndDiskConfig, Arranging, DiskSteps
    <3>2. QED BY <1>1, <2>2, <3>1 DEF ItemsSet
  <2>3. QED BY <1>2, <2>1, <2>2, OverGrows
<1>3. CASE Arranging' /\ v = cur'
  <2> USE DEF Arranging, PassOver, DiskSteps, ItemsSet
  <2>1. cur' # None
    BY <1>1, <1>3, SyncClientAssumption DEF With, SyncClientAssumption
  <2>2. CASE \E u \in VMs : Configure(u)
    <3>1. PICK u \in VMs : Configure(u)
      BY <2>2
    <3>2. u = v
      BY <1>3, <3>1 DEF Configure
    <3>3. QED BY <1>1, <3>1, <3>2
  <2>3. CASE Interrupted \/ EndDisks \/ EndArrange \/ EndRetire \/ Destroy
    <3>1. pc \in {"off", "disks", "retire", "delete"} \/ pc' = "off" \/ EndArrange
      BY <2>3 DEF Interrupted, StartRun, Raise, Abort, CutShort, EndRun, EndDisks, EndRetire,
                  Destroy
    <3>2. pc' \notin {"arrange"} \cup DiskSteps
      BY <2>3 DEF Interrupted, StartRun, Raise, Abort, CutShort, EndRun, EndDisks, EndRetire,
                  Destroy, EndArrange
    <3>3. QED BY <1>3, <3>2
  <2>4. CASE Leaves
    BY <1>3, <2>1, <2>4 DEF Leaves, NoDataYet, SkipRunning, EndDiskConfig, Visited
  <2>5. CASE \/ BeginDiskConfig \/ UseDisk \/ MakeSnapshot \/ PlaceKey \/ AddDisk \/ Attach
             \/ \E deleted \in BOOLEAN : DestroyExcess(deleted)
    BY <1>1, <1>3, <2>5 DEF BeginDiskConfig, UseDisk, Attaching, MakeSnapshot, PlaceKey,
                            AddDisk, Attach, DestroyExcess, loop
  <2>6. CASE \E u \in VMs : Label(u) \/ Retire(u) \/ Check(u) \/ \E p \in Paths : Create(u, p)
    BY <1>3, <2>6 DEF Label, Retire, Check, Create
  <2>7. CASE \/ UserStep \/ ServerStep \/ UNCHANGED vars
             \/ \E d \in Disks : DiskStep(d)
    BY <1>1, <1>3, <2>7, OthersKeepLoops DEF LoopsKept
  <2>8. QED BY <2>2, <2>3, <2>4, <2>5, <2>6, <2>7
            DEF Interrupted, Leaves, Next, ClientStep, RunStep, VmStep
<1>4. QED BY <1>2, <1>3 DEF ItemsSet

LEMMA ItemsStep ==
  ASSUME RunInv, StandingInv, ItemsInv, [Next]_vars
  PROVE  ItemsInv'
<1>1. CASE ~(Arranging' \/ PassOver')
  BY <1>1 DEF ItemsInv, ItemsSet, Over
<1>2. CASE EndEnsure
  <2>1. Over' = {} /\ pc = "ensure" /\ cur' = cur
    BY <1>2 DEF EndEnsure, Over, Arranging, With
  <2>2. cur' = None
    BY <2>1 DEF RunInv, LoopInv
  <2>3. ItemsSet' = {}
    BY <2>1, <2>2, SyncClientAssumption DEF ItemsSet, With, SyncClientAssumption
  <2>4. QED BY <2>3 DEF ItemsInv
<1>3. CASE ~EndEnsure /\ (Arranging \/ PassOver) /\ have' = have /\ want' = want
  <2> SUFFICES ASSUME NEW v \in ItemsSet', HasItem(v)'
               PROVE  vm'[have'[v]].runs = LocalValue(v)'
    BY DEF ItemsInv
  <2>1. v \in With("wanted") /\ (v \in ItemsSet \/ Configure(v))
    BY <1>3, ItemsGrow
  <2>2. HasItem(v) /\ LocalValue(v)' = LocalValue(v)
    BY <1>3 DEF HasItem, LocalValue
  <2>3. v \in VMs /\ have[v] \in AllPaths /\ vm[have[v]] \in Object /\ want[v].sets = {}
    BY <1>3, <2>1, WantedStands
  <2>4. CASE Configure(v)
    <3>1. /\ vm \in [AllPaths -> Object \cup {None}]
          /\ vm' = [vm EXCEPT ![have[v]].runs = LocalValue(v),
                              ![have[v]].realm = @,
                              ![have[v]].ready = @ \/ FALSE]
      BY <2>2, <2>3, <2>4 DEF Configure, SetConfig, RunInv, TypeOK
    <3>2. vm'[have[v]].runs = LocalValue(v)
      BY <2>3, <3>1 DEF Object
    <3>3. QED BY <1>3, <2>2, <3>2
  <2>5. CASE ~Configure(v)
    <3>1. vm'[have[v]].runs = vm[have[v]].runs
      BY <1>3, <2>1, <2>5, WantedKept DEF ItemsKept
    <3>2. vm[have[v]].runs = LocalValue(v)
      BY <2>1, <2>2, <2>5 DEF ItemsInv
    <3>3. QED BY <1>3, <2>2, <3>1, <3>2
  <2>6. QED BY <2>4, <2>5
<1>4. QED BY <1>1, <1>2, <1>3, PassSteps

-----------------------------------------------------------------------------
(* Snapshots, and the disks of the VM arrange_vm is at.                    *)

\* The wanted disk of a slot.
LEMMA DiskAt ==
  ASSUME RunInv, pc \in DiskSteps, SlotIsWanted
  PROVE  Disk \in Disks /\ Disk \in DisksOf(cur) /\ slot \in 1 .. Len(want[cur].disks)
<1>1. cur \in VMs
  BY DiskCur, CurStands
<1>2. want[cur].disks \in Seq(Disks)
  BY <1>1, WantTypes DEF RunInv
<1>3. Len(want[cur].disks) \in Nat /\ DOMAIN want[cur].disks = 1 .. Len(want[cur].disks)
  BY <1>2, LenProperties
<1>4. slot \in 1 .. Len(want[cur].disks)
  BY <1>3 DEF SlotIsWanted, RunInv, TypeOK, SlotInv
<1>5. QED BY <1>2, <1>3, <1>4, ElementOfSeq DEF Disk, DisksOf

LEMMA SnapsStep ==
  ASSUME RunInv, SnapsInv, DisksInv, [Next]_vars
  PROVE  SnapsInv'
<1> USE DEF SnapsInv, Encrypted
<1>1. CASE snaps' = snaps
  BY <1>1
<1>2. CASE MakeSnapshot
  BY <1>2 DEF MakeSnapshot, RunInv, TypeOK
<1>3. CASE PlaceKey
  <2>1. pc = "key" /\ pc \in DiskSteps
    BY <1>3 DEF PlaceKey, DiskSteps
  <2>2. Encrypted(cur, Disk)
    BY <2>1 DEF DisksInv
  <2>3. QED BY <1>3, <2>2 DEF PlaceKey, RunInv, TypeOK
<1>4. CASE \E d \in Disks : Drop(d)
  BY <1>4 DEF Drop
<1>5. QED BY <1>1, <1>2, <1>3, <1>4, SnapsKept

\* What is done stays done.
LEMMA DoneKept ==
  ASSUME RunInv, DisksInv, [Next]_vars, Arranging \/ PassOver,
         NEW v \in With("wanted"), NEW d \in DisksOf(v), d \in Disks, SnapshotDone(v, d)
  PROVE  SnapshotDone(v, d)'
<1> USE DEF SnapshotDone, Encrypted
<1>1. v \in VMs
  BY DEF With
<1>2. CASE snaps' = snaps
  BY <1>2
<1>3. CASE MakeSnapshot
  <2>1. snaps[cur, Disk] = "none" /\ snaps' = [snaps EXCEPT ![<<cur, Disk>>] = "bare"]
    BY <1>3 DEF MakeSnapshot, Snapshot
  <2>2. QED BY <1>1, <2>1 DEF RunInv, TypeOK
<1>4. CASE PlaceKey
  <2>1. Encrypted(cur, Disk) /\ snaps' = [snaps EXCEPT ![<<cur, Disk>>] = "keyed"]
    BY <1>4 DEF PlaceKey, DisksInv, DiskSteps
  <2>2. QED BY <1>1, <2>1 DEF RunInv, TypeOK
<1>5. ASSUME NEW e \in Disks, Drop(e) PROVE SnapshotDone(v, d)'
  <2>1. d \in ListedDisks
    BY DEF ListedDisks, Listed, With
  <2>2. e # d /\ snaps' = [x \in VMs \X Disks |-> IF x[2] = e THEN "none" ELSE snaps[x]]
    BY <1>5, <2>1 DEF Drop, Unlisted
  <2>3. snaps'[v, d] = snaps[v, d]
    BY <1>1, <2>2
  <2>4. QED BY <2>3
<1>6. QED BY <1>2, <1>3, <1>4, <1>5, SnapsKept

LEMMA AttachedItems ==
  ASSUME NEW ds \in Seq(Slotted), slot \in 1 .. Len(ds), Disk \in Slotted
  PROVE  /\ Attached(ds)[slot] = Disk /\ Len(Attached(ds)) = Len(ds)
         /\ \A i \in 1 .. Len(ds) : i # slot => Attached(ds)[i] = ds[i]
BY ExceptSeq DEF Attached

LEMMA RemovedItems ==
  ASSUME NEW ds \in Seq(Slotted), NEW i \in 1 .. Len(ds)
  PROVE  \A j \in 1 .. i - 1 : RemoveAt(ds, i)[j] = ds[j]
<1> DEFINE a == SubSeq(ds, 1, i - 1)
           b == SubSeq(ds, i + 1, Len(ds))
<1>1. Len(ds) \in Nat /\ \A j \in 1 .. Len(ds) : ds[j] \in Slotted
  BY LenProperties, ElementOfSeq
<1>2. a \in Seq(Slotted) /\ Len(a) = i - 1 /\ \A j \in 1 .. i - 1 : a[j] = ds[j]
  <2>1. /\ 1 \in Int /\ i - 1 \in Int /\ \A j \in 1 .. (i - 1) : ds[j] \in Slotted
    BY <1>1
  <2>2. /\ a \in Seq(Slotted) /\ Len(a) = IF 1 <= i - 1 THEN (i - 1) - 1 + 1 ELSE 0
        /\ \A j \in 1 .. (i - 1) - 1 + 1 : a[j] = ds[1 + j - 1]
    BY <2>1, SubSeqProperties
  <2>3. QED
    <3> HIDE DEF a
    <3>1. QED BY <1>1, <2>2
<1>3. b \in Seq(Slotted)
  <2>1. /\ i + 1 \in Int /\ Len(ds) \in Int
        /\ \A j \in i + 1 .. Len(ds) : ds[j] \in Slotted
    BY <1>1
  <2>2. QED BY <2>1, SubSeqProperties
<1>4. RemoveAt(ds, i) = a \o b
  BY DEF RemoveAt
<1>5. QED
  <2> HIDE DEF a, b
  <2>1. Len(b) \in Nat
    BY <1>3, LenProperties
  <2>2. \A j \in 1 .. Len(a) + Len(b) : (a \o b)[j] = IF j <= Len(a) THEN a[j] ELSE b[j - Len(a)]
    BY <1>2, <1>3, ConcatProperties
  <2>3. QED BY <1>1, <1>2, <1>4, <2>1, <2>2

\* What the types say while arrange_vm goes through the disks.
LEMMA DiskNumbers ==
  ASSUME RunInv, pc \in DiskSteps
  PROVE  /\ cur \in VMs /\ cur \in With("wanted") /\ Standing(cur)
         /\ have[cur] \in AllPaths /\ vm[have[cur]] \in Object
         /\ vm[have[cur]].disks \in Seq(Slotted) /\ Len(vm[have[cur]].disks) \in Nat
         /\ want[cur].disks \in Seq(Disks) /\ Len(want[cur].disks) \in Nat
         /\ slot \in Nat /\ objects \in Nat /\ slot >= 1
<1>1. cur \in With("wanted") /\ Standing(cur)
  BY DiskCur, CurStands DEF DiskSteps
<1>2. QED BY <1>1, CurObject DEF RunInv, SlotInv

\* A new disk object goes behind those there are.
LEMMA AddDiskStep ==
  ASSUME RunInv, DisksInv, AddDisk
  PROVE  DisksInv'
<1> DEFINE o == vm[have[cur]]
           w == Len(want[cur].disks)
           n == Len(o.disks)
           ds == Append(o.disks, None)
<1>1. /\ pc = "add" /\ pc \in DiskSteps /\ pc' = "attach"
      /\ UNCHANGED <<images, snaps, want, cur, have, slot, objects>>
  BY DEF AddDisk, DiskSteps, loop
<1>2. w \in Nat /\ n \in Nat /\ slot \in Nat /\ objects \in Nat
  BY <1>1, DiskNumbers
<1>3. slot <= w /\ n = slot - 1
  <2>1. /\ slot <= w /\ slot > objects
        /\ slot <= w + 1 => n = IF slot <= objects THEN objects ELSE slot - 1
    BY <1>1 DEF RunInv, SlotInv
  <2> HIDE DEF n, w
  <2>2. QED BY <1>2, <2>1
<1>4. /\ \A i \in 1 .. n : ds[i] = o.disks[i]
      /\ vm'[have[cur]].disks = ds
  <2>1. \A i \in 1 .. n : ds[i] = o.disks[i]
    BY <1>1, DiskNumbers, AppendProperties DEF Slotted
  <2>2. vm' = [vm EXCEPT ![have[cur]] = [o EXCEPT !.disks = ds]]
    BY DEF AddDisk
  <2>3. vm \in [AllPaths -> Object \cup {None}] /\ have[cur] \in AllPaths /\ o \in Object
    BY <1>1, DiskNumbers DEF RunInv, TypeOK
  <2> HIDE DEF ds
  <2>4. vm'[have[cur]] = [o EXCEPT !.disks = ds]
    BY <2>2, <2>3
  <2>5. QED BY <2>1, <2>3, <2>4, FieldsKept
<1>5. \A i \in 1 .. w : i < slot => vm'[have[cur]].disks[i] = o.disks[i]
  <2> HIDE DEF ds, n, w
  <2>1. QED BY <1>2, <1>3, <1>4
<1>6. ~(slot > w + 1)
  <2> HIDE DEF w
  <2>1. QED BY <1>2, <1>3
<1>7. /\ DisksOf(cur) \subseteq images /\ SnapshotDone(cur, Disk)
      /\ \A i \in 1 .. w : i < slot =>
           o.disks[i] = want[cur].disks[i] /\ SnapshotDone(cur, want[cur].disks[i])
  BY <1>1 DEF DisksInv
<1>8. QED
  <2> HIDE DEF ds, n
  <2>1. QED BY <1>1, <1>5, <1>6, <1>7 DEF DisksInv, DisksOf, Disk, SnapshotDone, Encrypted

\* The wanted disks are in front, those up to this slot.
LEMMA AttachStep ==
  ASSUME RunInv, FilesInv, DisksInv, Attach
  PROVE  DisksInv'
<1> DEFINE o == vm[have[cur]]
           w == Len(want[cur].disks)
           n == Len(o.disks)
           ds == Attached(o.disks)
<1>1. /\ pc = "attach" /\ pc \in DiskSteps /\ slot <= w
      /\ slot <= w + 1 => n = IF slot <= objects THEN objects ELSE slot
  <2>1. pc = "attach" /\ pc \in DiskSteps
    BY DEF Attach, DiskSteps
  <2>2. QED BY <2>1 DEF RunInv, SlotInv
<1>2. Disk \in Slotted
  BY <1>1, DiskAt DEF SlotIsWanted, Slotted
<1>3. w \in Nat /\ n \in Nat /\ slot \in Nat /\ objects \in Nat /\ slot >= 1
  BY <1>1, DiskNumbers
<1>4. slot \in 1 .. n
  <2> HIDE DEF n, w
  <2>1. QED BY <1>1, <1>3
<1>5. \A i \in 1 .. slot : ds[i] = IF i = slot THEN Disk ELSE o.disks[i]
  <2>1. ds[slot] = Disk /\ \A i \in 1 .. n : i # slot => ds[i] = o.disks[i]
    BY <1>1, <1>2, <1>4, DiskNumbers, AttachedItems
  <2>2. \A i \in 1 .. slot : i \in 1 .. n
    <3> HIDE DEF n
    <3>1. QED BY <1>3, <1>4
  <2> HIDE DEF ds, n
  <2>3. QED BY <2>1, <2>2
<1>6. vm'[have[cur]].disks = ds
  <2>1. vm' = [vm EXCEPT ![have[cur]] = [o EXCEPT !.disks = ds]]
    BY DEF Attach
  <2>2. vm \in [AllPaths -> Object \cup {None}] /\ have[cur] \in AllPaths /\ o \in Object
    BY <1>1, DiskNumbers DEF RunInv, TypeOK
  <2> HIDE DEF ds
  <2>3. vm'[have[cur]] = [o EXCEPT !.disks = ds]
    BY <2>1, <2>2
  <2>4. QED BY <2>2, <2>3, FieldsKept
<1>7. /\ pc' = "look" /\ slot' = slot + 1 /\ UNCHANGED <<images, snaps, want, cur, have>>
  BY DEF Attach
<1>8. SnapshotDone(cur, Disk)
  BY <1>1 DEF DisksInv
<1>9. \A i \in 1 .. w : i < slot' =>
        /\ ds[i] = want[cur].disks[i]
        /\ SnapshotDone(cur, want[cur].disks[i])
  <2> HIDE DEF ds
  <2> SUFFICES ASSUME NEW i \in 1 .. w, i < slot'
               PROVE  /\ ds[i] = want[cur].disks[i]
                      /\ SnapshotDone(cur, want[cur].disks[i])
    OBVIOUS
  <2>1. i \in 1 .. slot
    BY <1>1, <1>7, DiskNumbers
  <2>2. CASE i = slot
    BY <1>5, <1>8, <2>1, <2>2 DEF Disk
  <2>3. CASE i # slot
    <3>1. i < slot
      BY <1>1, <2>1, <2>3, DiskNumbers
    <3>2. o.disks[i] = want[cur].disks[i] /\ SnapshotDone(cur, want[cur].disks[i])
      BY <1>1, <3>1 DEF DisksInv
    <3>3. QED BY <1>5, <2>1, <2>3, <3>2
  <2>4. QED BY <2>2, <2>3
<1>10. DisksOf(cur) \subseteq images
  BY <1>1 DEF DisksInv
<1>11. ~(slot' > w + 1)
  BY <1>1, <1>7, DiskNumbers
<1>12. QED
  <2> HIDE DEF ds
  <2>1. QED BY <1>6, <1>7, <1>9, <1>10, <1>11 DEF DisksInv, DisksOf, SnapshotDone, Encrypted

\* What is deleted is behind the wanted disks.
LEMMA ExcessStep ==
  ASSUME RunInv, FilesInv, DisksInv, NEW deleted \in BOOLEAN, DestroyExcess(deleted)
  PROVE  DisksInv'
<1> DEFINE o == vm[have[cur]]
           w == Len(want[cur].disks)
           n == Len(o.disks)
           i == slot - (objects - n)
           ds == RemoveAt(o.disks, i)
<1>1. /\ pc = "look" /\ pc \in DiskSteps /\ pc' = "look" /\ slot' = slot + 1
      /\ ~(slot <= w) /\ slot <= objects
      /\ UNCHANGED <<images, snaps, want, cur, have, objects>>
  BY DEF DestroyExcess, SlotIsWanted, DiskSteps
<1>2. w \in Nat /\ n \in Nat /\ slot \in Nat /\ objects \in Nat /\ o.disks \in Seq(Slotted)
  BY <1>1, DiskNumbers
<1>3. /\ slot <= w + 1 => n = IF slot <= objects THEN objects ELSE slot - 1
      /\ slot > w + 1 => n <= objects /\ n >= objects - (slot - 1 - w)
  BY <1>1 DEF RunInv, SlotInv, DisksInv
<1>4. i \in w + 1 .. n /\ i \in 1 .. n /\ n >= objects - (slot - 1 - w)
  <2> HIDE DEF n, w
  <2>1. QED BY <1>1, <1>2, <1>3
<1>5. /\ \A j \in 1 .. w : vm'[have[cur]].disks[j] = o.disks[j]
      /\ Len(vm'[have[cur]].disks) \in {n, n - 1}
  <2>1. CASE deleted
    <3>1. vm' = [vm EXCEPT ![have[cur]] = [o EXCEPT !.disks = ds]]
      BY <2>1 DEF DestroyExcess
    <3>2. vm \in [AllPaths -> Object \cup {None}] /\ have[cur] \in AllPaths /\ o \in Object
      BY <1>1, DiskNumbers DEF RunInv, TypeOK
    <3>3. vm'[have[cur]] = [o EXCEPT !.disks = ds]
      <4> HIDE DEF ds
      <4>1. QED BY <3>1, <3>2
    <3>4. vm'[have[cur]].disks = ds
      <4> HIDE DEF ds
      <4>1. QED BY <3>2, <3>3, FieldsKept
    <3>5. Len(ds) = n - 1 /\ \A j \in 1 .. i - 1 : ds[j] = o.disks[j]
      <4> HIDE DEF i
      <4>1. QED BY <1>2, <1>4, RemovedSeq, RemovedItems
    <3>6. \A j \in 1 .. w : j \in 1 .. i - 1
      <4> HIDE DEF i, w, n
      <4>1. QED BY <1>2, <1>4
    <3>7. QED
      <4> HIDE DEF ds, i
      <4>1. QED BY <3>4, <3>5, <3>6
  <2>2. CASE ~deleted
    BY <2>2 DEF DestroyExcess
  <2>3. QED BY <2>1, <2>2
<1>6. Len(vm'[have[cur]].disks) >= objects - (slot' - 1 - w)
  <2> HIDE DEF n, w
  <2>1. QED BY <1>1, <1>2, <1>4, <1>5
<1>7. /\ DisksOf(cur) \subseteq images
      /\ \A j \in 1 .. w : o.disks[j] = want[cur].disks[j] /\ SnapshotDone(cur, want[cur].disks[j])
  <2>1. \A j \in 1 .. w : j < slot
    <3> HIDE DEF w
    <3>1. QED BY <1>1, <1>2
  <2>2. QED BY <1>1, <2>1 DEF DisksInv
<1>8. QED
  <2>1. \A j \in 1 .. w : SnapshotDone(cur, want[cur].disks[j])'
    BY <1>1, <1>7 DEF SnapshotDone, Encrypted
  <2>2. DisksOf(cur)' = DisksOf(cur)
    BY <1>1 DEF DisksOf
  <2>3. \A j \in 1 .. w : vm'[have[cur]].disks[j] = want[cur].disks[j]
    <3> HIDE DEF w
    <3>1. QED BY <1>5, <1>7
  <2>4. QED
    <3> HIDE DEF i, n, ds
    <3>1. QED BY <1>1, <1>6, <1>7, <2>1, <2>2, <2>3 DEF DisksInv, SnapshotDone, Encrypted

\* Until arrange_vm is through.
LEMMA DisksStep ==
  ASSUME RunInv, FilesInv, SnapsInv, StandingInv, DisksInv, [Next]_vars
  PROVE  DisksInv'
<1>1. CASE pc' \notin DiskSteps
  BY <1>1 DEF DisksInv
<1>2. CASE AddDisk \/ Attach \/ \E deleted \in BOOLEAN : DestroyExcess(deleted)
  BY <1>2, AddDiskStep, AttachStep, ExcessStep
<1>3. CASE BeginDiskConfig
  <2>1. /\ cur \in VMs /\ cur # None /\ pc = "arrange" /\ pc' = "look" /\ slot' = 1
        /\ DisksOf(cur) \subseteq bytes
        /\ UNCHANGED <<images, snaps, want, cur, vm, have>>
    BY <1>3 DEF BeginDiskConfig, HasData, RunInv, TypeOK, machine
  <2>2. DisksOf(cur) \subseteq images
    BY <2>1 DEF FilesInv
  <2>3. Len(want[cur].disks) \in Nat
    BY <2>1, WantTypes, LenProperties DEF RunInv
  <2>4. QED BY <2>1, <2>2, <2>3 DEF DisksInv, DisksOf
<1>4. CASE UseDisk \/ MakeSnapshot
  <2>1. /\ pc = "look" /\ pc \in DiskSteps /\ SlotIsWanted /\ vm' = vm
        /\ UNCHANGED <<images, want, cur, have, slot, objects>>
    BY <1>4 DEF UseDisk, Attaching, MakeSnapshot, DiskSteps, machine, loop
  <2>2. /\ Disk \in Disks /\ Disk \in DisksOf(cur) /\ cur \in With("wanted") /\ cur \in VMs
    BY <2>1, DiskAt, DiskNumbers
  <2>3. \A i \in 1 .. Len(want[cur].disks) : i < slot => SnapshotDone(cur, want[cur].disks[i])'
    <3> SUFFICES ASSUME NEW i \in 1 .. Len(want[cur].disks), i < slot
                 PROVE  SnapshotDone(cur, want[cur].disks[i])'
      OBVIOUS
    <3>1. SnapshotDone(cur, want[cur].disks[i])
      BY <2>1 DEF DisksInv
    <3>2. want[cur].disks[i] \in Disks /\ want[cur].disks[i] \in DisksOf(cur)
      BY <2>1, DiskNumbers, LenProperties, ElementOfSeq DEF DisksOf
    <3>3. SnapshotDone(cur, want[cur].disks[i])'
      BY <2>1, <2>2, <3>1, <3>2, DoneKept DEF Arranging, SnapshotDone
    <3>4. QED BY <3>3
  <2>4. pc' = "key" => Encrypted(cur, Disk)
    BY <1>4 DEF UseDisk, Attaching, MakeSnapshot
  <2>5. pc' \in {"add", "attach"} => SnapshotDone(cur, Disk)'
    <3>1. CASE UseDisk
      BY <2>2, <3>1 DEF UseDisk, Attaching, SnapsInv, SnapshotDone, Snapshot, Encrypted, Disk,
                           machine, loop
    <3>2. CASE MakeSnapshot
      <4>1. snaps' = [snaps EXCEPT ![<<cur, Disk>>] = "bare"]
            /\ (pc' # "key" => ~Encrypted(cur, Disk))
        BY <3>2 DEF MakeSnapshot
      <4>2. snaps'[cur, Disk] = "bare"
        BY <2>2, <4>1 DEF RunInv, TypeOK
      <4>3. Disk' = Disk /\ cur' = cur
        BY <2>1 DEF Disk
      <4>4. QED BY <4>1, <4>2, <4>3 DEF SnapshotDone, Encrypted
    <3>3. QED BY <1>4, <3>1, <3>2
  <2>6. Disk' = Disk /\ cur' = cur /\ DisksOf(cur)' = DisksOf(cur)
    BY <2>1 DEF Disk, DisksOf
  <2>7. QED BY <2>1, <2>3, <2>4, <2>5, <2>6 DEF DisksInv, SnapshotDone, Encrypted
<1>5. CASE PlaceKey
  <2>1. /\ pc = "key" /\ pc' \in {"add", "attach"} /\ pc \in DiskSteps /\ vm' = vm
        /\ snaps' = [snaps EXCEPT ![<<cur, Disk>>] = "keyed"]
        /\ UNCHANGED <<images, want, cur, have, slot, objects>>
    BY <1>5 DEF PlaceKey, Attaching, DiskSteps, loop
  <2>2. SlotIsWanted /\ Encrypted(cur, Disk)
    BY <2>1 DEF RunInv, SlotInv, SlotIsWanted, DisksInv
  <2>3. Disk \in Disks /\ Disk \in DisksOf(cur) /\ cur \in With("wanted") /\ cur \in VMs
    BY <2>1, <2>2, DiskAt, DiskNumbers
  <2>4. SnapshotDone(cur, Disk)'
    <3>1. snaps'[cur, Disk] = "keyed" /\ Disk' = Disk
      BY <2>1, <2>3 DEF RunInv, TypeOK, Disk
    <3>2. QED BY <2>1, <2>2, <3>1 DEF SnapshotDone, Encrypted
  <2>5. ASSUME NEW i \in 1 .. Len(want[cur].disks), i < slot
        PROVE  SnapshotDone(cur, want[cur].disks[i])'
    <3>1. SnapshotDone(cur, want[cur].disks[i])
      BY <2>1, <2>5 DEF DisksInv
    <3>2. want[cur].disks[i] \in Disks /\ want[cur].disks[i] \in DisksOf(cur)
      BY <2>1, DiskNumbers, LenProperties, ElementOfSeq DEF DisksOf
    <3>3. QED BY <2>1, <2>3, <3>1, <3>2, DoneKept DEF Arranging, SnapshotDone
  <2>6. Disk' = Disk /\ cur' = cur /\ DisksOf(cur)' = DisksOf(cur)
    BY <2>1 DEF Disk, DisksOf
  <2>7. QED BY <2>1, <2>4, <2>5, <2>6 DEF DisksInv, SnapshotDone, Encrypted
<1>6. CASE pc' \in DiskSteps /\ (UserStep \/ ServerStep \/ UNCHANGED vars)
  <2>1. UNCHANGED <<images, snaps, pc, have, want, cur, slot, objects>> /\ pc \in DiskSteps
    BY <1>6 DEF UserStep, UserStart, UserStop, ServerStep, Publish, vars, machine, run, loop
  <2>2. vm'[have[cur]].disks = vm[have[cur]].disks
    <3>1. CASE vm' = vm
      BY <3>1
    <3>2. ASSUME NEW p \in Paths, UserStart(p) \/ UserStop(p)
          PROVE  vm'[have[cur]].disks = vm[have[cur]].disks
      <4>1. have[cur] \in AllPaths
        BY <2>1, DiskNumbers
      <4>2. QED BY <3>2, <4>1, UserChange, ChangeKeeps
    <3>3. QED BY <1>6, <3>1, <3>2 DEF UserStep, ServerStep, Publish, vars, machine
  <2>3. /\ DisksOf(cur)' = DisksOf(cur) /\ Disk' = Disk
        /\ \A d : SnapshotDone(cur, d)' <=> SnapshotDone(cur, d)
    BY <2>1 DEF DisksOf, Disk, SnapshotDone, Encrypted
  <2>4. /\ DisksOf(cur) \subseteq images
        /\ slot > Len(want[cur].disks) + 1 =>
             Len(vm[have[cur]].disks) >= objects - (slot - 1 - Len(want[cur].disks))
        /\ \A i \in 1 .. Len(want[cur].disks) :
             i < slot => /\ vm[have[cur]].disks[i] = want[cur].disks[i]
                         /\ SnapshotDone(cur, want[cur].disks[i])
        /\ pc = "key" => Encrypted(cur, Disk)
        /\ pc \in {"add", "attach"} => SnapshotDone(cur, Disk)
    BY <2>1 DEF DisksInv
  <2>5. /\ pc \in {"add", "attach"} => SnapshotDone(cur, Disk)'
        /\ pc = "key" => Encrypted(cur, Disk)'
    BY <2>1, <2>3, <2>4 DEF Encrypted, SnapshotDone
  <2>6. QED BY <2>1, <2>2, <2>3, <2>4, <2>5 DEF DisksInv, SnapshotDone, Encrypted
<1>7. pc' \in DiskSteps =>
         \/ BeginDiskConfig \/ UseDisk \/ MakeSnapshot \/ PlaceKey \/ AddDisk \/ Attach
         \/ \E deleted \in BOOLEAN : DestroyExcess(deleted)
         \/ UserStep \/ ServerStep \/ UNCHANGED vars
  <2> SUFFICES ASSUME pc' \in DiskSteps
               PROVE  \/ BeginDiskConfig \/ UseDisk \/ MakeSnapshot \/ PlaceKey \/ AddDisk \/ Attach
                      \/ \E deleted \in BOOLEAN : DestroyExcess(deleted)
                      \/ UserStep \/ ServerStep \/ UNCHANGED vars
    OBVIOUS
  <2>1. ~(\E d \in Disks : DiskStep(d))
    BY DEF DiskStep, Drop, Fetch, run, DiskSteps
  <2>2. ~(\E v \in VMs : VmStep(v))
    BY DEF VmStep, Create, Label, Configure, Retire, Check, DiskSteps
  <2>3. ~StartRun /\ ~EndDisks /\ ~EndEnsure /\ ~EndArrange /\ ~EndRetire /\ ~EndRun
    BY DEF StartRun, EndDisks, EndEnsure, EndArrange, EndRetire, EndRun, DiskSteps
  <2>4. ~NoDataYet /\ ~SkipRunning /\ ~EndDiskConfig /\ ~Destroy /\ ~Raise /\ ~Abort
    BY DEF NoDataYet, SkipRunning, EndDiskConfig, Destroy, Raise, Abort, CutShort, DiskSteps
  <2>5. QED BY <2>1, <2>2, <2>3, <2>4 DEF Next, ClientStep, RunStep
<1>8. QED BY <1>1, <1>2, <1>3, <1>4, <1>5, <1>6, <1>7

-----------------------------------------------------------------------------
(* What is configured.                                                     *)

LEMMA ConfiguredNext ==
  ASSUME NEW v, have' = have, want' = want, vm'[have[v]].disks = vm[have[v]].disks,
         Configured(v, vm[have[v]]),
         \A i \in DOMAIN want[v].disks :
           want[v].disks[i] \in images' /\ SnapshotDone(v, want[v].disks[i])'
  PROVE  Configured(v, vm[have[v]])'
<1>1. /\ Len(vm'[have'[v]].disks) >= Len(want'[v].disks)
      /\ \A i \in DOMAIN want[v].disks : vm'[have'[v]].disks[i] = want'[v].disks[i]
  BY DEF Configured
<1>2. DOMAIN want'[v].disks = DOMAIN want[v].disks
  OBVIOUS
<1>3. QED BY <1>1, <1>2 DEF Configured, SnapshotDone, Encrypted

LEMMA ConfiguredKept ==
  ASSUME RunInv, DisksInv, [Next]_vars, Arranging \/ PassOver, have' = have, want' = want,
         NEW v \in With("wanted"), DisksKept(v), Configured(v, vm[have[v]])
  PROVE  Configured(v, vm[have[v]])'
<1>1. v \in VMs /\ DOMAIN want[v].disks = 1 .. Len(want[v].disks)
  BY WantTypes, LenProperties DEF With, RunInv
<1>2. ASSUME NEW i \in DOMAIN want[v].disks
      PROVE  /\ want[v].disks[i] \in images'
             /\ SnapshotDone(v, want[v].disks[i])'
  <2> PICK d : d = want[v].disks[i]
    OBVIOUS
  <2>1. d \in Disks /\ d \in DisksOf(v) /\ d \in ListedDisks
    BY <1>1, <1>2, WantTypes, ElementOfSeq
       DEF RunInv, DisksOf, ListedDisks, Listed, With
  <2>2. d \in images /\ SnapshotDone(v, d)
    BY <1>2 DEF Configured, SnapshotDone
  <2>3. SnapshotDone(v, d)'
    BY <2>1, <2>2, DoneKept
  <2>4. d \in images'
    BY <2>1, <2>2, ImagesKept DEF DiskStep, Drop, Fetch, Unlisted
  <2>5. QED BY <2>3, <2>4 DEF SnapshotDone
<1>3. QED BY <1>2, ConfiguredNext DEF DisksKept

\* The VM that EndDiskConfig makes ready.
LEMMA CurConfigured ==
  ASSUME RunInv, DisksInv, EndDiskConfig
  PROVE  Configured(cur, vm[have[cur]])
<1> DEFINE o == vm[have[cur]]
           w == Len(want[cur].disks)
           n == Len(o.disks)
<1>1. pc = "look" /\ pc \in DiskSteps /\ ~(slot <= w) /\ slot > objects
  BY DEF EndDiskConfig, SlotIsWanted, DiskSteps
<1>2. w \in Nat /\ n \in Nat /\ slot \in Nat /\ objects \in Nat
  BY <1>1, DiskNumbers
<1>3. /\ slot <= w + 1 => n = IF slot <= objects THEN objects ELSE slot - 1
      /\ slot > w + 1 => slot <= objects + 1 /\ n >= objects - (slot - 1 - w)
  BY <1>1 DEF RunInv, SlotInv, DisksInv
<1>4. n >= w
  <2> HIDE DEF n, w
  <2>1. QED BY <1>1, <1>2, <1>3
<1>5. \A i \in 1 .. w : i < slot
  <2> HIDE DEF w
  <2>1. QED BY <1>1, <1>2
<1>6. DOMAIN want[cur].disks = 1 .. w
  BY <1>1, DiskNumbers, LenProperties
<1>7. ASSUME NEW i \in 1 .. w
      PROVE  /\ o.disks[i] = want[cur].disks[i]
             /\ SnapshotDone(cur, want[cur].disks[i])
             /\ want[cur].disks[i] \in images
  <2>1. o.disks[i] = want[cur].disks[i] /\ SnapshotDone(cur, want[cur].disks[i])
    BY <1>1, <1>5, <1>7 DEF DisksInv
  <2>2. DisksOf(cur) \subseteq images
    BY <1>1 DEF DisksInv
  <2>3. QED BY <1>6, <2>1, <2>2 DEF DisksOf
<1>8. QED BY <1>4, <1>6, <1>7 DEF Configured, SnapshotDone

LEMMA SkippedGrows ==
  ASSUME [Next]_vars, ~EndEnsure
  PROVE  skipped \subseteq skipped'
BY DEF Next, ClientStep, RunStep, VmStep, DiskStep, UserStep, ServerStep, StartRun, EndDisks,
       NoDataYet, SkipRunning, BeginDiskConfig, UseDisk, MakeSnapshot, PlaceKey, AddDisk, Attach,
       DestroyExcess, EndDiskConfig, EndArrange, EndRetire, Destroy, EndRun, Raise, Abort,
       CutShort, Drop, Fetch, Create, Label, Configure, Retire, Check, UserStart, UserStop,
       Publish, vars, run, loop

LEMMA SecondPass ==
  ASSUME RunInv, [Next]_vars, Arranging \/ PassOver, Arranging' \/ PassOver',
         pass' = 2, pc' # "disks"
  PROVE  pass = 2 /\ pc # "disks"
<1> USE DEF Arranging, PassOver, DiskSteps
<1>1. CASE Interrupted \/ EndDisks
  BY <1>1 DEF Interrupted, StartRun, Raise, Abort, CutShort, EndRun, EndDisks
<1>2. CASE \/ EndEnsure \/ NoDataYet \/ SkipRunning \/ BeginDiskConfig \/ UseDisk
           \/ MakeSnapshot \/ PlaceKey \/ EndArrange \/ EndRetire \/ Destroy \/ AddDisk \/ Attach
           \/ EndDiskConfig \/ \E deleted \in BOOLEAN : DestroyExcess(deleted)
           \/ \E v \in VMs : VmStep(v)
  BY <1>2 DEF EndEnsure, NoDataYet, SkipRunning, BeginDiskConfig, UseDisk, Attaching, MakeSnapshot,
              PlaceKey, EndArrange, EndRetire, Destroy, AddDisk, Attach, EndDiskConfig,
              DestroyExcess, VmStep, Create, Label, Configure, Retire, Check
<1>3. CASE \/ UserStep \/ ServerStep \/ UNCHANGED vars
           \/ \E d \in Disks : DiskStep(d)
  BY <1>3, OthersKeepLoops DEF LoopsKept
<1>4. QED BY <1>1, <1>2, <1>3 DEF Interrupted, Next, ClientStep, RunStep

LEMMA ReadyStep ==
  ASSUME RunInv, FilesInv, StandingInv, DisksInv, ReadyInv, [Next]_vars
  PROVE  ReadyInv'
<1>1. CASE ~(Arranging' \/ PassOver')
  BY <1>1 DEF ReadyInv, Over
<1>2. CASE EndEnsure
  BY <1>2 DEF EndEnsure, ReadyInv, Over, Arranging, With
<1>3. CASE /\ ~EndEnsure /\ (Arranging' \/ PassOver') /\ (Arranging \/ PassOver)
           /\ have' = have /\ want' = want
  <2> SUFFICES ASSUME NEW v \in Over' \ skipped'
               PROVE  /\ vm'[have[v]].ready => Configured(v, vm[have[v]])'
                      /\ pass' = 2 /\ pc' # "disks" => vm'[have[v]].ready
    BY <1>3 DEF ReadyInv
  <2>1. v \in With("wanted") /\ (v \in Over \/ (v = cur /\ Leaves))
    BY <1>3, OverGrows
  <2>2. v \in VMs /\ have[v] \in AllPaths /\ vm[have[v]] \in Object
    BY <1>3, <2>1, WantedStands
  <2>3. pass' = 2 /\ pc' # "disks" => pass = 2 /\ pc # "disks"
    BY <1>3, SecondPass
  <2>4. CASE v \in Over
    <3>1. v \notin skipped
      BY <1>3, SkippedGrows
    <3>2. ~(Arranging /\ v = cur)
      BY <2>2, <2>4, SyncClientAssumption
         DEF Over, Arranging, RunInv, LoopInv, SyncClientAssumption
    <3>3. DisksKept(v)
      BY <1>3, <2>1, <3>2, WantedKept
    <3>4. /\ vm[have[v]].ready => Configured(v, vm[have[v]])
          /\ pass = 2 /\ pc # "disks" => vm[have[v]].ready
      BY <2>4, <3>1 DEF ReadyInv
    <3>5. vm'[have[v]].ready => Configured(v, vm[have[v]])'
      BY <1>3, <2>1, <3>3, <3>4, ConfiguredKept DEF DisksKept
    <3>6. QED BY <2>3, <3>3, <3>4, <3>5 DEF DisksKept
  <2>5. CASE v = cur /\ NoDataYet
    <3>1. vm' = [vm EXCEPT ![have[v]].ready = FALSE] /\ pc = "arrange" /\ ~(DisksOf(v) \subseteq bytes)
      BY <2>5 DEF NoDataYet, SetReady, HasData
    <3>2. ~vm'[have[v]].ready
      BY <2>2, <3>1 DEF RunInv, TypeOK, Object
    <3>3. pass # 2
      BY <2>1, <3>1 DEF FilesInv, ListedDisks, Listed, With
    <3>4. QED BY <2>3, <3>2, <3>3
  <2>6. CASE v = cur /\ SkipRunning
    BY <2>6 DEF SkipRunning
  <2>7. CASE v = cur /\ EndDiskConfig
    <3>1. Configured(v, vm[have[v]])
      BY <2>7, CurConfigured
    <3>2. vm' = [vm EXCEPT ![have[v]] = [vm[have[v]] EXCEPT !.ready = TRUE]]
          /\ UNCHANGED <<images, snaps>>
      BY <2>7 DEF EndDiskConfig, SetReady
    <3>3. vm'[have[v]] = [vm[have[v]] EXCEPT !.ready = TRUE]
      BY <2>2, <3>2 DEF RunInv, TypeOK
    <3>4. vm'[have[v]].ready = TRUE /\ vm'[have[v]].disks = vm[have[v]].disks
      BY <2>2, <3>3, FieldsKept
    <3>5. \A i \in DOMAIN want[v].disks :
            want[v].disks[i] \in images' /\ SnapshotDone(v, want[v].disks[i])'
      BY <1>3, <3>1, <3>2 DEF Configured, SnapshotDone, Encrypted
    <3>6. Configured(v, vm[have[v]])'
      BY <1>3, <3>1, <3>4, <3>5, ConfiguredNext
    <3>7. QED BY <3>4, <3>6
  <2>8. QED BY <2>1, <2>4, <2>5, <2>6, <2>7 DEF Leaves
<1>4. QED BY <1>1, <1>2, <1>3, PassSteps

-----------------------------------------------------------------------------
(***************************************************************************)
(* PassInv is what every step keeps of the progress of a pass.             *)
(***************************************************************************)
THEOREM PassInvariant == Spec => []PassInv
<1>1. Init => PassInv
  BY DEF Init, PassInv, FilesInv, SnapsInv, StandingInv, ItemsInv, ItemsSet, ReadyInv,
         DisksInv, Over, Arranging, PassOver, DiskSteps
<1>2. RunInv /\ PassInv /\ [Next]_vars => PassInv'
  BY FilesStep, SnapsStep, StandingStep, ItemsStep, ReadyStep, DisksStep DEF PassInv
<1>3. QED BY <1>1, <1>2, RunInvariant, PTL DEF Spec

(***************************************************************************)
(* However users start VMs and runs before were cut short, arrange_vm made *)
(* a VM ready only with its wanted disks in front, their images there and  *)
(* their snapshots as configured, and at the end of work_toward_state all  *)
(* wanted VMs that were not running are ready.                             *)
(***************************************************************************)
THEOREM ReadyIsConfigured == Spec => []ReadyMeansConfigured
<1>1. PassInv /\ RunInv => ReadyMeansConfigured
  <2> SUFFICES ASSUME PassInv, RunInv, PassOver, NEW v \in With("wanted") \ skipped
               PROVE  /\ vm[have[v]].ready => Configured(v, vm[have[v]])
                      /\ pc # "disks" => vm[have[v]].ready
    BY DEF ReadyMeansConfigured
  <2>1. v \in Over \ skipped
    BY DEF Over, PassOver, Arranging, DiskSteps
  <2>2. pc # "disks" => pass = 2
    BY DEF PassOver, PassInv, FilesInv
  <2>3. QED BY <2>1, <2>2 DEF PassInv, ReadyInv
<1>2. QED BY <1>1, PassInvariant, RunInvariant, PTL

(***************************************************************************)
(* After a pass every run-* property that the platform synchronizer sets   *)
(* names the object that ensure_vm_exists found or made for its VM.        *)
(***************************************************************************)
THEOREM RunPropertiesHold == Spec => []RunPropertiesResolve
<1>1. PassInv => RunPropertiesResolve
  BY DEF PassInv, ItemsInv, ItemsSet, RunPropertiesResolve, Over, PassOver, Arranging, DiskSteps
<1>2. QED BY <1>1, PassInvariant, PTL

-----------------------------------------------------------------------------
(* The end of a run.                                                       *)

\* What the deletions are through with.
GoneInv ==
  pc = "delete" =>
    \A p \in Paths :
      vm[p] # None /\ vm[p].sync \notin todo =>
        /\ want[vm[p].sync].status # "unlisted"
        /\ want[vm[p].sync].status = "removed" => ~vm[p].ready

LEMMA GoneStep ==
  ASSUME RunInv, GoneInv, [Next]_vars
  PROVE  GoneInv'
<1>1. CASE pc' # "delete"
  BY <1>1 DEF GoneInv
<1>2. CASE EndRetire
  <2>1. /\ pc = "retire" /\ todo' = {v \in VMs : have[v] # None}
        /\ UNCHANGED <<want, have, vm>>
    BY <1>2 DEF EndRetire, machine
  <2>2. ASSUME NEW p \in Paths, vm[p] # None PROVE vm[p].sync \in todo'
    <3>1. vm[p].sync \in VMs
      BY <2>2, ObjectTypes DEF RunInv, AllPaths
    <3>2. have[vm[p].sync] # None
      BY <2>1, <2>2, <3>1 DEF RunInv, HaveInv
    <3>3. QED BY <2>1, <3>1, <3>2
  <2>3. QED BY <2>1, <2>2 DEF GoneInv
<1>3. ASSUME NEW v \in VMs, Check(v) PROVE GoneInv'
  <2>1. /\ pc = "delete" /\ v \in todo /\ UNCHANGED <<want, have, vm>>
        /\ todo' = todo \/ (todo' = todo \ {v} /\ ~Unwanted(v))
    BY <1>3 DEF Check, Visited, machine
  <2>2. have[v] \in Paths /\ vm[have[v]] # None /\ vm[have[v]].sync = v
    BY <2>1, OurObject DEF RunInv, LoopInv
  <2>3. ASSUME NEW p \in Paths, vm[p] # None, vm[p].sync \notin todo'
        PROVE  /\ want[vm[p].sync].status # "unlisted"
               /\ want[vm[p].sync].status = "removed" => ~vm[p].ready
    <3>1. CASE vm[p].sync \notin todo
      BY <2>1, <2>3, <3>1 DEF GoneInv
    <3>2. CASE vm[p].sync \in todo
      <4>1. vm[p].sync = v /\ ~Unwanted(v)
        BY <2>1, <2>3, <3>2
      <4>2. p = have[v]
        BY <2>2, <2>3, <4>1 DEF RunInv, OnePerSync
      <4>3. want[v].status = "removed" => ~vm[have[v]].ready
        BY <2>1 DEF RunInv, RetireInv, With
      <4>4. QED BY <4>1, <4>2, <4>3 DEF Unwanted
    <3>3. QED BY <3>1, <3>2
  <2>4. QED BY <2>1, <2>3 DEF GoneInv
<1>4. CASE Destroy
  <2>1. pc = "delete" /\ todo' = todo \ {cur} /\ UNCHANGED want
    BY <1>4 DEF Destroy, Visited
  <2>2. /\ have[cur] \in Paths /\ vm[have[cur]] # None /\ vm[have[cur]].sync = cur
        /\ vm'[have[cur]] = None /\ \A q \in AllPaths \ {have[cur]} : vm'[q] = vm[q]
    BY <1>4, DestroyKeeps
  <2>3. ASSUME NEW p \in Paths, vm'[p] # None, vm'[p].sync \notin todo'
        PROVE  vm'[p] = vm[p] /\ vm[p].sync \notin todo
    <3>1. p # have[cur] /\ vm'[p] = vm[p]
      BY <2>2, <2>3 DEF AllPaths
    <3>2. vm[p].sync # cur
      BY <2>2, <2>3, <3>1 DEF RunInv, OnePerSync
    <3>3. QED BY <2>1, <2>3, <3>1, <3>2
  <2>4. QED BY <2>1, <2>3 DEF GoneInv
<1>5. CASE UserStep
  <2>1. PICK p \in Paths : UserStart(p) \/ UserStop(p)
    BY <1>5 DEF UserStep
  <2>2. SameVms /\ \A q \in AllPaths \ {p} : vm'[q] = vm[q]
    BY <2>1, UserChange, ChangeKeeps
  <2>3. vm'[p].ready = vm[p].ready
    BY <2>1, UserChange
  <2>4. UNCHANGED <<pc, want, todo>>
    BY <1>5, OthersKeepLoops DEF LoopsKept
  <2>5. \A q \in Paths : vm'[q] # None =>
          vm[q] # None /\ vm'[q].sync = vm[q].sync /\ vm'[q].ready = vm[q].ready
    BY <2>2, <2>3 DEF SameVms, AllPaths
  <2>6. QED BY <2>4, <2>5 DEF GoneInv
<1>6. CASE ServerStep \/ UNCHANGED vars
  <2>1. UNCHANGED <<vm, pc, want, todo>>
    BY <1>6 DEF ServerStep, Publish, vars, machine, run, loop
  <2>2. QED BY <2>1 DEF GoneInv
<1>7. pc' = "delete" =>
        \/ EndRetire \/ Destroy \/ UserStep \/ ServerStep \/ UNCHANGED vars
        \/ \E v \in VMs : Check(v)
  <2> SUFFICES ASSUME pc' = "delete"
               PROVE  \/ EndRetire \/ Destroy \/ UserStep \/ ServerStep \/ UNCHANGED vars
                      \/ \E v \in VMs : Check(v)
    OBVIOUS
  <2>1. ~(\E d \in Disks : DiskStep(d))
    BY DEF DiskStep, Drop, Fetch, run
  <2>2. ~(\E v \in VMs : (\E p \in Paths : Create(v, p)) \/ Label(v) \/ Configure(v) \/ Retire(v))
    BY DEF Create, Label, Configure, Retire
  <2>3. ~StartRun /\ ~EndDisks /\ ~EndEnsure /\ ~EndRun /\ ~EndArrange
    BY DEF StartRun, EndDisks, EndEnsure, EndRun, EndArrange
  <2>4. ~NoDataYet /\ ~SkipRunning /\ ~EndDiskConfig /\ ~Raise /\ ~Abort
    BY DEF NoDataYet, SkipRunning, EndDiskConfig, Raise, Abort, CutShort
  <2>5. ~BeginDiskConfig /\ ~UseDisk /\ ~MakeSnapshot /\ ~PlaceKey /\ ~AddDisk /\ ~Attach
        /\ ~(\E deleted \in BOOLEAN : DestroyExcess(deleted))
    BY DEF BeginDiskConfig, UseDisk, Attaching, MakeSnapshot, PlaceKey, AddDisk, Attach,
           DestroyExcess
  <2>6. QED BY <2>1, <2>2, <2>3, <2>4, <2>5 DEF Next, ClientStep, RunStep, VmStep
<1>8. QED BY <1>1, <1>2, <1>3, <1>4, <1>5, <1>6, <1>7

LEMMA GoneInvariant == Spec => []GoneInv
<1>1. Init => GoneInv
  BY DEF Init, GoneInv
<1>2. QED BY <1>1, GoneStep, RunInvariant, PTL DEF Spec

(***************************************************************************)
(* work_toward_state returns, and main reports STATUS_OKAY, only with the  *)
(* machine as the target state of the run has it.                          *)
(***************************************************************************)
THEOREM OkayIsTrue == Spec => OkayMeansReached
<1>1. RunInv /\ PassInv /\ GoneInv /\ EndRun => Reached
  <2> SUFFICES ASSUME RunInv, PassInv, GoneInv, EndRun PROVE Reached
    OBVIOUS
  <2>1. pc = "delete" /\ pass = 2 /\ todo = {}
    BY DEF EndRun, PassInv, FilesInv
  <2>2. images = ListedDisks
    BY <2>1 DEF PassInv, FilesInv
  <2>3. \A p \in Paths : vm[p] # None =>
          /\ want[vm[p].sync].status # "unlisted"
          /\ want[vm[p].sync].status = "removed" => ~vm[p].ready
    BY <2>1 DEF GoneInv
  <2>4. ASSUME NEW v \in With("wanted")
        PROVE  have[v] # None /\ (v \in skipped \/ vm[have[v]].ready)
    <3>1. v \in Over
      BY <2>1, <2>4 DEF Over, PassOver, Arranging, DiskSteps
    <3>2. have[v] \in Paths
      BY <3>1 DEF PassInv, StandingInv, Standing
    <3>3. v \notin skipped => vm[have[v]].ready
      BY <2>1, <3>1 DEF PassInv, ReadyInv
    <3>4. QED BY <3>2, <3>3, SyncClientAssumption DEF SyncClientAssumption
  <2>5. QED BY <2>2, <2>3, <2>4 DEF Reached
<1>2. RunInv /\ PassInv /\ GoneInv /\ [Next]_vars => [EndRun => Reached]_vars
  BY <1>1
<1>3. QED BY <1>2, RunInvariant, PassInvariant, GoneInvariant, PTL DEF Spec, OkayMeansReached
=============================================================================
