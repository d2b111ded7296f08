------------------------ MODULE SyncClientRankProofs ------------------------
(***************************************************************************)
(* Proofs that a run of SyncClient advances, for finitely many virtual     *)
(* machines and disks, on top of RunInv.  What a run has still to do is    *)
(* counted by the rank of SyncClient, four natural numbers, of which the   *)
(* first that changes falls.                                               *)
(***************************************************************************)
EXTENDS SyncClientProofs, FiniteSets, FiniteSetTheorems

FiniteInstance == IsFiniteSet(VMs) /\ IsFiniteSet(Disks)

-----------------------------------------------------------------------------
(* What falls at each step, by the loop it belongs to.                     *)

\* What was dealt with is not counted again.
LEMMA OneLess ==
  ASSUME NEW S, IsFiniteSet(S), NEW x \in S, NEW T, T = S \ {x}
  PROVE  Cardinality(T) < Cardinality(S)
<1>1. Cardinality(T) = Cardinality(S) - 1
  BY FS_RemoveElement
<1>2. Cardinality(S) \in Nat
  BY FS_CardinalityType
<1>3. QED BY <1>1, <1>2

\* A step within a loop; arrange_vm's disks belong to the loop over the VMs.
LEMMA SameStage ==
  ASSUME pass' = pass,
         pc' = pc \/ (pc \in {"arrange"} \cup DiskSteps /\ pc' \in {"arrange"} \cup DiskSteps)
  PROVE  Stage' = Stage
BY DEF Stage, DiskSteps

\* The next loop began, or the run ended.
LEMMA StageFalls ==
  ASSUME RunInv,
         EndDisks \/ EndEnsure \/ EndArrange \/ EndRetire \/ EndRun \/ Raise \/ Abort
  PROVE  Stage' < Stage
<1> USE DEF Stage
<1>1. pass \in {1, 2}
  BY DEF RunInv, TypeOK
<1>2. pc \in {"off", "disks", "ensure", "arrange", "retire", "delete"} \cup DiskSteps
  BY DEF RunInv, TypeOK
<1>3. CASE Raise \/ Abort
  BY <1>1, <1>2, <1>3 DEF Raise, Abort, CutShort, DiskSteps
<1>4. CASE EndDisks \/ EndEnsure
  BY <1>1, <1>4 DEF EndDisks, EndEnsure
<1>5. CASE EndArrange \/ EndRetire \/ EndRun
  BY <1>1, <1>5 DEF EndArrange, EndRetire, EndRun
<1>6. QED BY <1>3, <1>4, <1>5

\* Deleting or fetching one disk opens no other.
LEMMA DisksFall ==
  ASSUME FiniteInstance, NEW d \in Disks, DiskStep(d)
  PROVE  Stage' = Stage /\ Items' < Items
<1>1. /\ pc = "disks" /\ pc' = pc /\ pass' = pass /\ want' = want
      /\ d \in OpenDisks
  BY DEF DiskStep, Drop, Fetch, run, OpenDisks
<1>2. ListedDisks' = ListedDisks
  BY <1>1 DEF ListedDisks, Listed, With, DisksOf
<1>3. \A e \in Disks \ {d} : (e \in OpenDisks)' <=> e \in OpenDisks
  BY <1>1, <1>2 DEF DiskStep, Drop, Fetch, OpenDisks, Unlisted
<1>4. ~(d \in OpenDisks)'
  BY <1>1, <1>2 DEF DiskStep, Drop, Fetch, OpenDisks, Unlisted
<1>5. OpenDisks' = OpenDisks \ {d}
  BY <1>3, <1>4 DEF OpenDisks
<1>6. IsFiniteSet(OpenDisks)
  BY FS_Subset DEF FiniteInstance, OpenDisks
<1>7. Cardinality(OpenDisks') < Cardinality(OpenDisks)
  BY <1>1, <1>5, <1>6, OneLess
<1>8. Stage' = Stage
  BY <1>1, SameStage
<1>9. QED BY <1>1, <1>7, <1>8 DEF Items

\* A VM was visited.
LEMMA VisitsFall ==
  ASSUME FiniteInstance, RunInv, NEW v \in todo, todo' = todo \ {v}, pass' = pass,
         pc # "disks",
         pc' = pc \/ (pc \in {"arrange"} \cup DiskSteps /\ pc' \in {"arrange"} \cup DiskSteps)
  PROVE  Stage' = Stage /\ Items' < Items
<1>1. Stage' = Stage /\ pc' # "disks"
  BY SameStage DEF DiskSteps
<1>2. IsFiniteSet(todo)
  BY FS_Subset DEF FiniteInstance, RunInv, TypeOK
<1>3. Cardinality(todo') < Cardinality(todo)
  BY <1>2, OneLess
<1>4. QED BY <1>1, <1>3 DEF Items

\* A visit to a VM began, or it was given its object.
LEMMA TurnFalls ==
  ASSUME FiniteInstance, RunInv,
         \/ BeginDiskConfig
         \/ \E v \in VMs : Configure(v) \/ (Check(v) /\ Unwanted(v))
         \/ \E v \in VMs, p \in Paths : Create(v, p)
  PROVE  Stage' = Stage /\ Items' = Items /\ Turn' < Turn
<1>1. CASE BeginDiskConfig
  <2>1. /\ pc = "arrange" /\ pc' = "look" /\ pass' = pass /\ todo' = todo
        /\ cur' = cur /\ cur # None
    BY <1>1 DEF BeginDiskConfig
  <2>2. Stage' = Stage
    BY <2>1, SameStage DEF DiskSteps
  <2>3. QED BY <2>1, <2>2 DEF Items, Turn
<1>2. ASSUME NEW v \in VMs, Configure(v) \/ (Check(v) /\ Unwanted(v))
      PROVE  Stage' = Stage /\ Items' = Items /\ Turn' < Turn
  <2>1. /\ pc \in {"arrange", "delete"} /\ pc' = pc /\ pass' = pass /\ todo' = todo
        /\ cur = None /\ cur' # None
    BY <1>2, SyncClientAssumption DEF Configure, Check, SyncClientAssumption
  <2>2. Stage' = Stage
    BY <2>1, SameStage
  <2>3. QED BY <2>1, <2>2 DEF Items, Turn
<1>3. ASSUME NEW v \in VMs, NEW p \in Paths, Create(v, p)
      PROVE  Stage' = Stage /\ Items' = Items /\ Turn' < Turn
  <2>1. /\ pc = "ensure" /\ pc' = pc /\ pass' = pass /\ todo' = todo
        /\ have' = [have EXCEPT ![v] = p] /\ v \in Missing /\ p # None
    BY <1>3, SyncClientAssumption DEF Create, Missing, loop, SyncClientAssumption
  <2>2. Missing' = Missing \ {v}
    BY <2>1 DEF Missing, RunInv, TypeOK
  <2>3. IsFiniteSet(Missing)
    BY FS_Subset DEF FiniteInstance, RunInv, TypeOK, Missing
  <2>4. Cardinality(Missing') < Cardinality(Missing)
    BY <2>1, <2>2, <2>3, OneLess
  <2>5. Stage' = Stage
    BY <2>1, SameStage
  <2>6. QED BY <2>1, <2>4, <2>5 DEF Items, Turn
<1>4. QED BY <1>1, <1>2, <1>3

\* arrange_vm goes on to the next disk, or with this one.
LEMMA SlotsFall ==
  ASSUME RunInv,
         \/ UseDisk \/ MakeSnapshot \/ PlaceKey \/ AddDisk \/ Attach
         \/ \E deleted \in BOOLEAN : DestroyExcess(deleted)
  PROVE  Stage' = Stage /\ Items' = Items /\ Turn' = Turn /\ Slots' < Slots
<1>1. /\ pc \in DiskSteps /\ pc' \in DiskSteps /\ pass' = pass /\ todo' = todo
      /\ cur' = cur /\ want' = want /\ objects' = objects
  BY DEF UseDisk, Attaching, MakeSnapshot, PlaceKey, AddDisk, Attach, DestroyExcess,
         DiskSteps, loop
<1>2. \/ slot' = slot /\ pc = "look" /\ pc' \in {"key", "add", "attach"}
      \/ slot' = slot /\ pc = "key" /\ pc' \in {"add", "attach"}
      \/ slot' = slot /\ pc = "add" /\ pc' = "attach"
      \/ slot' = slot + 1 /\ pc \in {"look", "attach"} /\ pc' = "look"
  BY DEF UseDisk, Attaching, MakeSnapshot, PlaceKey, AddDisk, Attach, DestroyExcess, loop
<1>3. cur \in VMs
  BY <1>1 DEF RunInv, TypeOK, LoopInv
<1>4. /\ slot \in Nat /\ LastSlot(Len(want[cur].disks), objects) \in Nat
  <2>1. Len(want[cur].disks) \in Nat
    BY <1>3, WantTypes, LenProperties DEF RunInv
  <2>2. QED BY <2>1 DEF LastSlot, RunInv, TypeOK
<1>5. Stage' = Stage /\ Items' = Items /\ Turn' = Turn
  <2>1. Stage' = Stage
    BY <1>1, SameStage
  <2>2. QED BY <1>1, <2>1 DEF Items, Turn, DiskSteps
<1>6. Slots' < Slots
  <2> DEFINE last == LastSlot(Len(want[cur].disks), objects)
  <2>1. last' = last
    BY <1>1 DEF LastSlot
  <2> HIDE DEF last
  <2>2. /\ Slots  = 4 * (last + 1 - slot)
                      + (CASE pc = "look" -> 3 [] pc = "key" -> 2 [] pc = "add" -> 1 [] OTHER -> 0)
        /\ Slots' = 4 * (last + 1 - slot')
                      + (CASE pc' = "look" -> 3 [] pc' = "key" -> 2 [] pc' = "add" -> 1 [] OTHER -> 0)
    BY <1>1, <2>1 DEF Slots, last
  <2>3. slot \in Int /\ last \in Int
    BY <1>4 DEF last
  <2>4. QED BY <1>2, <2>2, <2>3
<1>7. QED BY <1>5, <1>6

\* Each step of a run.
LEMMA ClientFalls ==
  ASSUME FiniteInstance, RunInv, ClientStep \/ Abort
  PROVE  StartRun \/ Falls
<1>1. CASE StartRun
  BY <1>1
<1>2. CASE EndDisks \/ EndEnsure \/ EndArrange \/ EndRetire \/ EndRun \/ Raise \/ Abort
  BY <1>2, StageFalls DEF Falls
<1>3. CASE \E d \in Disks : DiskStep(d)
  BY <1>3, DisksFall DEF Falls
<1>4. CASE \E v \in VMs : Label(v) \/ Retire(v) \/ (Check(v) /\ ~Unwanted(v))
  <2>1. PICK v \in todo :
          /\ todo' = todo \ {v} /\ pass' = pass /\ pc # "disks" /\ pc' = pc
    BY <1>4 DEF Label, Retire, Check, Visited
  <2>2. QED BY <2>1, VisitsFall DEF Falls
<1>5. CASE NoDataYet \/ SkipRunning \/ EndDiskConfig \/ Destroy
  <2>1. cur \in todo
    BY <1>5 DEF NoDataYet, SkipRunning, EndDiskConfig, Destroy, RunInv, LoopInv, DiskSteps
  <2>2. /\ todo' = todo \ {cur} /\ pass' = pass /\ pc # "disks"
        /\ pc' = pc \/ (pc = "look" /\ pc' = "arrange")
    BY <1>5 DEF NoDataYet, SkipRunning, EndDiskConfig, Destroy, Visited
  <2>3. Stage' = Stage /\ Items' < Items
    BY <2>1, <2>2, VisitsFall DEF DiskSteps
  <2>4. QED BY <2>3 DEF Falls
<1>6. CASE \/ BeginDiskConfig
           \/ \E v \in VMs : Configure(v) \/ (Check(v) /\ Unwanted(v))
           \/ \E v \in VMs, p \in Paths : Create(v, p)
  BY <1>6, TurnFalls DEF Falls
<1>7. CASE \/ UseDisk \/ MakeSnapshot \/ PlaceKey \/ AddDisk \/ Attach
           \/ \E deleted \in BOOLEAN : DestroyExcess(deleted)
  BY <1>7, SlotsFall DEF Falls
<1>8. QED BY <1>1, <1>2, <1>3, <1>4, <1>5, <1>6, <1>7 DEF ClientStep, RunStep, VmStep

\* What users start and stop and the server publishes is no more work for it.
LEMMA OthersKeepRank ==
  ASSUME UserStep \/ ServerStep
  PROVE  UNCHANGED Rank
<1>1. /\ pc' = pc /\ pass' = pass /\ todo' = todo /\ cur' = cur /\ have' = have
      /\ want' = want /\ slot' = slot /\ objects' = objects
      /\ images' = images /\ snaps' = snaps
  BY DEF UserStep, UserStart, UserStop, ServerStep, Publish, run, loop, machine
<1>2. OpenDisks' = OpenDisks
  BY <1>1 DEF OpenDisks, Unlisted, ListedDisks, Listed, With, DisksOf
<1>3. Stage' = Stage /\ Items' = Items
  BY <1>1, <1>2 DEF Stage, Items
<1>4. Turn' = Turn /\ Slots' = Slots
  BY <1>1 DEF Turn, Missing, Slots, LastSlot
<1>5. QED BY <1>3, <1>4 DEF Rank

\* Only Slots needs more than types: SlotInv says where the loop over them ends.
LEMMA RankNatural ==
  ASSUME FiniteInstance, RunInv
  PROVE  Stage \in Nat /\ Items \in Nat /\ Turn \in Nat /\ Slots \in Nat
<1>1. Stage \in Nat
  BY DEF Stage
<1>2. Items \in Nat /\ Turn \in Nat
  <2>1. /\ Cardinality(OpenDisks) \in Nat /\ Cardinality(todo) \in Nat
        /\ Cardinality(Missing) \in Nat
    BY FS_Subset, FS_CardinalityType
       DEF FiniteInstance, RunInv, TypeOK, OpenDisks, Missing
  <2>2. QED BY <2>1 DEF Items, Turn
<1>3. Slots \in Nat
  <2> DEFINE w == Len(want[cur].disks)
             n == Len(vm[have[cur]].disks)
  <2>1. CASE pc \in DiskSteps
    <3>1. /\ w \in Nat /\ slot \in Nat /\ objects \in Nat
      <4>1. cur \in VMs
        BY <2>1 DEF RunInv, TypeOK, LoopInv
      <4>2. QED BY <4>1, WantTypes, LenProperties DEF RunInv, TypeOK
    <3>2. slot <= w + 1 \/ slot <= objects + 1
      BY <2>1, <3>1 DEF RunInv, SlotInv
    <3> HIDE DEF w
    <3>3. LastSlot(w, objects) \in Nat /\ slot <= LastSlot(w, objects) + 1
      BY <3>1, <3>2 DEF LastSlot
    <3> DEFINE last == LastSlot(w, objects)
    <3>4. Slots = 4 * (last + 1 - slot)
                    + (CASE pc = "look" -> 3 [] pc = "key" -> 2 [] pc = "add" -> 1 [] OTHER -> 0)
      BY <2>1 DEF Slots, w
    <3> HIDE DEF last
    <3>5. last \in Nat /\ slot \in Nat /\ slot <= last + 1
      BY <3>1, <3>3 DEF last
    <3>6. QED BY <3>4, <3>5
  <2>2. CASE pc \notin DiskSteps
    BY <2>2 DEF Slots
  <2>3. QED BY <2>1, <2>2
<1>4. QED BY <1>1, <1>2, <1>3

-----------------------------------------------------------------------------
(***************************************************************************)
(* Each step of a run lowers the rank that SyncClient gives it, and nobody *)
(* else's step changes it; and the rank's parts are natural numbers, so    *)
(* that no run goes on for ever.                                           *)
(***************************************************************************)
THEOREM RunsAdvance ==
  ASSUME FiniteInstance
  PROVE  Spec => []RankOK /\ RunAdvances
<1>1. RunInv => RankOK
  BY RankNatural DEF RankOK, Rank
<1>2. RunInv => (ClientStep \/ Abort => StartRun \/ Falls)
  BY ClientFalls
<1>3. UserStep \/ ServerStep => UNCHANGED Rank
  BY OthersKeepRank
<1>4. QED BY <1>1, <1>2, <1>3, RunInvariant, PTL DEF Spec, RunAdvances
=============================================================================
