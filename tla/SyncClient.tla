----------------------------- MODULE SyncClient -----------------------------
(***************************************************************************)
(* work_toward_state (sync_client/client.py): a run of sync-client reads   *)
(* the server's target state and, in two passes, makes the machine's       *)
(* virtual machines match it.  The first pass configures what it can with  *)
(* the disks at hand, the second follows the downloads and also removes    *)
(* virtual machines.  Meanwhile users start and stop them, the server      *)
(* publishes other states, and a run may be cut short anywhere.  Disk      *)
(* images appear here only as wholes, as DiskCatalog promises.  Of a VM's  *)
(* configuration the model keeps a run-* property, whose value may name    *)
(* another VM and is mapped between the server's and the local uuids, and  *)
(* the items that would set the realm or the ready flag.                   *)
(***************************************************************************)
EXTENDS Integers, SequencesExt

CONSTANTS
  VMs,        \* vm_instance_uuids the server may list
  Disks,      \* diskuuids
  ReadOnly,   \* disks attached directly, the others through a snapshot
  VmOption,   \* encrypt-snapshots of a VM: TRUE, FALSE or None
  DiskOption, \* encrypt-snapshots of a disk of a VM: TRUE, FALSE or None
  Role,       \* of this synchronizer: "platform" or "realm"
  Plans,      \* the target states: VM -> [status, disks, runs, sets]
  Paths,      \* dbus paths xenmgr can give a new VM
  Foreign,    \* the VM of another synchronizer
  None,
  MaxPublish  \* bound: how often the server publishes another state

\* runs: the VM the run-* property names, "plain" for a value that names none,
\* None if the configuration has no such item.  sets: properties of the VM's
\* object that its configuration would set.
Plan == [VMs -> [status : {"unlisted", "wanted", "removed"}, disks : Seq(Disks),
                 runs : VMs \cup {"plain", None}, sets : SUBSET {"realm", "ready"}]]

ASSUME SyncClientAssumption ==
  /\ ReadOnly \subseteq Disks
  /\ VmOption \in [VMs -> BOOLEAN \cup {None}]
  /\ DiskOption \in [VMs \X Disks -> BOOLEAN \cup {None}]
  /\ Role \in {"platform", "realm"}
  /\ Plans \subseteq Plan /\ Plans # {}
  /\ Foreign \notin Paths
  /\ None \notin VMs \cup Disks \cup Paths \cup {"plain", Foreign} /\ "plain" \notin VMs
  /\ MaxPublish \in Nat

VARIABLES
  plan,      \* the target state the server publishes
  changes,   \* how often it changed
  vm,        \* xenmgr's VM objects: dbus path -> its properties, or None
  images,    \* the disks whose image is in storage
  snaps,     \* snapshot of a disk for a VM: "none", "bare" (no key), "keyed"
  want,      \* the target state this run received
  pc,        \* where the run is
  pass,      \* first or second half of work_toward_state
  have,      \* arrange_vms's map from sync-uuid to dbus path
  bytes,     \* the disks arrange_vms is told to have data for
  todo,      \* VMs the current loop has still to visit
  cur,       \* the VM between two calls of one visit, or None
  slot,      \* disk_index in arrange_vm's loop over the disks
  objects,   \* how many disk objects list_disks returned
  skipped    \* VMs this pass left alone because they were running

machine == <<vm, images, snaps>>
server  == <<plan, changes>>
loop    == <<todo, cur, slot, objects, skipped>>
run     == <<want, pc, pass, have, bytes, loop>>
vars    == <<machine, server, run>>

AllPaths == Paths \cup {Foreign}

\* disks: of each disk object the disk it is configured for, None before that.
Object == [sync : VMs, realm : {"ours", "other", "none"},
           up : BOOLEAN, ready : BOOLEAN, disks : Seq(Disks \cup {None}),
           runs : AllPaths \cup {None}]

ASSUME ObjectAssumption == None \notin Object

DiskSteps == {"look", "key", "add", "attach"}

\* Faulty: the items of every configuration are kept.
CensorNothing(P) == [v \in VMs |-> P[v]]

\* censor_vm_config: what labels a VM or lets it start is not the server's to
\* set, and run-* properties are only the platform synchronizer's.
Censor(P) ==
  [v \in VMs |->
     [P[v] EXCEPT !.sets = @ \ {"realm", "ready"},
                  !.runs = IF Role = "realm" THEN None ELSE @]]

TypeOK ==
  /\ plan \in Plans /\ changes \in 0 .. MaxPublish
  /\ vm \in [AllPaths -> Object \cup {None}]
  /\ images \subseteq Disks
  /\ snaps \in [VMs \X Disks -> {"none", "bare", "keyed"}]
  /\ want \in {Censor(P) : P \in Plans}
  /\ pc \in {"off", "disks", "ensure", "arrange", "retire", "delete"} \cup DiskSteps
  /\ pass \in {1, 2}
  /\ have \in [VMs -> AllPaths \cup {None}]
  /\ bytes \subseteq Disks
  /\ todo \subseteq VMs /\ skipped \subseteq VMs
  /\ cur \in VMs \cup {None}
  /\ slot \in Nat /\ objects \in Nat

NewVm(v, realm) ==
  [sync |-> v, realm |-> realm, up |-> FALSE, ready |-> FALSE, disks |-> <<>>,
   runs |-> None]

Init ==
  /\ plan \in Plans /\ changes = 0
  /\ \E v \in VMs :
       vm = [p \in AllPaths |-> IF p = Foreign THEN NewVm(v, "other") ELSE None]
  /\ images = {}
  /\ snaps = [x \in VMs \X Disks |-> "none"]
  /\ want = Censor(plan) /\ pc = "off" /\ pass = 1
  /\ have = [v \in VMs |-> None]
  /\ bytes = {} /\ todo = {} /\ skipped = {}
  /\ cur = None /\ slot = 1 /\ objects = 0

With(status)  == {v \in VMs : want[v].status = status}
Listed        == With("wanted") \cup With("removed")
DisksOf(v)    == {want[v].disks[i] : i \in DOMAIN want[v].disks}
ListedDisks   == UNION {DisksOf(v) : v \in Listed}

-----------------------------------------------------------------------------
(* The disks: see DiskFiles for the detail.                                *)

StartRun ==
  /\ pc = "off"
  /\ want' = Censor(plan)
  /\ pc' = "disks" /\ pass' = 1
  /\ have' = [v \in VMs |-> None]
  /\ UNCHANGED <<bytes, loop, machine, server>>

Unlisted(d) ==
  d \notin ListedDisks /\ (d \in images \/ \E v \in VMs : snaps[v, d] # "none")

Drop(d) ==
  /\ pc = "disks" /\ Unlisted(d)
  /\ images' = images \ {d}
  /\ snaps' = [x \in VMs \X Disks |-> IF x[2] = d THEN "none" ELSE snaps[x]]
  /\ UNCHANGED <<vm, run, server>>

Fetch(d) ==
  /\ pc = "disks" /\ pass = 2
  /\ \A e \in Disks : ~Unlisted(e)
  /\ d \in ListedDisks \ images
  /\ images' = images \cup {d}
  /\ UNCHANGED <<vm, snaps, run, server>>

\* Faulty: the realm is not compared.
AnyRealmFor(v) == {p \in AllPaths : vm[p] # None /\ vm[p].sync = v}

OursFor(v) == {p \in AllPaths : vm[p] # None /\ vm[p].realm = "ours" /\ vm[p].sync = v}

\* list_vms: of several VMs with the same sync-uuid the dict keeps one.
ListVms ==
  /\ have' \in [VMs -> AllPaths \cup {None}]
  /\ \A v \in VMs :
       IF OursFor(v) = {} THEN have'[v] = None ELSE have'[v] \in OursFor(v)

DisksReady ==
  /\ \A d \in Disks : ~Unlisted(d)
  /\ pass = 2 => ListedDisks \subseteq images

\* VmProgress.finish fails on a listed VM that the first pass did not find.
FinishFails == pass = 2 /\ \E v \in Listed : have[v] = None

EndDisks ==
  /\ pc = "disks" /\ DisksReady /\ ~FinishFails
  /\ bytes' = images \cap ListedDisks
  /\ ListVms
  /\ todo' = With("wanted")
  /\ pc' = "ensure"
  /\ UNCHANGED <<want, pass, cur, slot, objects, skipped, machine, server>>

-----------------------------------------------------------------------------
(* ensure_vm_exists.                                                       *)

\* A uuid no VM has, nor had as long as a property still names it.
Fresh(p) == vm[p] = None /\ \A q \in Paths : vm[q] # None => vm[q].runs # p

\* Faulty: the realm is only set by the property call that follows.
CreateUnlabelled(v, p) ==
  /\ pc = "ensure" /\ v \in todo /\ have[v] = None
  /\ Fresh(p)
  /\ vm' = [vm EXCEPT ![p] = NewVm(v, "none")]
  /\ have' = [have EXCEPT ![v] = p]
  /\ UNCHANGED <<images, snaps, want, pc, pass, bytes, loop, server>>

\* The template xenmgr creates the VM from holds realm and sync-uuid.
Create(v, p) ==
  /\ pc = "ensure" /\ v \in todo /\ have[v] = None
  /\ Fresh(p)
  /\ vm' = [vm EXCEPT ![p] = NewVm(v, "ours")]
  /\ have' = [have EXCEPT ![v] = p]
  /\ UNCHANGED <<images, snaps, want, pc, pass, bytes, loop, server>>

Label(v) ==
  /\ pc = "ensure" /\ v \in todo /\ have[v] # None
  /\ vm' = [vm EXCEPT ![have[v]].realm = "ours", ![have[v]].sync = v]
  /\ todo' = todo \ {v}
  /\ UNCHANGED <<images, snaps, want, pc, pass, have, bytes, cur, slot, objects,
                 skipped, server>>

EndEnsure ==
  /\ pc = "ensure" /\ todo = {}
  /\ todo' = With("wanted") /\ skipped' = {}
  /\ pc' = "arrange"
  /\ UNCHANGED <<want, pass, have, bytes, cur, slot, objects, machine, server>>

-----------------------------------------------------------------------------
(* arrange_vm.                                                             *)

\* Faulty: the flag is unset instead of set to False.
SetReadyOrNone(v, value) ==
  vm' = [vm EXCEPT ![have[v]].ready = IF value THEN TRUE ELSE None]

SetReady(v, value) == vm' = [vm EXCEPT ![have[v]].ready = value]

Visited(v) == todo' = todo \ {v} /\ cur' = None

\* uuid_map: of the VMs to be there, by now all of them are.
Mapped == {have[w] : w \in With("wanted")}

HasItem(v) == want[v].runs # None

\* Reading the current value maps it back; a uuid without a VM to be there
\* makes that fail.  So does, the other way, a target naming no such VM.
ReverseMapFails(v) == HasItem(v) /\ vm[have[v]].runs \notin Mapped \cup {None}
MapFails(v)        == want[v].runs \in VMs \ With("wanted")

LocalValue(v) == IF want[v].runs \in VMs THEN have[want[v].runs] ELSE None

\* Faulty: a property that has a value is left alone.
SetConfigOnce(v) ==
  vm' = IF HasItem(v) /\ vm[have[v]].runs = None
        THEN [vm EXCEPT ![have[v]].runs = LocalValue(v)] ELSE vm

SetConfig(v) ==
  vm' = [vm EXCEPT ![have[v]].runs  = IF HasItem(v) THEN LocalValue(v) ELSE @,
                   ![have[v]].realm = IF "realm" \in want[v].sets THEN "none" ELSE @,
                   ![have[v]].ready = @ \/ "ready" \in want[v].sets]

Configure(v) ==
  /\ pc = "arrange" /\ cur = None /\ v \in todo
  /\ ~ReverseMapFails(v) /\ ~MapFails(v)
  /\ SetConfig(v)
  /\ cur' = v
  /\ UNCHANGED <<images, snaps, want, pc, pass, have, bytes, todo, slot, objects,
                 skipped, server>>

HasData == DisksOf(cur) \subseteq bytes

NoDataYet ==
  /\ pc = "arrange" /\ cur # None
  /\ ~HasData
  /\ SetReady(cur, FALSE)
  /\ Visited(cur)
  /\ UNCHANGED <<images, snaps, want, pc, pass, have, bytes, slot, objects, skipped, server>>

\* Faulty: a VM that runs is put off until the others are done.
PutOffRunning ==
  /\ pc = "arrange" /\ cur # None
  /\ HasData
  /\ vm[have[cur]].up
  /\ cur' = None
  /\ UNCHANGED <<want, pc, pass, have, bytes, todo, slot, objects, skipped, machine, server>>

SkipRunning ==
  /\ pc = "arrange" /\ cur # None
  /\ HasData
  /\ vm[have[cur]].up
  /\ skipped' = skipped \cup {cur}
  /\ Visited(cur)
  /\ UNCHANGED <<want, pc, pass, have, bytes, slot, objects, machine, server>>

BeginDiskConfig ==
  /\ pc = "arrange" /\ cur # None
  /\ HasData
  /\ ~vm[have[cur]].up
  /\ slot' = 1 /\ objects' = Len(vm[have[cur]].disks)
  /\ pc' = "look"
  /\ UNCHANGED <<want, pass, have, bytes, todo, cur, skipped, machine, server>>

Disk == want[cur].disks[slot]
SlotIsWanted == slot <= Len(want[cur].disks)

Snapshot == snaps[cur, Disk]

\* arrange_disk_in_toolstack: a slot without a disk object gets one first.
Attaching == IF slot <= objects THEN "attach" ELSE "add"

\* arrange_snapshot: an existing snapshot's key is verified, whatever it is.
UseDisk ==
  /\ pc = "look" /\ SlotIsWanted
  /\ Disk \in ReadOnly \/ Snapshot = "keyed"
  /\ pc' = Attaching
  /\ UNCHANGED <<want, pass, have, bytes, loop, machine, server>>

VerifyFails ==
  /\ pc = "look" /\ SlotIsWanted
  /\ Disk \notin ReadOnly /\ Snapshot = "bare"

\* are_snapshots_encrypted: the disk's option goes before the VM's.
Encrypted(v, d) ==
  IF DiskOption[v, d] # None THEN DiskOption[v, d] ELSE VmOption[v] # FALSE

MakeSnapshot ==
  /\ pc = "look" /\ SlotIsWanted
  /\ Disk \notin ReadOnly /\ Snapshot = "none"
  /\ Disk \in images
  /\ snaps' = [snaps EXCEPT ![<<cur, Disk>>] = "bare"]
  /\ pc' = IF Encrypted(cur, Disk) THEN "key" ELSE Attaching
  /\ UNCHANGED <<vm, images, want, pass, have, bytes, loop, server>>

PlaceKey ==
  /\ pc = "key"
  /\ snaps' = [snaps EXCEPT ![<<cur, Disk>>] = "keyed"]
  /\ pc' = Attaching
  /\ UNCHANGED <<vm, images, want, pass, have, bytes, loop, server>>

AddDisk ==
  /\ pc = "add"
  /\ vm' = [vm EXCEPT ![have[cur]].disks = Append(@, None)]
  /\ pc' = "attach"
  /\ UNCHANGED <<images, snaps, want, pass, have, bytes, loop, server>>

\* configure_disk_path_and_type on the disk object of this slot.
Attached(disks) == [disks EXCEPT ![slot] = Disk]

Attach ==
  /\ pc = "attach"
  /\ vm' = [vm EXCEPT ![have[cur]].disks = Attached(@)]
  /\ slot' = slot + 1
  /\ pc' = "look"
  /\ UNCHANGED <<images, snaps, want, pass, have, bytes, todo, cur, objects, skipped, server>>

\* destroy_disk swallows the DBusException of a delete that fails; the object
\* in this slot of list_disks has moved up by the deletions before.
DestroyExcess(deleted) ==
  /\ pc = "look" /\ ~SlotIsWanted /\ slot <= objects
  /\ vm' = IF deleted
           THEN [vm EXCEPT ![have[cur]].disks = RemoveAt(@, slot - (objects - Len(@)))]
           ELSE vm
  /\ slot' = slot + 1
  /\ UNCHANGED <<images, snaps, want, pc, pass, have, bytes, todo, cur, objects, skipped, server>>

\* Faulty: zip instead of zip_longest, ready before the last disks are there.
EndDiskConfigZip ==
  /\ pc = "look" /\ (~SlotIsWanted \/ slot > objects)
  /\ SetReady(cur, TRUE)
  /\ Visited(cur)
  /\ pc' = "arrange"
  /\ UNCHANGED <<images, snaps, want, pass, have, bytes, slot, objects, skipped, server>>

EndDiskConfig ==
  /\ pc = "look" /\ ~SlotIsWanted /\ slot > objects
  /\ SetReady(cur, TRUE)
  /\ Visited(cur)
  /\ pc' = "arrange"
  /\ UNCHANGED <<images, snaps, want, pass, have, bytes, slot, objects, skipped, server>>

EndArrange ==
  /\ pc = "arrange" /\ cur = None /\ todo = {}
  /\ IF pass = 1
     THEN pass' = 2 /\ pc' = "disks" /\ UNCHANGED todo
     ELSE /\ pc' = "retire" /\ UNCHANGED pass
          /\ todo' = {v \in With("removed") : have[v] # None}
  /\ UNCHANGED <<want, have, bytes, cur, slot, objects, skipped, machine, server>>

-----------------------------------------------------------------------------
(* The deletions of arrange_vms.                                           *)

\* Faulty: a VM to be removed stays ready.
RetireNot(v) ==
  /\ pc = "retire" /\ v \in todo
  /\ todo' = todo \ {v}
  /\ UNCHANGED <<machine, want, pc, pass, have, bytes, cur, slot, objects, skipped, server>>

Retire(v) ==
  /\ pc = "retire" /\ v \in todo
  /\ SetReady(v, FALSE)
  /\ todo' = todo \ {v}
  /\ UNCHANGED <<images, snaps, want, pc, pass, have, bytes, cur, slot, objects, skipped, server>>

\* Faulty: only VMs of the target state are looked at.
EndRetireListed ==
  /\ pc = "retire" /\ todo = {}
  /\ todo' = {v \in Listed : have[v] # None}
  /\ pc' = "delete"
  /\ UNCHANGED <<want, pass, have, bytes, cur, slot, objects, skipped, machine, server>>

EndRetire ==
  /\ pc = "retire" /\ todo = {}
  /\ todo' = {v \in VMs : have[v] # None}
  /\ pc' = "delete"
  /\ UNCHANGED <<want, pass, have, bytes, cur, slot, objects, skipped, machine, server>>

\* Faulty: only VMs listed as removed are deleted.
RemovedOnly(v) == want[v].status = "removed" /\ ~vm[have[v]].up

\* An unlisted VM goes at once, a removed one when it is not running.
Unwanted(v) ==
  \/ want[v].status = "unlisted"
  \/ want[v].status = "removed" /\ ~vm[have[v]].up

Check(v) ==
  /\ pc = "delete" /\ cur = None /\ v \in todo
  /\ IF Unwanted(v) THEN cur' = v /\ UNCHANGED todo ELSE Visited(v)
  /\ UNCHANGED <<want, pc, pass, have, bytes, slot, objects, skipped, machine, server>>

Destroy ==
  /\ pc = "delete" /\ cur # None
  /\ vm' = [vm EXCEPT ![have[cur]] = None]
  /\ Visited(cur)
  /\ UNCHANGED <<images, snaps, want, pc, pass, have, bytes, slot, objects, skipped, server>>

\* main reports STATUS_OKAY.
EndRun ==
  /\ pc = "delete" /\ cur = None /\ todo = {}
  /\ pc' = "off"
  /\ UNCHANGED <<want, pass, have, bytes, loop, machine, server>>

CutShort ==
  /\ pc # "off"
  /\ pc' = "off" /\ todo' = {} /\ cur' = None
  /\ UNCHANGED <<want, pass, have, bytes, slot, objects, skipped, machine, server>>

\* An exception the code is certain to raise in this state.
Raises ==
  \/ pc = "disks" /\ DisksReady /\ FinishFails
  \/ pc = "arrange" /\ cur = None /\ \E v \in todo : ReverseMapFails(v) \/ MapFails(v)
  \/ VerifyFails

Raise == Raises /\ CutShort

\* SIGTERM or SIGKILL from the daemon, or a call that happens to fail.
Abort == CutShort

-----------------------------------------------------------------------------
(* The users of the machine and the server.                                *)

\* The toolstack starts only VMs that are ready.
UserStart(p) ==
  /\ vm[p] # None /\ vm[p].ready /\ ~vm[p].up
  /\ vm' = [vm EXCEPT ![p].up = TRUE]
  /\ UNCHANGED <<images, snaps, run, server>>

UserStop(p) ==
  /\ vm[p] # None /\ vm[p].up
  /\ vm' = [vm EXCEPT ![p].up = FALSE]
  /\ UNCHANGED <<images, snaps, run, server>>

Publish(P) ==
  /\ changes < MaxPublish /\ P # plan
  /\ plan' = P /\ changes' = changes + 1
  /\ UNCHANGED <<machine, run>>

DiskStep(d) == Drop(d) \/ Fetch(d)

VmStep(v) ==
  \/ \E p \in Paths : Create(v, p)
  \/ Label(v)
  \/ Configure(v)
  \/ Retire(v)
  \/ Check(v)

RunStep ==
  \/ StartRun
  \/ EndDisks
  \/ EndEnsure
  \/ NoDataYet
  \/ SkipRunning
  \/ BeginDiskConfig
  \/ UseDisk
  \/ MakeSnapshot
  \/ PlaceKey
  \/ AddDisk
  \/ Attach
  \/ \E deleted \in BOOLEAN : DestroyExcess(deleted)
  \/ EndDiskConfig
  \/ EndArrange
  \/ EndRetire
  \/ Destroy
  \/ EndRun
  \/ Raise

ClientStep ==
  \/ RunStep
  \/ \E d \in Disks : DiskStep(d)
  \/ \E v \in VMs : VmStep(v)

UserStep == \E p \in Paths : UserStart(p) \/ UserStop(p)

ServerStep == \E P \in Plans : Publish(P)

Next ==
  \/ ClientStep
  \/ UserStep
  \/ ServerStep
  \/ Abort

Spec == Init /\ [][Next]_vars

(***************************************************************************)
(* Runs follow each other, and from some time on no run is cut short from  *)
(* outside; runs that end in an exception of their own making remain.      *)
(***************************************************************************)
Fairness ==
  WF_vars(ClientStep) /\ <>[][ClientStep \/ UserStep \/ ServerStep]_vars

FairSpec == Spec /\ Fairness

-----------------------------------------------------------------------------
(* Properties.                                                             *)

(***************************************************************************)
(* However often runs are cut short, no second VM object is ever created   *)
(* for one VM of the target state.                                         *)
(***************************************************************************)
OnePerSync ==
  \A p, q \in Paths :
    vm[p] # None /\ vm[q] # None /\ vm[p].sync = vm[q].sync => p = q

(***************************************************************************)
(* Another synchronizer's VMs are left alone: a run neither reconfigures   *)
(* nor deletes a VM of another realm.                                      *)
(***************************************************************************)
ForeignUntouched == [][vm'[Foreign] = vm[Foreign]]_vars

(***************************************************************************)
(* Once a pass is over, each wanted VM that it did not find running and    *)
(* that users can start has exactly its wanted disks in front, their       *)
(* images present and every snapshot keyed as configured; after the second *)
(* pass every such VM can be started.                                      *)
(***************************************************************************)
Configured(v, o) ==
  /\ Len(o.disks) >= Len(want[v].disks)
  /\ \A i \in DOMAIN want[v].disks :
       LET d == want[v].disks[i] IN
       /\ o.disks[i] = d
       /\ d \in images
       /\ d \notin ReadOnly => snaps[v, d] = IF Encrypted(v, d) THEN "keyed" ELSE "bare"

PassOver == pc \in {"retire", "delete"} \/ (pc = "disks" /\ pass = 2)

ReadyMeansConfigured ==
  PassOver =>
    \A v \in With("wanted") \ skipped :
      LET o == vm[have[v]] IN
      /\ o.ready => Configured(v, o)
      /\ pc # "disks" => o.ready

(***************************************************************************)
(* Once a pass is over, each wanted VM's run-* property names the VM that  *)
(* stands for the one the server means, also when that was created only in *)
(* the same run or the property named another VM before.                   *)
(***************************************************************************)
RunPropertiesResolve ==
  PassOver =>
    \A v \in With("wanted") :
      HasItem(v) => vm[have[v]].runs = LocalValue(v)

(***************************************************************************)
(* The server is told STATUS_OKAY only when its state is reached: all its  *)
(* disks and no others are there, its wanted VMs can be started or were    *)
(* found running, and what it does not want is gone or, if running when it *)
(* was to be removed, cannot be started again.                             *)
(***************************************************************************)
Reached ==
  /\ images = ListedDisks
  /\ \A p \in Paths :
       vm[p] # None =>
         LET v == vm[p].sync IN
         /\ want[v].status # "unlisted"
         /\ want[v].status = "removed" => ~vm[p].ready
  /\ \A v \in With("wanted") :
       have[v] # None /\ (v \in skipped \/ vm[have[v]].ready)

OkayMeansReached == [][EndRun => Reached]_vars

(***************************************************************************)
(* Users' work is safe: a VM is deleted only when the target state no      *)
(* longer lists it, or lists it as removed and it is not running at that   *)
(* moment, although users start VMs between the check and the deletion.    *)
(***************************************************************************)
Deleted(p) == vm[p] # None /\ vm'[p] = None

GracefulRemoval ==
  [][\A p \in Paths : Deleted(p) =>
       LET v == vm[p].sync IN
       \/ want[v].status = "unlisted"
       \/ want[v].status = "removed" /\ ~vm[p].up]_vars

(***************************************************************************)
(* Unless run after run ends in an exception of its own making, a VM that  *)
(* the server keeps wanting is eventually ready, or never stops running so *)
(* that its disks could be configured, one that it lists as removed        *)
(* eventually goes or never stops running, and one that it no longer lists *)
(* eventually goes, whatever earlier runs left unfinished.                 *)
(***************************************************************************)
ReadyOrUp(v) == \E p \in OursFor(v) : vm[p].ready \/ vm[p].up
GoneOrUp(v)  == \A p \in OursFor(v) : vm[p].up
Gone(v)      == OursFor(v) = {}

Converges ==
  <>[]~Raises =>
    \A v \in VMs :
      /\ <>[](plan[v].status = "wanted") => <>[]ReadyOrUp(v)
      /\ <>[](plan[v].status = "removed") => <>[]GoneOrUp(v)
      /\ <>[](plan[v].status = "unlisted") => <>[]Gone(v)

(***************************************************************************)
(* "Ensure we have a VM set corresponding to vms": a VM that is no longer  *)
(* listed goes, whatever other VMs the target state lists as removed.      *)
(***************************************************************************)
VmSetCorresponds ==
  \A v \in VMs : <>[](plan[v].status = "unlisted") => <>[]Gone(v)

(***************************************************************************)
(* "Make or use snapshot": a snapshot that an earlier run made can be used.*)
(***************************************************************************)
SnapshotIsUsable == ~VerifyFails

(***************************************************************************)
(* Disks that a VM no longer needs go eventually, unless users run it      *)
(* again and again, or xenmgr fails to delete disk objects again and       *)
(* again: destroy_disk leaves such a failure to a later run, which has to  *)
(* find the object among those it then lists.                              *)
(***************************************************************************)
RunAgainAndAgain(v) == []<>\E p \in OursFor(v) : vm[p].up
DisksAsPlanned(v)   == \A p \in OursFor(v) : vm[p].disks = plan[v].disks

ExcessGoes ==
  <>[]~Raises /\ <>[][~DestroyExcess(FALSE)]_vars =>
    \A v \in VMs :
      <>[](plan[v].status = "wanted") => RunAgainAndAgain(v) \/ <>[]DisksAsPlanned(v)

(***************************************************************************)
(* A run cannot go round in circles: whatever users and the server do      *)
(* meanwhile, each of its steps lowers the rank, whose parts are natural   *)
(* numbers and which only the next run raises.  The loops of arrange_vms,  *)
(* arrange_vm's over zip_longest while its list shrinks, and the deletions *)
(* thus visit nothing twice, and what one visit does makes no work for     *)
(* another.                                                                *)
(***************************************************************************)
\* The loops of a run still to come, the current one included.
Stage ==
  CASE pc = "off"    -> 0
    [] pc = "delete" -> 1
    [] pc = "retire" -> 2
    [] OTHER ->
         (IF pass = 1 THEN 3 ELSE 0)
           + (IF pc = "disks" THEN 5 ELSE IF pc = "ensure" THEN 4 ELSE 3)

\* The disks to delete or to fetch, and the VMs to visit.
OpenDisks == {d \in Disks : Unlisted(d) \/ (pass = 2 /\ d \in ListedDisks \ images)}
Items == Cardinality(IF pc = "disks" THEN OpenDisks ELSE todo)

\* Within a visit: the VMs without an object, or how far arrange_vm is.
Missing == {v \in todo : have[v] = None}
Turn ==
  IF pc = "ensure" THEN Cardinality(Missing)
  ELSE IF pc = "delete" THEN (IF cur = None THEN 1 ELSE 0)
  ELSE IF cur = None THEN 2 ELSE IF pc = "arrange" THEN 1 ELSE 0

\* The slots of the disks, each with a look at its snapshot, the key, the disk
\* object and its configuration.
LastSlot(w, n) == IF w >= n THEN w ELSE n
Slots ==
  IF pc \in DiskSteps
    THEN 4 * (LastSlot(Len(want[cur].disks), objects) + 1 - slot)
           + (CASE pc = "look" -> 3 [] pc = "key" -> 2 [] pc = "add" -> 1 [] OTHER -> 0)
    ELSE 0

Rank == <<Stage, Items, Turn, Slots>>

Falls ==
  \/ Stage' < Stage
  \/ Stage' = Stage /\ Items' < Items
  \/ Stage' = Stage /\ Items' = Items /\ Turn' < Turn
  \/ Stage' = Stage /\ Items' = Items /\ Turn' = Turn /\ Slots' < Slots

RankOK == Rank \in Nat \X Nat \X Nat \X Nat

RunAdvances ==
  [][/\ ClientStep \/ Abort => StartRun \/ Falls
     /\ UserStep \/ ServerStep => UNCHANGED Rank]_vars
=============================================================================
