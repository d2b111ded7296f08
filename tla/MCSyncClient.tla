---------------------------- MODULE MCSyncClient ----------------------------
(* Target states for the instances of SyncClient that TLC checks.          *)
EXTENDS SyncClient, TLC

CONSTANTS v1, v2, d1, d2

\* Every configuration tries to set what it may not.
Sets == {"realm", "ready"}

Wanted(disks, runs) == [status |-> "wanted", disks |-> disks, runs |-> runs, sets |-> Sets]
Removed(disks)      == [status |-> "removed", disks |-> disks, runs |-> None, sets |-> Sets]
NotListed           == [status |-> "unlisted", disks |-> <<>>, runs |-> None, sets |-> {}]

\* Snapshots are encrypted unless told otherwise, or d1's are not.
NoVmOption   == [v \in VMs |-> None]
NoDiskOption == [x \in VMs \X Disks |-> None]
VmClear      == [v \in VMs |-> FALSE]
D2Encrypted  == [x \in VMs \X Disks |-> IF x[2] = d2 THEN TRUE ELSE None]

\* One VM, whose disk list changes, and that is removed or dropped.
OneVmPlans ==
  {v1 :> e : e \in {Wanted(<<d1>>, None), Wanted(<<d2, d1>>, None), Removed(<<d1>>), NotListed}}

\* A second VM comes and goes next to the first; they share a disk, and what
\* v1's configuration names changes.
TwoVmPlans ==
  {v1 :> Wanted(<<d1>>, v2)     @@ v2 :> Wanted(<<d1>>, None),
   v1 :> Wanted(<<d2, d1>>, v1) @@ v2 :> NotListed,
   v1 :> Removed(<<d1>>)        @@ v2 :> Wanted(<<d1>>, "plain")}

\* v2 is listed as removed but not, or no longer, here; v1 comes and goes.
RemovedPlans ==
  {v1 :> e @@ v2 :> Removed(<<d1>>) : e \in {Wanted(<<d1>>, None), NotListed}}
=============================================================================
