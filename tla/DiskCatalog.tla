---------------------------- MODULE DiskCatalog -----------------------------
(***************************************************************************)
(* What arrange_disk_backing_files promises its caller: disk images come   *)
(* and go as wholes, an image is only ever dropped when the target state   *)
(* no longer lists its disk, and a run that gets to the end of its second  *)
(* call has exactly the images the target state lists.                     *)
(***************************************************************************)
CONSTANT Disks

VARIABLES
  listed,   \* the disks of the target state the current run works toward
  have,     \* the disks whose image is in storage, complete
  settled   \* has this run reached "exactly the listed images"?

vars == <<listed, have, settled>>

Init == listed = {} /\ have = {} /\ settled = FALSE

\* A run begins, ends or is cut short: nothing is promised until it settles.
Restart(L) ==
  /\ listed' = L
  /\ settled' = FALSE
  /\ UNCHANGED have

Fetch(d) ==
  /\ ~settled
  /\ d \in listed \ have
  /\ have' = have \cup {d}
  /\ UNCHANGED <<listed, settled>>

Drop(d) ==
  /\ ~settled
  /\ d \in have \ listed
  /\ have' = have \ {d}
  /\ UNCHANGED <<listed, settled>>

Settle ==
  /\ have = listed
  /\ settled' = TRUE
  /\ UNCHANGED <<listed, have>>

Next ==
  \/ \E L \in SUBSET Disks : Restart(L)
  \/ \E d \in Disks : Fetch(d) \/ Drop(d)
  \/ Settle

Spec == Init /\ [][Next]_vars
=============================================================================
