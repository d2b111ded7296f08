------------------------------ MODULE Handover ------------------------------
(***************************************************************************)
(* The handing over of repositories from sync-client to updatemgr, as its  *)
(* two sides may rely on it: what is put on offer is what the run wants    *)
(* and the only thing on offer, except for what the run passed over; what  *)
(* a run withdraws it does not want and updatemgr has not taken; and       *)
(* nothing but what was offered and taken is installed.                    *)
(***************************************************************************)
CONSTANTS Repos, None

VARIABLES
  wanted,      \* the repository the current run upgrades to, or None
  overlooked,  \* what the current run passed over
  offered,     \* the whole repositories in the handover directory
  taken,       \* those updatemgr has locked
  installed    \* the one that was installed last, None for one from elsewhere

client    == <<wanted, overlooked>>
updatemgr == <<offered, taken, installed>>
vars      == <<client, updatemgr>>

Init ==
  /\ wanted = None /\ overlooked = {}
  /\ offered = {} /\ taken = {} /\ installed = None

\* A run begins, ends or is cut short.
Run(w) ==
  /\ wanted' = w /\ overlooked' = {}
  /\ UNCHANGED updatemgr

Offer(r) ==
  /\ r = wanted
  /\ offered \subseteq overlooked
  /\ offered' = offered \cup {r}
  /\ wanted' = None /\ overlooked' = {}
  /\ UNCHANGED <<taken, installed>>

Withdraw(r) ==
  /\ r \in offered \ taken /\ r # wanted
  /\ offered' = offered \ {r}
  /\ UNCHANGED <<client, taken, installed>>

Take(r) ==
  /\ taken = {} /\ r \in offered
  /\ taken' = {r}
  /\ UNCHANGED <<client, offered, installed>>

\* The run cannot open r, and takes it for gone.
Overlook(r) ==
  /\ overlooked' = overlooked \cup {r}
  /\ UNCHANGED <<wanted, updatemgr>>

\* updatemgr is done with r, or with something that is no repository of ours.
Finish(r) ==
  /\ r \in taken
  /\ offered' = offered \ {r} /\ taken' = taken \ {r}
  /\ installed' \in {installed, r}

FinishOther ==
  /\ installed' \in {installed, None}
  /\ UNCHANGED <<offered, taken>>

\* While updatemgr removes something, the run's listing may miss something else.
Listing == UNCHANGED overlooked \/ \E q \in Repos : overlooked' = overlooked \cup {q}

Client ==
  \/ \E w \in Repos \cup {None} : Run(w)
  \/ \E r \in Repos : Offer(r) \/ Withdraw(r) \/ Overlook(r)

Updatemgr ==
  \/ \E r \in Repos : Take(r)
  \/ /\ FinishOther \/ \E r \in Repos : Finish(r)
     /\ Listing /\ UNCHANGED wanted

Next == Client \/ Updatemgr

Spec == Init /\ [][Next]_vars
=============================================================================
