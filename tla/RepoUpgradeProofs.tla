-------------------------- MODULE RepoUpgradeProofs -------------------------
(***************************************************************************)
(* Proofs about RepoUpgrade for any set of repositories.                   *)
(***************************************************************************)
EXTENDS RepoUpgrade, TLAPS

USE RepoUpgradeAssumption DEF RepoUpgradeAssumption

\* The file that is open is one of the listed ones, and locked by the client
\* unless updatemgr removed it before.
OpenInv ==
  /\ pc \in {"opened", "locked"} => cur \in Repos
  /\ pc = "locked" => handover[cur] = "none" \/ lock[cur] = "client"

Sweeping == {"readdir", "sweep", "opened", "locked"}

\* The file the sweep is at.
AtHand(r) == pc \in {"opened", "locked"} /\ cur = r

\* What the sweep has listed is obsolete.
ListInv ==
  pc \in Sweeping => \A r \in Repos : r \in listed \/ AtHand(r) => Obsolete(r)

\* What the sweep has not removed it will still look at, has passed over, or
\* knows is busy.
SweepInv ==
  pc \in Sweeping =>
    \A r \in Repos :
      handover[r] # "none" /\ Obsolete(r) =>
        busy \/ r \in listed \/ r \in overlooked \/ AtHand(r)

\* By the time the target is fetched, repo holds only what the run passed over.
FetchInv ==
  pc \in {"fetch", "offer"} =>
    /\ UpgradeWanted /\ handover[want] = "none"
    /\ busy \/ \A r \in Repos : handover[r] # "none" => r \in overlooked

\* What this run is going to prune it does not want.
PruneInv == pc = "prune" => \A r \in listed : Obsolete(r)

\* Nothing is passed over before the listing.
FreshInv == pc \in {"off", "list", "prune"} => overlooked = {}

UpgradeInv ==
  TypeOK /\ OpenInv /\ ListInv /\ SweepInv /\ FetchInv /\ PruneInv /\ FreshInv

LEMMA UpgradeInit == Init => UpgradeInv
<1> SUFFICES ASSUME Init PROVE UpgradeInv
  OBVIOUS
<1>1. TypeOK
  <2>1. \A r \in Repos : lock[r] = None /\ None # "client"
    BY DEF Init
  <2>2. /\ changes \in 0 .. MaxPublish
        /\ target \in Repos \cup {None} /\ installed \in Repos \cup {None}
        /\ download \in [Repos -> {"none", "partial", "whole"}]
        /\ handover \in [Repos -> {"none", "broken", "whole"}]
    BY DEF Init
  <2>3. lock \in [Repos -> {None, "client", "updatemgr"}]
    BY DEF Init
  <2>4. QED BY <2>1, <2>2, <2>3 DEF Init, TypeOK
<1>2. OpenInv /\ ListInv /\ SweepInv /\ FetchInv /\ PruneInv /\ FreshInv
  BY DEF Init, OpenInv, ListInv, SweepInv, FetchInv, PruneInv, FreshInv, Sweeping
<1>3. QED BY <1>1, <1>2 DEF UpgradeInv

\* The last part of TypeOK: a lock is held on an existing file.
LEMMA LockedExists ==
  ASSUME TypeOK, NEW r \in Repos, lock[r] = "updatemgr"
  PROVE  handover[r] # "none"
<1>1. lock[r] # None
  OBVIOUS
<1>2. lock[r] # None => handover[r] # "none"
  BY DEF TypeOK
<1>3. QED BY <1>1, <1>2

LEMMA UpgradeStep == UpgradeInv /\ [Next]_vars => UpgradeInv'
<1> SUFFICES ASSUME UpgradeInv, [Next]_vars PROVE UpgradeInv'
  OBVIOUS
<1> USE DEF UpgradeInv, TypeOK, OpenInv, ListInv, SweepInv, FetchInv, PruneInv, FreshInv,
            Sweeping, AtHand, EndRun, server, files, args, sweep, run, Obsolete, UpgradeWanted
<1>1. CASE StartRun
  BY <1>1 DEF StartRun
<1>2. ASSUME NEW r \in Repos, Prune(r) PROVE UpgradeInv'
  BY <1>2 DEF Prune
<1>3. CASE ListDownload \/ ListHandover \/ EndListing
  BY <1>3 DEF ListDownload, ListHandover, EndListing, Listdir
<1>4. ASSUME NEW r \in Repos, Open(r) PROVE UpgradeInv'
  <2>1. \A q \in Repos :
          /\ handover[q] # "none" => handover'[q] # "none"
          /\ q # r => handover'[q] = handover[q]
    BY <1>4 DEF Open, Opened
  <2>2. handover' \in [Repos -> {"none", "broken", "whole"}]
    BY <1>4 DEF Open, Opened
  <2>3. TypeOK'
    BY <1>4, <2>1, <2>2 DEF Open
  <2>4. OpenInv' /\ ListInv' /\ FetchInv' /\ PruneInv' /\ FreshInv'
    BY <1>4 DEF Open
  <2>5. SweepInv'
    BY <1>4, <2>1 DEF Open
  <2>6. QED BY <2>3, <2>4, <2>5
<1>5. ASSUME NEW r \in Repos, OpenFails(r) PROVE UpgradeInv'
  BY <1>5 DEF OpenFails
<1>6. CASE FoundLocked
  BY <1>6 DEF FoundLocked
<1>7. CASE GetWriteLock
  BY <1>7 DEF GetWriteLock
<1>8. CASE Unlink
  <2>1. TypeOK' /\ OpenInv' /\ ListInv' /\ FetchInv' /\ PruneInv' /\ FreshInv'
    BY <1>8 DEF Unlink
  <2>2. SweepInv'
    BY <1>8 DEF Unlink
  <2>3. QED BY <2>1, <2>2
<1>9. CASE CutShort
  BY <1>9 DEF CutShort
<1>10. CASE EndSweep
  <2>1. CASE ~HandOverNeeded
    BY <1>10, <2>1 DEF EndSweep
  <2>2. CASE HandOverNeeded
    <3>1. /\ UpgradeWanted /\ handover[want] = "none" /\ pc = "sweep" /\ listed = {}
          /\ pc' \in {"offer", "fetch"}
          /\ UNCHANGED <<args, sweep, server, installed, files, lock>>
      BY <1>10, <2>2 DEF EndSweep, HandOverNeeded
    <3>2. FetchInv'
      BY <3>1
    <3>3. TypeOK' /\ OpenInv' /\ ListInv' /\ SweepInv' /\ PruneInv' /\ FreshInv'
      BY <3>1
    <3>4. QED BY <3>2, <3>3
  <2>3. QED BY <2>1, <2>2
<1>11. CASE Fetch
  BY <1>11 DEF Fetch
<1>12. CASE HandOver
  <2>1. CASE busy
    BY <1>12, <2>1 DEF HandOver
  <2>2. CASE ~busy
    <3>1. /\ want \in Repos
          /\ handover' = [handover EXCEPT ![want] = "whole"]
          /\ download' = [download EXCEPT ![want] = "none"]
      BY <1>12, <2>2 DEF HandOver
    <3>2. TypeOK'
      BY <1>12, <3>1 DEF HandOver
    <3>3. OpenInv' /\ ListInv' /\ SweepInv' /\ FetchInv' /\ PruneInv' /\ FreshInv'
      BY <1>12 DEF HandOver
    <3>4. QED BY <3>2, <3>3
  <2>3. QED BY <2>1, <2>2
<1>13. ASSUME NEW r \in Repos, Take(r) PROVE UpgradeInv'
  BY <1>13 DEF Take
<1>14. ASSUME NEW r \in Repos, Upgrade(r) \/ Reject(r) PROVE UpgradeInv'
  <2>1. /\ lock[r] = "updatemgr"
        /\ handover' = [handover EXCEPT ![r] = "none"]
        /\ lock' = [lock EXCEPT ![r] = None]
        /\ installed' \in {installed, r}
        /\ UNCHANGED <<download, want, current, pc, cur, busy, target, changes>>
    BY <1>14 DEF Upgrade, Reject, Finish
  <2>2. /\ pc # "readdir" => listed' = listed /\ overlooked' = overlooked
        /\ listed' \subseteq listed /\ overlooked \subseteq overlooked'
        /\ overlooked' \subseteq Repos
        /\ \A q \in listed : q \in listed' \/ q \in overlooked' \/ q = r
    BY <1>14 DEF Upgrade, Reject, Finish, Shift
  <2>3. TypeOK' /\ OpenInv'
    BY <2>1, <2>2
  <2>4. ListInv' /\ PruneInv' /\ FreshInv'
    BY <2>1, <2>2
  <2>5. SweepInv' /\ FetchInv'
    BY <2>1, <2>2
  <2>6. QED BY <2>3, <2>4, <2>5
<1>15. ASSUME NEW r \in Repos \cup {None}, Publish(r) PROVE UpgradeInv'
  BY <1>15 DEF Publish
<1>16. CASE UNCHANGED vars
  BY <1>16 DEF vars
<1>17. QED
  BY <1>1, <1>2, <1>3, <1>4, <1>5, <1>6, <1>7, <1>8, <1>9, <1>10, <1>11, <1>12,
     <1>13, <1>14, <1>15, <1>16
  DEF Next, ClientStep, UpdatemgrStep, ServerStep, Failure, UnlinkFails, Abort,
      LockedByUpdatemgr, LockFails

LEMMA UpgradeInvariant == Spec => []UpgradeInv
  BY UpgradeInit, UpgradeStep, PTL DEF Spec

(***************************************************************************)
(* The variables have their types, and only files that exist are locked.   *)
(***************************************************************************)
THEOREM UpgradeTypes == Spec => []TypeOK
<1>1. UpgradeInv => TypeOK
  BY DEF UpgradeInv
<1>2. QED BY <1>1, UpgradeInvariant, PTL

(***************************************************************************)
(* No step but updatemgr's own touches a file updatemgr has locked.        *)
(***************************************************************************)
THEOREM UndisturbedUpgrade == Spec => UpgradeUndisturbed
<1> DEFINE Disturbs(r) ==
      lock[r] = "updatemgr" /\ (handover'[r] # handover[r] \/ lock'[r] # "updatemgr")
<1>1. ASSUME UpgradeInv, [Next]_vars, NEW r \in Repos, Disturbs(r)
      PROVE  UpdatemgrStep
  <2> USE <1>1 DEF UpgradeInv, TypeOK, OpenInv, FetchInv, EndRun, server, files, run
  <2>1. ~(StartRun \/ ListDownload \/ ListHandover \/ EndListing \/ FoundLocked \/ EndSweep \/ Fetch)
    BY DEF StartRun, ListDownload, ListHandover, EndListing, FoundLocked, EndSweep, Fetch
  <2>2. ~CutShort
    BY DEF CutShort
  <2>0. handover[r] # "none"
    BY LockedExists
  <2>3. ASSUME NEW q \in Repos, Prune(q) \/ Open(q) \/ OpenFails(q) PROVE FALSE
    <3>1. CASE Prune(q) \/ OpenFails(q)
      BY <3>1 DEF Prune, OpenFails
    <3>2. CASE Open(q)
      BY <2>0, <3>2 DEF Open, Opened
    <3>3. QED BY <2>3, <3>1, <3>2
  <2>4. ~GetWriteLock
    BY DEF GetWriteLock
  <2>5. ~Unlink
    BY DEF Unlink
  <2>6. ~HandOver
    <3> SUFFICES ASSUME HandOver PROVE FALSE
      OBVIOUS
    <3>1. r # want
      BY <2>0 DEF HandOver
    <3>2. handover'[r] = handover[r] /\ lock' = lock
      BY <3>1 DEF HandOver
    <3>3. QED BY <3>2
  <2>7. ASSUME NEW q \in Repos \cup {None}, Publish(q) PROVE FALSE
    BY <2>7 DEF Publish
  <2>8. ~UNCHANGED vars
    BY DEF vars
  <2>9. QED
    BY <2>1, <2>2, <2>3, <2>4, <2>5, <2>6, <2>7, <2>8
    DEF Next, ClientStep, ServerStep, Failure, UnlinkFails, Abort, LockedByUpdatemgr, LockFails
<1>2. UpgradeInv /\ [Next]_vars =>
        [\A r \in Repos : Disturbs(r) => UpdatemgrStep]_vars
  BY <1>1
<1>3. QED BY <1>2, UpgradeInvariant, PTL DEF Spec, UpgradeUndisturbed

(***************************************************************************)
(* Downloaded data is dropped only by a run that does not want it.         *)
(***************************************************************************)
THEOREM DownloadsAreKept == Spec => DownloadKept
<1> DEFINE Dropped(r) ==
      download[r] # "none" /\ download'[r] = "none" /\ handover'[r] # "whole"
<1>1. ASSUME UpgradeInv, [Next]_vars, NEW r \in Repos, Dropped(r)
      PROVE  r # want \/ current = want
  <2> USE <1>1 DEF UpgradeInv, TypeOK, FetchInv, EndRun, server, files, run
  <2>1. ~(StartRun \/ ListDownload \/ ListHandover \/ EndListing \/ FoundLocked \/ EndSweep)
    BY DEF StartRun, ListDownload, ListHandover, EndListing, FoundLocked, EndSweep
  <2>2. ~(GetWriteLock \/ Unlink \/ CutShort \/ Fetch)
    BY DEF GetWriteLock, Unlink, CutShort, Fetch
  <2>3. ASSUME NEW q \in Repos, Open(q) \/ OpenFails(q) \/ Take(q) \/ Upgrade(q) \/ Reject(q)
        PROVE  FALSE
    BY <2>3 DEF Open, OpenFails, Take, Upgrade, Reject, Finish
  <2>4. ASSUME NEW q \in Repos \cup {None}, Publish(q) PROVE FALSE
    BY <2>4 DEF Publish
  <2>5. ~HandOver
    BY DEF HandOver, UpgradeWanted
  <2>6. ~UNCHANGED vars
    BY DEF vars
  <2>7. PICK q \in Repos : Prune(q)
    BY <2>1, <2>2, <2>3, <2>4, <2>5, <2>6
    DEF Next, ClientStep, UpdatemgrStep, ServerStep, Failure, UnlinkFails, Abort,
        LockedByUpdatemgr, LockFails
  <2>8. QED BY <2>7 DEF Prune, PruneInv, Obsolete, UpgradeWanted
<1>2. UpgradeInv /\ [Next]_vars =>
        [\A r \in Repos : Dropped(r) => r # want \/ current = want]_vars
  BY <1>1
<1>3. QED BY <1>2, UpgradeInvariant, PTL DEF Spec, DownloadKept

-----------------------------------------------------------------------------
(* The refinement of Handover.                                             *)

\* Every step is one of its side of the mailbox, or leaves it alone.
LEMMA MailboxStep ==
  UpgradeInv /\ [Next]_vars =>
    /\ [Mailbox!Next]_(Mailbox!vars)
    /\ UpdatemgrStep \/ [Mailbox!Client]_(Mailbox!vars)
<1> DEFINE Goal == \/ [Mailbox!Client]_(Mailbox!vars)
                   \/ UpdatemgrStep /\ Mailbox!Updatemgr
<1> SUFFICES ASSUME UpgradeInv, [Next]_vars PROVE Goal
  BY DEF Mailbox!Next
<1> DEFINE wanted  == IF UpgradeWanted THEN want ELSE None
           offered == {r \in Repos : handover[r] = "whole"}
           taken   == {r \in Repos : handover[r] = "whole" /\ lock[r] = "updatemgr"}
<1> USE DEF Mailbox!Client, Mailbox!vars, Mailbox!client, Mailbox!updatemgr, Mailbox!Run,
            Mailbox!Offer, Mailbox!Withdraw, Mailbox!Overlook, Mailbox!Take, Mailbox!Finish,
            Mailbox!FinishOther, Mailbox!Listing, server, files, args, sweep, run, EndRun
\* A run begins, goes on or ends.
<1>1. CASE /\ offered' = offered /\ taken' = taken /\ installed' = installed
           /\ overlooked' = {} \/ (overlooked' = overlooked /\ wanted' = wanted)
  <2>1. want' \in Repos \cup {None}
    BY UpgradeStep DEF UpgradeInv, TypeOK
  <2>2. wanted' \in Repos \cup {None}
    BY <2>1
  <2>3. CASE overlooked' = {}
    <3>1. Mailbox!Run(wanted')
      BY <1>1, <2>3
    <3>2. QED BY <2>2, <3>1
  <2>4. CASE overlooked' = overlooked /\ wanted' = wanted
    BY <1>1, <2>4
  <2>5. QED BY <1>1, <2>3, <2>4
<1>2. CASE UNCHANGED <<want, current, overlooked, installed, offered, taken>>
  BY <1>1, <1>2 DEF UpgradeWanted
<1>3. CASE /\ UNCHANGED <<handover, lock, installed>>
           /\ overlooked' = {} \/ UNCHANGED <<want, current, overlooked>>
  BY <1>1, <1>3 DEF UpgradeWanted
<1>4. ASSUME NEW r \in Repos, Open(r) PROVE Goal
  <2>1. \A q \in Repos : handover'[q] = "whole" <=> handover[q] = "whole"
    BY <1>4 DEF Open, Opened, UpgradeInv, TypeOK
  <2>2. UNCHANGED <<want, current, overlooked, installed, lock>>
    BY <1>4 DEF Open
  <2>3. offered' = offered /\ taken' = taken
    BY <2>1, <2>2
  <2>4. QED BY <1>2, <2>2, <2>3
<1>5. ASSUME NEW r \in Repos, OpenFails(r) PROVE Goal
  <2>1. UNCHANGED <<want, current, installed, handover, lock>>
    BY <1>5 DEF OpenFails
  <2>2. Mailbox!Overlook(r)
    BY <1>5, <2>1 DEF OpenFails, UpgradeWanted
  <2>3. QED BY <2>2
<1>6. CASE GetWriteLock
  <2>1. \A q \in Repos : lock'[q] = "updatemgr" <=> lock[q] = "updatemgr"
    BY <1>6 DEF GetWriteLock, UpgradeInv, TypeOK, OpenInv
  <2>2. UNCHANGED <<want, current, overlooked, installed, handover>>
    BY <1>6 DEF GetWriteLock
  <2>3. offered' = offered /\ taken' = taken
    BY <2>1, <2>2
  <2>4. QED BY <1>2, <2>2, <2>3
<1>7. CASE Unlink
  <2>1. /\ cur \in Repos /\ lock[cur] = "client" /\ cur # wanted
        /\ handover' = [handover EXCEPT ![cur] = "none"]
        /\ lock' = [lock EXCEPT ![cur] = None]
        /\ UNCHANGED <<want, current, overlooked, installed>>
    BY <1>7 DEF Unlink, UpgradeInv, TypeOK, OpenInv, ListInv, Sweeping, AtHand, Obsolete,
                UpgradeWanted
  <2>2. offered' = offered \ {cur} /\ taken' = taken /\ cur \notin taken
    BY <2>1 DEF UpgradeInv, TypeOK
  <2>3. CASE cur \in offered
    <3>1. Mailbox!Withdraw(cur)
      BY <2>1, <2>2, <2>3 DEF UpgradeWanted
    <3>2. QED BY <2>1, <3>1
  <2>4. CASE cur \notin offered
    BY <1>2, <2>1, <2>2, <2>4
  <2>5. QED BY <2>3, <2>4
<1>8. CASE HandOver /\ ~busy
  <2>1. /\ want \in Repos /\ wanted = want /\ offered \subseteq overlooked
        /\ handover[want] = "none"
        /\ handover' = [handover EXCEPT ![want] = "whole"]
        /\ lock' = lock /\ installed' = installed /\ want' = None /\ overlooked' = {}
    BY <1>8 DEF HandOver, UpgradeInv, TypeOK, FetchInv, UpgradeWanted
  <2>2. lock[want] # "updatemgr"
    BY <2>1, LockedExists DEF UpgradeInv
  <2>3. offered' = offered \cup {want} /\ taken' = taken
    BY <2>1, <2>2 DEF UpgradeInv, TypeOK
  <2>4. Mailbox!Offer(want)
    BY <2>1, <2>3 DEF UpgradeWanted
  <2>5. QED BY <2>1, <2>4
<1>9. CASE CutShort
  <2>1. \A q \in Repos : lock'[q] = "updatemgr" <=> lock[q] = "updatemgr"
    BY <1>9 DEF CutShort, UpgradeInv, TypeOK
  <2>2. handover' = handover /\ installed' = installed /\ overlooked' = {}
    BY <1>9 DEF CutShort
  <2>3. offered' = offered /\ taken' = taken
    BY <2>1, <2>2
  <2>4. QED BY <1>1, <2>2, <2>3
<1>10. ASSUME NEW r \in Repos, Take(r) PROVE Goal
  <2>1. UNCHANGED <<want, current, overlooked, installed, handover>> /\ taken = {}
    BY <1>10 DEF Take
  <2>2. /\ offered' = offered
        /\ taken' = IF r \in offered THEN {r} ELSE {}
    BY <1>10 DEF Take, UpgradeInv, TypeOK
  <2>3. CASE r \in offered
    <3>1. Mailbox!Take(r)
      BY <2>1, <2>2, <2>3 DEF UpgradeWanted
    <3>2. QED BY <1>10, <3>1 DEF UpdatemgrStep, Mailbox!Updatemgr
  <2>4. CASE r \notin offered
    BY <1>2, <2>1, <2>2, <2>4
  <2>5. QED BY <2>3, <2>4
<1>11. ASSUME NEW r \in Repos, Upgrade(r) \/ Reject(r) PROVE Goal
  <2>1. /\ lock[r] = "updatemgr" /\ UNCHANGED <<want, current>>
        /\ handover' = [handover EXCEPT ![r] = "none"]
        /\ lock' = [lock EXCEPT ![r] = None]
        /\ installed' = installed \/ (installed' = r /\ r \in offered)
    BY <1>11 DEF Upgrade, Reject, Finish
  <2>2. overlooked' = overlooked \/ \E q \in Repos : overlooked' = overlooked \cup {q}
    BY <1>11 DEF Upgrade, Reject, Finish, Shift, UpgradeInv, TypeOK
  <2>3. offered' = offered \ {r} /\ taken' = taken \ {r}
    BY <2>1 DEF UpgradeInv, TypeOK
  <2>4. wanted' = wanted /\ Mailbox!Listing
    BY <2>1, <2>2 DEF UpgradeWanted
  <2>5. Mailbox!Finish(r) \/ Mailbox!FinishOther
    BY <2>1, <2>3
  <2>6. QED BY <1>11, <2>4, <2>5 DEF UpdatemgrStep, Mailbox!Updatemgr
<1>12. \/ UNCHANGED <<handover, lock, installed>> /\ overlooked' = {}
       \/ UNCHANGED <<handover, lock, installed, want, current, overlooked>>
       \/ GetWriteLock \/ Unlink \/ CutShort \/ (HandOver /\ ~busy)
       \/ \E r \in Repos : Open(r) \/ OpenFails(r) \/ Take(r) \/ Upgrade(r) \/ Reject(r)
  BY DEF Next, ClientStep, UpdatemgrStep, ServerStep, Failure, UnlinkFails, Abort, StartRun,
         ListDownload, ListHandover, EndListing, Prune, FoundLocked, LockedByUpdatemgr,
         LockFails, EndSweep, Fetch, HandOver, Publish, vars, UpgradeInv, FreshInv
<1>13. QED
  BY <1>3, <1>4, <1>5, <1>6, <1>7, <1>8, <1>9, <1>10, <1>11, <1>12

(***************************************************************************)
(* The client's runs, cut short or not, calls that fail, and updatemgr's   *)
(* steps between any two calls of the client implement Handover: the       *)
(* target is offered with nothing beside it but what the run passed over,  *)
(* never withdrawn once taken, and installed only from there, by updatemgr.*)
(***************************************************************************)
THEOREM ImplementsHandover == Spec => HandoverSpec
<1>1. Init => Mailbox!Init
  BY DEF Init, Mailbox!Init, UpgradeWanted
<1>2. QED
  BY <1>1, MailboxStep, UpgradeInvariant, PTL DEF Spec, HandoverSpec, Mailbox!Spec
=============================================================================
