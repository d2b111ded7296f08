----------------------------- MODULE RepoUpgrade ----------------------------
(***************************************************************************)
(* Over-the-air upgrades: arrange_xc_version (sync_client/client.py)       *)
(* downloads the repository the target state names into repo-download and  *)
(* hands it over by renaming it into repo.  From there updatemgr, another  *)
(* process, takes it: it locks the file, installs it and removes it, and   *)
(* the client leaves locked files alone.  All of this runs once per run of *)
(* sync-client, which may be cut short anywhere, while updatemgr goes on   *)
(* and the server publishes other releases.                                *)
(***************************************************************************)
EXTENDS Naturals, FiniteSets

CONSTANTS
  Repos,      \* repositories, each with the release and build it installs
  None,
  MaxPublish  \* bound: how often the server publishes another target

ASSUME RepoUpgradeAssumption ==
  None \notin Repos \cup {"client", "updatemgr"} /\ MaxPublish \in Nat

VARIABLES
  target,     \* the repository in the target state, None for a null repo_uuid
  changes,    \* how often it changed
  installed,  \* the repository the running release and build came from
  download,   \* repo-download/<uuid>.tar: "none", "partial" (.partial), "whole"
  handover,   \* repo/<uuid>.tar: "none", "broken" (empty, say), "whole"
  lock,       \* who has the handed-over file locked: "client", "updatemgr", None
  want,       \* repo, the argument of this run
  current,    \* the release and build as this run read them
  pc,         \* where arrange_xc_version is
  listed,     \* what is left of the listing of repo-download or repo
  cur,        \* the file the client has open
  busy,       \* upgrade_in_progress
  overlooked  \* history: the handed-over files this run passed over

server == <<target, changes>>
files  == <<download, handover>>
args   == <<want, current>>
sweep  == <<listed, cur, busy, overlooked>>
run    == <<args, pc, sweep>>
vars   == <<server, installed, files, lock, run>>

TypeOK ==
  /\ target \in Repos \cup {None} /\ changes \in 0 .. MaxPublish
  /\ installed \in Repos \cup {None}
  /\ download \in [Repos -> {"none", "partial", "whole"}]
  /\ handover \in [Repos -> {"none", "broken", "whole"}]
  /\ lock \in [Repos -> {None, "client", "updatemgr"}]
  /\ want \in Repos \cup {None} /\ current \in Repos \cup {None}
  /\ pc \in {"off", "list", "prune", "readdir", "sweep", "opened", "locked", "fetch", "offer"}
  /\ listed \subseteq Repos /\ overlooked \subseteq Repos
  /\ cur \in Repos \cup {None}
  /\ busy \in BOOLEAN
  /\ \A r \in Repos :
       /\ lock[r] # None => handover[r] # "none"
       /\ lock[r] = "client" => pc = "locked" /\ cur = r

Init ==
  /\ target \in Repos \cup {None} /\ changes = 0
  /\ installed = None
  /\ download = [r \in Repos |-> "none"]
  /\ handover = [r \in Repos |-> "none"]
  /\ lock = [r \in Repos |-> None]
  /\ want = None /\ current = None
  /\ pc = "off" /\ listed = {} /\ cur = None /\ busy = FALSE
  /\ overlooked = {}

-----------------------------------------------------------------------------
(* arrange_xc_version.                                                     *)

StartRun ==
  /\ pc = "off"
  /\ want' = target /\ current' = installed
  /\ busy' = FALSE
  /\ pc' = "list"
  /\ UNCHANGED <<listed, cur, overlooked, server, installed, files, lock>>

UpgradeWanted == want # None /\ current # want

\* Faulty: the path of a file is compared, which is never the name.
ObsoleteAll(r) == TRUE

\* Faulty: unfinished downloads do not count as the target's.
ObsoletePartial(r) == ~UpgradeWanted \/ r # want \/ download[r] = "partial"

Obsolete(r) == ~UpgradeWanted \/ r # want

\* icbinn.listdir and icbinn.open with O_CREAT on a directory.
Listdir(dir)   == {r \in Repos : dir[r] # "none"}
Opened(dir, r) == [dir EXCEPT ![r] = IF @ = "none" THEN "broken" ELSE @]

\* In one step: an entry that were missed here would be removed a run later.
ListDownload ==
  /\ pc = "list"
  /\ listed' = {r \in Listdir(download) : Obsolete(r)}
  /\ pc' = "prune"
  /\ UNCHANGED <<args, cur, busy, overlooked, server, installed, files, lock>>

Prune(r) ==
  /\ pc = "prune" /\ r \in listed
  /\ download[r] # "none"
  /\ download' = [download EXCEPT ![r] = "none"]
  /\ listed' = listed \ {r}
  /\ UNCHANGED <<args, pc, cur, busy, overlooked, handover, lock, server, installed>>

\* The listing of repo takes one call per entry, see Shift.
ListHandover ==
  /\ pc = "prune" /\ listed = {}
  /\ listed' = {r \in Listdir(handover) : Obsolete(r)}
  /\ pc' = "readdir"
  /\ UNCHANGED <<args, cur, busy, overlooked, server, installed, files, lock>>

EndListing ==
  /\ pc = "readdir"
  /\ pc' = "sweep"
  /\ UNCHANGED <<args, sweep, server, installed, files, lock>>

\* icbinn.listdir asks for the entries by position.  When r is removed while it
\* does, it has r or not, or else has r and misses one that moved into its place.
Shift(r) ==
  IF pc # "readdir" THEN UNCHANGED <<listed, overlooked>>
  ELSE \/ listed' \in {listed, listed \ {r}} /\ UNCHANGED overlooked
       \/ \E q \in listed \ {r} :
            listed' = listed \ {q} /\ overlooked' = overlooked \cup {q}

\* O_CREAT: a file that updatemgr removed since the listing comes back empty.
Open(r) ==
  /\ pc = "sweep" /\ r \in listed
  /\ handover' = Opened(handover, r)
  /\ listed' = listed \ {r} /\ cur' = r
  /\ pc' = "opened"
  /\ UNCHANGED <<args, busy, overlooked, download, lock, server, installed>>

\* The client takes it that updatemgr has removed the file, and goes on.
OpenFails(r) ==
  /\ pc = "sweep" /\ r \in listed
  /\ listed' = listed \ {r} /\ overlooked' = overlooked \cup {r}
  /\ UNCHANGED <<args, pc, cur, busy, server, installed, files, lock>>

\* The client takes it that updatemgr has the file.
FoundLocked ==
  /\ pc = "opened"
  /\ busy' = TRUE
  /\ pc' = "sweep" /\ cur' = None
  /\ UNCHANGED <<args, listed, overlooked, server, installed, files, lock>>

LockedByUpdatemgr == FoundLocked /\ lock[cur] = "updatemgr"

\* icbinn_lock fails for another reason.
LockFails == FoundLocked

\* Faulty: the result of icbinn_lock is ignored.
GetWriteLockAnyway ==
  /\ pc = "opened"
  /\ lock' = [lock EXCEPT ![cur] = IF @ = None THEN "client" ELSE @]
  /\ pc' = "locked"
  /\ UNCHANGED <<args, sweep, server, installed, files>>

\* A file removed since it was opened can still be locked, to no effect.
GetWriteLock ==
  /\ pc = "opened"
  /\ lock[cur] = None
  /\ lock' = [lock EXCEPT ![cur] = IF handover[cur] = "none" THEN @ ELSE "client"]
  /\ pc' = "locked"
  /\ UNCHANGED <<args, sweep, server, installed, files>>

\* Faulty: the file is not closed.
UnlinkNoClose ==
  /\ pc = "locked" /\ handover[cur] # "none"
  /\ handover' = [handover EXCEPT ![cur] = "none"]
  /\ pc' = "sweep" /\ cur' = None
  /\ UNCHANGED <<lock, args, listed, busy, overlooked, download, server, installed>>

Unlink ==
  /\ pc = "locked" /\ handover[cur] # "none"
  /\ handover' = [handover EXCEPT ![cur] = "none"]
  /\ lock' = [lock EXCEPT ![cur] = None]
  /\ pc' = "sweep" /\ cur' = None
  /\ UNCHANGED <<args, listed, busy, overlooked, download, server, installed>>

HandOverNeeded == UpgradeWanted /\ handover[want] = "none"

\* The arguments and locals go with the call.
EndRun ==
  /\ pc' = "off"
  /\ want' = None /\ current' = None
  /\ listed' = {} /\ cur' = None /\ busy' = FALSE /\ overlooked' = {}
  /\ UNCHANGED <<server, installed>>

EndSweep ==
  /\ pc = "sweep" /\ listed = {}
  /\ IF ~HandOverNeeded THEN EndRun
     ELSE /\ pc' = IF download[want] = "whole" THEN "offer" ELSE "fetch"
          /\ UNCHANGED <<args, sweep, server, installed>>
  /\ UNCHANGED <<files, lock>>

\* HTTPServer.download, see DiskFiles: the .partial file grows, then is renamed.
Fetch ==
  /\ pc = "fetch"
  /\ \/ download' = [download EXCEPT ![want] = "partial"] /\ UNCHANGED pc
     \/ /\ download[want] = "partial"
        /\ download' = [download EXCEPT ![want] = "whole"]
        /\ pc' = "offer"
  /\ UNCHANGED <<args, sweep, handover, lock, server, installed>>

\* Faulty: nobody asks whether an upgrade is in progress.
HandOverAnyway ==
  /\ pc = "offer"
  /\ download' = [download EXCEPT ![want] = "none"]
  /\ handover' = [handover EXCEPT ![want] = "whole"]
  /\ EndRun /\ UNCHANGED lock

HandOver ==
  /\ pc = "offer"
  /\ IF busy THEN UNCHANGED files
     ELSE /\ download' = [download EXCEPT ![want] = "none"]
          /\ handover' = [handover EXCEPT ![want] = "whole"]
  /\ EndRun /\ UNCHANGED lock

\* The file and with it the lock goes when the process does.
CutShort ==
  /\ pc # "off"
  /\ EndRun
  /\ lock' = [r \in Repos |-> IF lock[r] = "client" THEN None ELSE lock[r]]
  /\ UNCHANGED files

\* icbinn_unlink fails on a file that another process removed in the meantime.
UnlinkFails ==
  /\ \/ pc = "locked" /\ handover[cur] = "none"
     \/ pc = "prune" /\ \E r \in listed : download[r] = "none"
  /\ CutShort

Abort == CutShort

-----------------------------------------------------------------------------
(* updatemgr, as the comments of arrange_xc_version describe it, and the   *)
(* server.                                                                 *)

Take(r) ==
  /\ handover[r] # "none" /\ lock[r] = None
  /\ \A q \in Repos : lock[q] # "updatemgr"
  /\ lock' = [lock EXCEPT ![r] = "updatemgr"]
  /\ UNCHANGED <<files, run, server, installed>>

Finish(r) ==
  /\ lock[r] = "updatemgr"
  /\ handover' = [handover EXCEPT ![r] = "none"]
  /\ lock' = [lock EXCEPT ![r] = None]
  /\ Shift(r)
  /\ UNCHANGED <<download, args, pc, cur, busy, server>>

Upgrade(r) == handover[r] = "whole" /\ installed' = r /\ Finish(r)
Reject(r)  == UNCHANGED installed /\ Finish(r)

Publish(r) ==
  /\ changes < MaxPublish /\ r # target
  /\ target' = r /\ changes' = changes + 1
  /\ UNCHANGED <<installed, files, lock, run>>

ClientStep ==
  \/ StartRun
  \/ ListDownload
  \/ \E r \in Repos : Prune(r) \/ Open(r)
  \/ ListHandover
  \/ EndListing
  \/ LockedByUpdatemgr
  \/ GetWriteLock
  \/ Unlink
  \/ UnlinkFails
  \/ EndSweep
  \/ Fetch
  \/ HandOver

UpdatemgrStep == \E r \in Repos : Take(r) \/ Upgrade(r) \/ Reject(r)

ServerStep == \E r \in Repos \cup {None} : Publish(r)

\* The process ends, or a call fails for a reason of its own.
Failure == Abort \/ LockFails \/ \E r \in Repos : OpenFails(r)

Next ==
  \/ ClientStep
  \/ UpdatemgrStep
  \/ ServerStep
  \/ Failure

Spec == Init /\ [][Next]_vars

(***************************************************************************)
(* Runs follow each other and from some time on none is cut short and no   *)
(* call fails but for what updatemgr does; a download ends; updatemgr      *)
(* handles what it finds and does not reject the same whole repository for *)
(* ever.                                                                   *)
(***************************************************************************)
Fairness ==
  /\ WF_vars(ClientStep)
  /\ SF_vars(Fetch /\ pc' = "offer")
  /\ WF_vars(UpdatemgrStep)
  /\ \A r \in Repos : SF_vars(Upgrade(r))
  /\ <>[][ClientStep \/ UpdatemgrStep \/ ServerStep]_vars

FairSpec == Spec /\ Fairness

-----------------------------------------------------------------------------
(* Properties.                                                             *)

(***************************************************************************)
(* An upgrade in progress is not disturbed: the client removes no file     *)
(* that updatemgr has locked, although updatemgr may lock it between the   *)
(* client's listing, its open and its own attempt to lock it.              *)
(***************************************************************************)
UpgradeUndisturbed ==
  [][\A r \in Repos :
       lock[r] = "updatemgr" /\ (handover'[r] # handover[r] \/ lock'[r] # "updatemgr")
         => UpdatemgrStep]_vars

(***************************************************************************)
(* updatemgr and the client can rely on Handover: nothing is offered that  *)
(* the run does not want, or next to something else unless the run passed  *)
(* over it, because its listing missed it or it could not be opened;       *)
(* nothing is withdrawn that updatemgr took, even if it did so between the *)
(* client's listing, open and lock; and only what was offered is           *)
(* installed.  In particular nobody but updatemgr takes a step of          *)
(* updatemgr, like ending its work.                                        *)
(***************************************************************************)
Mailbox == INSTANCE Handover WITH
  wanted     <- IF UpgradeWanted THEN want ELSE None,
  offered    <- {r \in Repos : handover[r] = "whole"},
  taken      <- {r \in Repos : handover[r] = "whole" /\ lock[r] = "updatemgr"}

HandoverSpec ==
  /\ Mailbox!Spec
  /\ [][UpdatemgrStep \/ [Mailbox!Client]_(Mailbox!vars)]_vars

(***************************************************************************)
(* The work of earlier runs is kept: a repository downloaded so far is     *)
(* only dropped, other than by handing it over, by a run for which it is   *)
(* not the one to upgrade to.                                              *)
(***************************************************************************)
DownloadKept ==
  [][\A r \in Repos :
       download[r] # "none" /\ download'[r] = "none" /\ handover'[r] # "whole"
         => r # want \/ current = want]_vars

(***************************************************************************)
(* A release that the server keeps asking for is eventually installed for  *)
(* good, whatever upgrades were in progress or left over before, unless in *)
(* run after run updatemgr removes an obsolete file just when the client   *)
(* has listed it: O_CREAT then brings it back.                             *)
(***************************************************************************)
RemovedSinceListing == pc = "sweep" /\ \E r \in listed : handover[r] = "none"

TargetInstalled ==
  <>[]~RemovedSinceListing =>
    \A r \in Repos : <>[](target = r) => <>[](installed = r)
=============================================================================
