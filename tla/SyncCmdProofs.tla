---------------------------- MODULE SyncCmdProofs ---------------------------
(***************************************************************************)
(* Proofs about SyncCmd for any repositories, any length of the one that   *)
(* commands fetch, and connections that may or may not end early.          *)
(***************************************************************************)
EXTENDS SyncCmd, TLAPS

USE RepoUpgradeAssumption, SyncCmdAssumption
    DEF RepoUpgradeAssumption, SyncCmdAssumption, Own, Servers

Sweeping == {"readdir", "sweep", "opened", "locked"}

\* sync-client never opens, or hands over, one of repo-download's own names.
ClientInv ==
  /\ want \in Servers \cup {None}
  /\ pc \in Sweeping => Partial \notin listed
  /\ pc \in {"opened", "locked"} => cur \in Repos \ {Partial}
  /\ pc \in {"fetch", "offer"} => want # None

\* What a command has read of the .partial file is still so, if that is there.
OffsetInv ==
  /\ cmd = "open" /\ download[Partial] # "none" => offset = length
  /\ cmd = "stream" /\ gap = 0 => offset = length

CmdInv == CmdTypeOK /\ ClientInv /\ OffsetInv /\ NoGap

LEMMA CmdInitInv == CmdInit => CmdInv
<1> SUFFICES ASSUME CmdInit PROVE CmdInv
  OBVIOUS
<1>1. TypeOK
  <2>1. \A r \in Repos : lock[r] = None /\ None # "client"
    BY DEF CmdInit, Init
  <2>2. /\ changes \in 0 .. MaxPublish
        /\ target \in Repos \cup {None} /\ installed \in Repos \cup {None}
        /\ download \in [Repos -> {"none", "partial", "whole"}]
        /\ handover \in [Repos -> {"none", "broken", "whole"}]
        /\ lock \in [Repos -> {None, "client", "updatemgr"}]
    BY DEF CmdInit, Init
  <2>3. QED BY <2>1, <2>2 DEF CmdInit, Init, TypeOK
<1>2. CmdTypeOK
  <2>1. Partial \in Repos /\ handover[Partial] = "none"
    BY DEF CmdInit, Init
  <2>2. 0 \in 0 .. Size
    OBVIOUS
  <2>3. QED BY <1>1, <2>1, <2>2 DEF CmdInit, Init, CmdTypeOK
<1>3. ClientInv /\ OffsetInv /\ NoGap
  BY DEF CmdInit, Init, ClientInv, OffsetInv, NoGap, Sweeping
<1>4. QED BY <1>2, <1>3 DEF CmdInv

-----------------------------------------------------------------------------
(* The steps of the command.                                               *)

LEMMA CommandKeeps ==
  ASSUME CmdInv, Stat \/ CommandStep \/ Stops PROVE CmdInv'
<1> USE DEF CmdInv, CmdTypeOK, TypeOK, ClientInv, OffsetInv, NoGap, Sweeping,
            Ends, partial, files, others, server, run, args, sweep
<1>1. CASE Stat
  BY <1>1 DEF Stat
<1>2. CASE OpenPartial
  <2>1. /\ cmd' \in {"idle", "stream"} /\ (cmd' = "stream" => offset' = offset)
        /\ offset' \in 0 .. Size
    BY <1>2 DEF OpenPartial
  <2>2. /\ download' \in [Repos -> {"none", "partial", "whole"}]
        /\ UNCHANGED <<handover, lock, others, stale>>
    BY <1>2 DEF OpenPartial
  <2>3. TypeOK' /\ ClientInv'
    BY <2>2
  <2>4. CASE download[Partial] # "none"
    <3>1. blocks' = blocks /\ length' = length /\ gap' = gap
      BY <1>2, <2>4 DEF OpenPartial
    <3>2. CmdTypeOK'
      BY <2>1, <2>2, <2>3, <3>1
    <3>3. offset = length
      BY <1>2, <2>4 DEF OpenPartial
    <3>4. OffsetInv' /\ NoGap'
      BY <2>1, <3>1, <3>3
    <3>5. QED BY <2>3, <3>2, <3>4
  <2>5. CASE download[Partial] = "none"
    <3>1. /\ blocks' = {} /\ length' = 0 /\ gap' \in 0 .. Size
          /\ cmd' = "stream" /\ gap' = 0 => offset' = 0
      BY <1>2, <2>5 DEF OpenPartial
    <3>2. CmdTypeOK'
      BY <2>1, <2>2, <2>3, <3>1
    <3>3. OffsetInv'
      BY <2>1, <3>1
    <3>4. NoGap'
      BY <3>1
    <3>5. QED BY <2>3, <3>2, <3>3, <3>4
  <2>6. QED BY <2>4, <2>5
<1>3. CASE Receive
  BY <1>3 DEF Receive
<1>4. CASE StreamEnds
  BY <1>4 DEF StreamEnds
<1>5. CASE UnlinkOld
  BY <1>5 DEF UnlinkOld
<1>6. CASE Rename
  <2>1. cmd' \in {"idle", "apply"} /\ offset' \in 0 .. Size
    BY <1>6 DEF Rename
  <2>2. /\ download' \in [Repos -> {"none", "partial", "whole"}]
        /\ UNCHANGED <<handover, lock, others, stale>>
    BY <1>6 DEF Rename
  <2>3. TypeOK' /\ ClientInv'
    BY <2>2
  <2>4. OffsetInv'
    BY <2>1
  <2>5. CASE download[Partial] = "none"
    <3>1. blocks' = blocks /\ length' = length /\ gap' = gap
      BY <1>6, <2>5 DEF Rename
    <3>2. CmdTypeOK' /\ NoGap'
      BY <2>1, <2>2, <2>3, <3>1
    <3>3. QED BY <2>3, <2>4, <3>2
  <2>6. CASE download[Partial] # "none"
    <3>1. blocks' = {} /\ length' = 0 /\ gap' = 0
      BY <1>6, <2>6 DEF Rename
    <3>2. CmdTypeOK'
      BY <2>1, <2>2, <2>3, <3>1
    <3>3. NoGap'
      BY <3>1
    <3>4. QED BY <2>3, <2>4, <3>2, <3>3
  <2>7. QED BY <2>5, <2>6
<1>7. CASE ApplyExists
  BY <1>7 DEF ApplyExists
<1>8. CASE Move
  <2>1. /\ cmd' = "idle" /\ offset' = 0
        /\ UNCHANGED <<partial, args, pc, cur, busy, overlooked, server, installed>>
        /\ listed' \subseteq Repos /\ (pc \in Sweeping => Partial \notin listed')
    BY <1>8 DEF Move
  <2>2. OffsetInv' /\ NoGap'
    BY <2>1
  <2>3. CASE download[Url] = "none"
    <3>1. UNCHANGED <<files, lock, stale>>
      BY <1>8, <2>3 DEF Move
    <3>2. CmdTypeOK' /\ ClientInv'
      BY <2>1, <3>1
    <3>3. QED BY <2>2, <3>2
  <2>4. CASE download[Url] # "none"
    <3>1. /\ handover' \in [Repos -> {"none", "broken", "whole"}]
          /\ download' \in [Repos -> {"none", "partial", "whole"}]
          /\ lock' \in [Repos -> {None, "client", "updatemgr"}]
      BY <1>8, <2>4 DEF Move
    <3>2. \A r \in Repos : r # Url => handover'[r] = handover[r] /\ lock'[r] = lock[r]
      BY <1>8, <2>4 DEF Move
    <3>3. lock'[Url] = None /\ None # "client"
      BY <1>8, <2>4 DEF Move
    <3>4. TypeOK' /\ ClientInv'
      BY <2>1, <3>1, <3>2, <3>3
    <3>5. stale' \subseteq {"client", "updatemgr"}
      <4>1. stale' = stale \cup {p \in {"client"} : pc = "opened" /\ cur = Url}
                           \cup {p \in {"updatemgr"} : lock[Url] = p}
        BY <1>8, <2>4 DEF Move
      <4>2. ASSUME NEW p \in stale' PROVE p \in {"client", "updatemgr"}
        BY <4>1, <4>2
      <4>3. QED BY <4>2
    <3>6. "client" \in stale' => "client" \in stale \/ (pc = "opened" /\ cur = Url)
      BY <1>8, <2>4 DEF Move
    <3>7. CmdTypeOK'
      BY <2>1, <3>2, <3>4, <3>5, <3>6
    <3>8. QED BY <2>2, <3>4, <3>7
  <2>5. QED BY <2>3, <2>4
<1>9. CASE Stops
  BY <1>9 DEF Stops
<1>10. QED
  BY <1>1, <1>2, <1>3, <1>4, <1>5, <1>6, <1>7, <1>8, <1>9 DEF CommandStep

-----------------------------------------------------------------------------
(* The steps of sync-client.                                               *)

\* They leave the command alone, and never bring a .partial file back.
LEMMA BesideKeepsOffset ==
  ASSUME CmdInv, UNCHANGED command,
         download'[Partial] # "none" => download[Partial] # "none"
  PROVE  OffsetInv' /\ NoGap'
  BY DEF CmdInv, OffsetInv, NoGap, command, partial

LEMMA ClientKeeps ==
  ASSUME CmdInv, ClientStep \/ Failure
  PROVE  /\ TypeOK' /\ ClientInv' /\ target' = target
         /\ handover'[Partial] = "none"
         /\ download'[Partial] # "none" => download[Partial] # "none"
<1> USE DEF CmdInv, CmdTypeOK, TypeOK, ClientInv, Sweeping, EndRun, files, server, run,
            args, sweep
<1>1. CASE StartRun
  BY <1>1 DEF StartRun
<1>2. CASE ListDownload \/ ListHandover \/ EndListing
  BY <1>2 DEF ListDownload, ListHandover, EndListing, Listdir
<1>3. ASSUME NEW r \in Repos, Prune(r)
      PROVE  /\ TypeOK' /\ ClientInv' /\ target' = target
             /\ handover'[Partial] = "none"
             /\ download'[Partial] # "none" => download[Partial] # "none"
  BY <1>3 DEF Prune
<1>4. ASSUME NEW r \in Repos, Open(r)
      PROVE  /\ TypeOK' /\ ClientInv' /\ target' = target
             /\ handover'[Partial] = "none"
             /\ download'[Partial] # "none" => download[Partial] # "none"
  <2>1. /\ handover' \in [Repos -> {"none", "broken", "whole"}]
        /\ \A q \in Repos : handover[q] # "none" => handover'[q] # "none"
        /\ r # Partial /\ handover'[Partial] = "none"
    BY <1>4 DEF Open, Opened
  <2>2. QED BY <1>4, <2>1 DEF Open
<1>5. CASE FoundLocked
  BY <1>5 DEF FoundLocked
<1>6. CASE GetWriteLock
  BY <1>6 DEF GetWriteLock
<1>7. CASE Unlink
  BY <1>7 DEF Unlink
<1>8. CASE CutShort
  BY <1>8 DEF CutShort
<1>9. CASE EndSweep
  BY <1>9 DEF EndSweep, HandOverNeeded, UpgradeWanted
<1>10. CASE Fetch
  BY <1>10 DEF Fetch
<1>11. CASE HandOver
  BY <1>11 DEF HandOver
<1>12. ASSUME NEW r \in Repos, OpenFails(r)
      PROVE  /\ TypeOK' /\ ClientInv' /\ target' = target
             /\ handover'[Partial] = "none"
             /\ download'[Partial] # "none" => download[Partial] # "none"
  BY <1>12 DEF OpenFails
<1>13. QED
  BY <1>1, <1>2, <1>3, <1>4, <1>5, <1>6, <1>7, <1>8, <1>9, <1>10, <1>11, <1>12
  DEF ClientStep, Failure, LockedByUpdatemgr, LockFails, UnlinkFails, Abort

\* A stale file is one of the name Url, open in the client until it locks it.
LEMMA BesideKeeps ==
  ASSUME CmdInv, ClientBeside \/ FailureBeside PROVE CmdInv'
<1>1. /\ TypeOK' /\ ClientInv' /\ target' = target
      /\ handover'[Partial] = "none"
      /\ download'[Partial] # "none" => download[Partial] # "none"
  BY ClientKeeps DEF ClientBeside, FailureBeside
<1>2. UNCHANGED command
  BY DEF ClientBeside, FailureBeside
<1>3. /\ stale' \subseteq {"client", "updatemgr"} /\ "client" \notin stale'
  BY DEF CmdInv, CmdTypeOK, ClientBeside, FailureBeside
<1>4. CmdTypeOK'
  BY <1>1, <1>2, <1>3 DEF CmdInv, CmdTypeOK, command, partial
<1>5. QED BY <1>1, <1>2, <1>4, BesideKeepsOffset DEF CmdInv

LEMMA StaleKeeps ==
  ASSUME CmdInv, LockStale PROVE CmdInv'
<1> USE DEF CmdInv, CmdTypeOK, TypeOK, ClientInv, OffsetInv, NoGap, Sweeping, LockStale,
            command, partial, files, server, args
<1>1. \A r \in Repos : lock[r] # "client"
  OBVIOUS
<1>2. TypeOK'
  BY <1>1
<1>3. CmdTypeOK'
  BY <1>2
<1>4. ClientInv' /\ OffsetInv' /\ NoGap'
  OBVIOUS
<1>5. QED BY <1>3, <1>4

-----------------------------------------------------------------------------
(* The steps of updatemgr and the server.                                  *)

LEMMA UpdatemgrKeeps ==
  ASSUME CmdInv, UpdatemgrBeside \/ FinishStale \/ ServerBeside PROVE CmdInv'
<1> USE DEF CmdInv, CmdTypeOK, TypeOK, ClientInv, OffsetInv, NoGap, Sweeping,
            command, partial, files, server, run, args, sweep
<1>1. ASSUME NEW r \in Repos, Take(r), UNCHANGED <<command, stale>> PROVE CmdInv'
  BY <1>1 DEF Take
<1>2. ASSUME NEW r \in Repos, Upgrade(r) \/ Reject(r), UNCHANGED <<command, stale>>
      PROVE  CmdInv'
  <2>1. listed' \subseteq listed /\ overlooked' \subseteq Repos
    BY <1>2 DEF Upgrade, Reject, Finish, Shift
  <2>2. QED BY <1>2, <2>1 DEF Upgrade, Reject, Finish
<1>3. CASE FinishStale
  <2>1. listed' \subseteq listed /\ overlooked' \subseteq Repos
    BY <1>3 DEF FinishStale, Shift
  <2>2. QED BY <1>3, <2>1 DEF FinishStale
<1>4. ASSUME NEW r \in Servers \cup {None}, Publish(r), UNCHANGED <<command, stale>>
      PROVE  CmdInv'
  BY <1>4 DEF Publish
<1>5. QED
  BY <1>1, <1>2, <1>3, <1>4 DEF UpdatemgrBeside, UpdatemgrStep, ServerBeside

LEMMA CmdInvStep == CmdInv /\ [CmdNext]_cmdVars => CmdInv'
<1> SUFFICES ASSUME CmdInv, [CmdNext]_cmdVars PROVE CmdInv'
  OBVIOUS
<1>1. CASE UNCHANGED cmdVars
  BY <1>1 DEF cmdVars, vars, command, partial, files, server, run, args, sweep, CmdInv,
              CmdTypeOK, TypeOK, ClientInv, OffsetInv, NoGap
<1>2. CASE CmdNext
  BY <1>2, CommandKeeps, BesideKeeps, StaleKeeps, UpdatemgrKeeps
  DEF CmdNext, UninterruptedStep
<1>3. QED BY <1>1, <1>2

LEMMA CmdInvariant == CmdSpec => []CmdInv
  BY CmdInitInv, CmdInvStep, PTL DEF CmdSpec

(***************************************************************************)
(* The variables have their types, a .partial file never shows up in repo, *)
(* and sync-client has a replaced file open only before it locks it.       *)
(***************************************************************************)
THEOREM CmdTypes == CmdSpec => []CmdTypeOK
<1>1. CmdInv => CmdTypeOK
  BY DEF CmdInv
<1>2. QED BY <1>1, CmdInvariant, PTL

(***************************************************************************)
(* However commands are interrupted and repeated, and even if sync-client  *)
(* removes the .partial file beneath the command that writes it, the next  *)
(* one goes on where the file ends, with no gap.  The one exception is the *)
(* antecedent of NoGap: a file that is removed between the stat and the    *)
(* open of one command (storage.py) begins with a gap.                     *)
(***************************************************************************)
THEOREM CommandsResume == CmdSpec => []NoGap
<1>1. CmdInv => NoGap
  BY DEF CmdInv
<1>2. QED BY <1>1, CmdInvariant, PTL

-----------------------------------------------------------------------------
(* The server's repositories, and what sync-client knows of them.          *)

\* The file the sweep is at.
AtHand(r) == pc \in {"opened", "locked"} /\ cur = r

\* What it locked is still there, or gone for good.
HoldInv ==
  pc = "locked" /\ cur \in Servers => handover[cur] = "none" \/ lock[cur] = "client"

\* What it works on it does not want.
ListInv ==
  pc \in Sweeping => \A r \in Servers : r \in listed \/ AtHand(r) => Obsolete(r)

\* What it has not removed it will still look at, has passed over, or knows is
\* busy.
SweepInv ==
  pc \in Sweeping =>
    \A r \in Servers :
      handover[r] = "whole" /\ Obsolete(r) =>
        busy \/ r \in listed \/ r \in overlooked \/ AtHand(r)

\* By the time the target is fetched, no other repository is on offer but what
\* the run passed over.
FetchInv ==
  pc \in {"fetch", "offer"} =>
    /\ UpgradeWanted /\ handover[want] = "none"
    /\ busy \/ \A r \in Servers : handover[r] = "whole" => r \in overlooked

\* Nothing is passed over before the listing.
FreshInv == pc \in {"off", "list", "prune"} => overlooked = {}

ServerInv == HoldInv /\ ListInv /\ SweepInv /\ FetchInv /\ FreshInv

LEMMA ServerInit == CmdInit => ServerInv
  BY DEF CmdInit, Init, ServerInv, HoldInv, ListInv, SweepInv, FetchInv, FreshInv, Sweeping

\* Steps that do not get at the server's repositories, and leave of the run's
\* locals all but the listing, of which they move a part to overlooked.
Elsewhere ==
  /\ UNCHANGED <<args, pc, cur, busy>>
  /\ \A r \in Servers : /\ handover'[r] = handover[r] /\ lock'[r] = lock[r]
                        /\ r \in listed' => r \in listed
                        /\ r \in listed => r \in listed' \/ r \in overlooked'
  /\ overlooked \subseteq overlooked' /\ (pc # "readdir" => overlooked' = overlooked)

LEMMA ElsewhereKeeps ==
  ASSUME CmdInv, ServerInv, Elsewhere PROVE ServerInv'
<1> USE DEF Elsewhere, CmdInv, ClientInv, ServerInv, HoldInv, ListInv, SweepInv, FetchInv,
            FreshInv, Sweeping, AtHand, Obsolete, UpgradeWanted, args
<1>1. HoldInv' /\ ListInv' /\ FreshInv'
  OBVIOUS
<1>2. SweepInv'
  OBVIOUS
<1>3. FetchInv'
  OBVIOUS
<1>4. QED BY <1>1, <1>2, <1>3

\* Removing a file while the directory is listed moves nothing but that.
LEMMA ShiftMoves ==
  ASSUME CmdInv, NEW r \in Repos, Shift(r), pc' = pc
  PROVE  /\ overlooked \subseteq overlooked' /\ (pc # "readdir" => overlooked' = overlooked)
         /\ listed' \subseteq listed
         /\ \A q \in listed : q \in listed' \/ q \in overlooked' \/ q = r
         /\ overlooked' = overlooked \/ \E q \in Repos : overlooked' = overlooked \cup {q}
  BY DEF Shift, CmdInv, CmdTypeOK, TypeOK

\* The command's are such steps, and so is the end of work on a replaced file.
LEMMA CommandElsewhere ==
  ASSUME CmdInv, Stat \/ CommandStep \/ Stops \/ FinishStale
  PROVE  Elsewhere /\ (FinishStale \/ overlooked' = overlooked)
<1> USE DEF Elsewhere, CmdInv, CmdTypeOK, TypeOK, others, run, sweep, files
<1>1. CASE Stat \/ StreamEnds \/ ApplyExists \/ Stops \/ Receive
  BY <1>1 DEF Stat, StreamEnds, ApplyExists, Stops, Receive
<1>2. CASE OpenPartial \/ UnlinkOld \/ Rename
  BY <1>2 DEF OpenPartial, UnlinkOld, Rename
<1>3. CASE Move
  <2>1. /\ UNCHANGED <<args, pc, cur, busy, overlooked>>
        /\ listed \subseteq listed' /\ listed' \subseteq listed \cup {Url}
    BY <1>3 DEF Move
  <2>2. \A r \in Servers : handover'[r] = handover[r] /\ lock'[r] = lock[r]
    BY <1>3 DEF Move
  <2>3. QED BY <2>1, <2>2
<1>4. CASE FinishStale
  <2>1. UNCHANGED <<args, pc, cur, busy>>
    BY <1>4 DEF FinishStale
  <2>2. \A r \in Servers : handover'[r] = handover[r] /\ lock'[r] = lock[r]
    BY <1>4 DEF FinishStale
  <2>3. Shift(Url) \/ UNCHANGED <<listed, overlooked>>
    BY <1>4 DEF FinishStale
  <2>4. CASE UNCHANGED <<listed, overlooked>>
    BY <1>4, <2>1, <2>2, <2>4
  <2>5. CASE Shift(Url)
    BY <1>4, <2>1, <2>2, <2>5, ShiftMoves
  <2>6. QED BY <2>3, <2>4, <2>5
<1>5. QED BY <1>1, <1>2, <1>3, <1>4 DEF CommandStep

LEMMA ClientServerKeeps ==
  ASSUME CmdInv, ServerInv, ClientBeside \/ FailureBeside PROVE ServerInv'
<1> USE DEF CmdInv, CmdTypeOK, TypeOK, ClientInv, ServerInv, HoldInv, ListInv, SweepInv,
            FetchInv, FreshInv, Sweeping, AtHand, Obsolete, UpgradeWanted, EndRun, files, server,
            args, sweep
<1>1. CASE StartRun
  BY <1>1 DEF StartRun
<1>2. CASE ListDownload \/ ListHandover \/ EndListing
  BY <1>2 DEF ListDownload, ListHandover, EndListing, Listdir
<1>3. ASSUME NEW r \in Repos, Prune(r) PROVE ServerInv'
  BY <1>3 DEF Prune
<1>4. ASSUME NEW r \in Repos, Open(r) PROVE ServerInv'
  <2>1. \A q \in Repos : handover'[q] = "whole" => handover[q] = "whole"
    BY <1>4 DEF Open, Opened
  <2>2. QED BY <1>4, <2>1 DEF Open
<1>5. ASSUME NEW r \in Repos, OpenFails(r) PROVE ServerInv'
  BY <1>5 DEF OpenFails
<1>6. CASE FoundLocked
  BY <1>6 DEF FoundLocked
<1>7. CASE GetWriteLock
  BY <1>7 DEF GetWriteLock
<1>8. CASE Unlink
  BY <1>8 DEF Unlink
<1>9. CASE EndSweep
  BY <1>9 DEF EndSweep, HandOverNeeded
<1>10. CASE Fetch
  BY <1>10 DEF Fetch
<1>11. CASE HandOver \/ CutShort
  BY <1>11 DEF HandOver, CutShort
<1>12. QED
  BY <1>1, <1>2, <1>3, <1>4, <1>5, <1>6, <1>7, <1>8, <1>9, <1>10, <1>11
  DEF ClientBeside, FailureBeside, ClientStep, Failure, Abort, UnlinkFails, LockFails,
      LockedByUpdatemgr

LEMMA ServerStepKeeps ==
  CmdInv /\ ServerInv /\ [CmdNext]_cmdVars => ServerInv'
<1> SUFFICES ASSUME CmdInv, ServerInv, [CmdNext]_cmdVars PROVE ServerInv'
  OBVIOUS
<1> USE DEF CmdInv, CmdTypeOK, TypeOK, ClientInv, ServerInv, HoldInv, ListInv, SweepInv,
            FetchInv, FreshInv, Sweeping, AtHand, Obsolete, UpgradeWanted, run, args, sweep,
            files, server
<1>1. CASE LockStale
  BY <1>1 DEF LockStale
<1>2. ASSUME NEW r \in Repos, Take(r) PROVE ServerInv'
  BY <1>2 DEF Take
<1>3. ASSUME NEW r \in Repos, Upgrade(r) \/ Reject(r) PROVE ServerInv'
  <2>1. /\ UNCHANGED <<args, pc, cur, busy>> /\ Shift(r)
        /\ handover' = [handover EXCEPT ![r] = "none"]
        /\ lock' = [lock EXCEPT ![r] = None] /\ lock[r] = "updatemgr"
    BY <1>3 DEF Upgrade, Reject, Finish
  <2>2. /\ overlooked \subseteq overlooked' /\ (pc # "readdir" => overlooked' = overlooked)
        /\ listed' \subseteq listed
        /\ \A q \in listed : q \in listed' \/ q \in overlooked' \/ q = r
    BY <2>1, ShiftMoves
  <2>3. HoldInv' /\ ListInv' /\ FreshInv'
    BY <2>1, <2>2
  <2>4. SweepInv'
    BY <2>1, <2>2
  <2>5. FetchInv'
    BY <2>1, <2>2
  <2>6. QED BY <2>3, <2>4, <2>5
<1>4. ASSUME NEW r \in Servers \cup {None}, Publish(r) PROVE ServerInv'
  BY <1>4 DEF Publish
<1>5. CASE UNCHANGED cmdVars
  BY <1>5 DEF cmdVars, vars
<1>6. QED
  BY <1>1, <1>2, <1>3, <1>4, <1>5, CommandElsewhere, ElsewhereKeeps, ClientServerKeeps
  DEF CmdNext, UninterruptedStep, UpdatemgrBeside, UpdatemgrStep, ServerBeside

LEMMA ServerInvariant == CmdSpec => []ServerInv
  BY CmdInvariant, ServerInit, ServerStepKeeps, PTL DEF CmdSpec

-----------------------------------------------------------------------------
(* The refinement of Handover by the server's repositories.                *)

\* The last part of TypeOK: a lock is held on an existing file.
LEMMA LockedExists ==
  ASSUME TypeOK, NEW r \in Repos, lock[r] = "updatemgr"
  PROVE  handover[r] # "none"
<1>1. lock[r] # None
  OBVIOUS
<1>2. lock[r] # None => handover[r] # "none"
  BY DEF TypeOK
<1>3. QED BY <1>1, <1>2

\* Every step is one of its side of the mailbox, or leaves it alone.
LEMMA ServerMailboxStep ==
  CmdInv /\ ServerInv /\ [CmdNext]_cmdVars =>
    /\ [ServerMailbox!Next]_(ServerMailbox!vars)
    /\ UpdatemgrTakesPart \/ [ServerMailbox!Client]_(ServerMailbox!vars)
<1> DEFINE ByClient    == [ServerMailbox!Client]_(ServerMailbox!vars)
           ByUpdatemgr == [ServerMailbox!Updatemgr]_(ServerMailbox!vars)
           Goal        == ByClient \/ (UpdatemgrTakesPart /\ ByUpdatemgr)
<1> SUFFICES ASSUME CmdInv, ServerInv, [CmdNext]_cmdVars PROVE Goal
  BY DEF ServerMailbox!Next
<1> DEFINE wanted  == IF UpgradeWanted THEN want ELSE None
           seen    == overlooked \cap Servers
           offered == {r \in Servers : handover[r] = "whole"}
           taken   == {r \in Servers : handover[r] = "whole" /\ lock[r] = "updatemgr"}
           last    == IF installed \in Servers THEN installed ELSE None
<1> USE DEF ServerMailbox!Client, ServerMailbox!Updatemgr, ServerMailbox!vars, ServerMailbox!client,
            ServerMailbox!updatemgr, ServerMailbox!Run, ServerMailbox!Offer,
            ServerMailbox!Withdraw, ServerMailbox!Overlook, ServerMailbox!Take,
            ServerMailbox!Finish, ServerMailbox!FinishOther, ServerMailbox!Listing
<1>0. /\ want \in Servers \cup {None} /\ want' \in Servers \cup {None}
      /\ handover \in [Repos -> {"none", "broken", "whole"}]
      /\ lock \in [Repos -> {None, "client", "updatemgr"}]
  BY CmdInvStep DEF CmdInv, CmdTypeOK, TypeOK, ClientInv
\* A run begins, goes on or ends.
<1>1. ASSUME offered' = offered, taken' = taken, last' = last,
             seen' = {} \/ (seen' = seen /\ wanted' = wanted)
      PROVE  ByClient
  <2>1. CASE seen' = {}
    <3>1. wanted' \in Servers \cup {None}
      BY <1>0
    <3>2. ServerMailbox!Run(wanted')
      BY <1>1, <2>1
    <3>3. QED BY <3>1, <3>2
  <2>2. CASE seen' = seen /\ wanted' = wanted
    BY <1>1, <2>2
  <2>3. QED BY <1>1, <2>1, <2>2
\* updatemgr is done with something else.
<1>2. ASSUME offered' = offered, taken' = taken, last' \in {last, None},
             ServerMailbox!Listing, wanted' = wanted
      PROVE  ByUpdatemgr
  BY <1>2
\* updatemgr is done with a repository of the server.
<1>3. ASSUME NEW r \in Servers, r \in taken, last' \in {last, r},
             offered' = offered \ {r}, taken' = taken \ {r},
             ServerMailbox!Listing, wanted' = wanted
      PROVE  ByUpdatemgr
  <2>1. ServerMailbox!Finish(r)
    BY <1>3
  <2>2. QED BY <1>3, <2>1
\* What a listing may miss.
<1>4. ASSUME NEW r \in Repos, Shift(r), pc' = pc PROVE ServerMailbox!Listing
  <2>1. overlooked' = overlooked \/ \E q \in Repos : overlooked' = overlooked \cup {q}
    BY <1>4, ShiftMoves
  <2>2. ASSUME NEW q \in Repos, overlooked' = overlooked \cup {q}
        PROVE  seen' = seen \/ (q \in Servers /\ seen' = seen \cup {q})
    BY <2>2
  <2>3. QED BY <2>1, <2>2
<1>5. CASE Stat \/ CommandStep \/ Stops \/ FinishStale
  <2>1. Elsewhere /\ (FinishStale \/ overlooked' = overlooked)
    BY <1>5, CommandElsewhere
  <2>2. offered' = offered /\ taken' = taken /\ wanted' = wanted
    BY <2>1 DEF Elsewhere, args, UpgradeWanted
  <2>3. CASE FinishStale
    <3>1. last' \in {last, None}
      BY <2>3 DEF FinishStale
    <3>2. ServerMailbox!Listing
      BY <1>4, <2>3 DEF FinishStale
    <3>3. QED BY <1>2, <2>2, <2>3, <3>1, <3>2 DEF UpdatemgrTakesPart
  <2>4. CASE ~FinishStale
    <3>1. installed' = installed
      BY <1>5, <2>4 DEF Stat, CommandStep, OpenPartial, Receive, StreamEnds, UnlinkOld, Rename,
                ApplyExists, Move, Stops, others
    <3>2. seen' = seen
      BY <2>1, <2>4
    <3>3. QED BY <1>1, <2>2, <3>1, <3>2
  <2>5. QED BY <2>3, <2>4
<1>6. CASE LockStale \/ ServerBeside \/ UNCHANGED cmdVars
  <2>1. UNCHANGED <<args, files, lock, installed, overlooked>>
    BY <1>6 DEF LockStale, ServerBeside, Publish, cmdVars, vars, run, sweep
  <2>2. offered' = offered /\ taken' = taken /\ wanted' = wanted
    BY <2>1 DEF files, args, UpgradeWanted
  <2>3. QED BY <1>1, <2>1, <2>2
<1>7. ASSUME NEW r \in Repos, Take(r) PROVE ByUpdatemgr
  <2>1. /\ UNCHANGED <<want, current, overlooked, installed, handover>> /\ taken = {}
        /\ lock' = [lock EXCEPT ![r] = "updatemgr"]
    BY <1>7 DEF Take, files, run, args, sweep
  <2>2. /\ offered' = offered /\ wanted' = wanted
        /\ taken' = IF r \in offered THEN {r} ELSE {}
    BY <1>0, <2>1 DEF UpgradeWanted
  <2>3. CASE r \in offered
    <3>1. ServerMailbox!Take(r)
      BY <1>7, <2>1, <2>2, <2>3
    <3>2. QED BY <2>3, <3>1
  <2>4. CASE r \notin offered
    BY <1>2, <1>7, <2>1, <2>2, <2>4
  <2>5. QED BY <2>3, <2>4
<1>8. ASSUME NEW r \in Repos, Upgrade(r) \/ Reject(r) PROVE ByUpdatemgr
  <2>1. /\ lock[r] = "updatemgr" /\ UNCHANGED <<want, current, pc>> /\ Shift(r)
        /\ handover' = [handover EXCEPT ![r] = "none"]
        /\ lock' = [lock EXCEPT ![r] = None]
        /\ installed' = installed \/ (installed' = r /\ handover[r] = "whole")
    BY <1>8 DEF Upgrade, Reject, Finish, args
  <2>2. offered' = offered \ {r} /\ taken' = taken \ {r} /\ wanted' = wanted
    BY <1>0, <2>1 DEF UpgradeWanted
  <2>3. ServerMailbox!Listing
    BY <1>4, <2>1
  <2>4. CASE r \in offered
    <3>1. r \in Servers /\ r \in taken /\ last' \in {last, r}
      BY <2>1, <2>4
    <3>2. QED BY <1>3, <2>2, <2>3, <3>1
  <2>5. CASE r \notin offered
    <3>1. last' \in {last, None} /\ offered' = offered /\ taken' = taken
      BY <2>1, <2>2, <2>5
    <3>2. QED BY <1>2, <2>2, <2>3, <3>1
  <2>6. QED BY <2>4, <2>5
<1>9. CASE ClientBeside \/ FailureBeside
  <2> USE DEF files, run, args, sweep, server, EndRun
  <2>1. CASE /\ offered' = offered /\ taken' = taken /\ installed' = installed
             /\ overlooked' = {} \/ UNCHANGED <<overlooked, want, current>>
    BY <1>1, <2>1 DEF UpgradeWanted
  <2>2. CASE /\ UNCHANGED <<handover, lock, installed>>
             /\ overlooked' = {} \/ UNCHANGED <<overlooked, want, current>>
    BY <2>1, <2>2
  <2>3. ASSUME NEW r \in Repos, Open(r) PROVE Goal
    <3>1. \A q \in Repos : handover'[q] = "whole" <=> handover[q] = "whole"
      BY <1>0, <2>3 DEF Open, Opened
    <3>2. UNCHANGED <<lock, installed, overlooked, want, current>>
      BY <2>3 DEF Open
    <3>3. QED BY <2>1, <3>1, <3>2
  <2>4. ASSUME NEW r \in Repos, OpenFails(r) PROVE Goal
    <3>1. UNCHANGED <<want, current, installed, handover, lock>>
          /\ overlooked' = overlooked \cup {r}
      BY <2>4 DEF OpenFails
    <3>2. CASE r \in Servers
      <4>1. ServerMailbox!Overlook(r)
        BY <3>1, <3>2 DEF UpgradeWanted
      <4>2. QED BY <3>2, <4>1
    <3>3. CASE r \notin Servers
      BY <1>1, <3>1, <3>3 DEF UpgradeWanted
    <3>4. QED BY <3>2, <3>3
  <2>5. CASE GetWriteLock \/ CutShort
    <3>1. \A q \in Repos : lock'[q] = "updatemgr" <=> lock[q] = "updatemgr"
      BY <1>0, <2>5 DEF GetWriteLock, CutShort
    <3>2. /\ handover' = handover /\ installed' = installed
          /\ overlooked' = {} \/ UNCHANGED <<overlooked, want, current>>
      BY <2>5 DEF GetWriteLock, CutShort
    <3>3. QED BY <2>1, <3>1, <3>2
  <2>6. CASE Unlink
    <3>1. /\ handover' = [handover EXCEPT ![cur] = "none"]
          /\ lock' = [lock EXCEPT ![cur] = None]
          /\ pc = "locked" /\ handover[cur] # "none"
          /\ UNCHANGED <<want, current, overlooked, installed>>
      BY <2>6 DEF Unlink
    <3>2. offered' = offered \ {cur}
      BY <1>0, <3>1
    <3>3. CASE cur \in offered
      <4>1. lock[cur] = "client" /\ cur # wanted
        BY <3>1, <3>3 DEF ServerInv, HoldInv, ListInv, Sweeping, AtHand, Obsolete, UpgradeWanted
      <4>2. taken' = taken /\ cur \notin taken
        BY <1>0, <3>1, <4>1
      <4>3. ServerMailbox!Withdraw(cur)
        BY <3>1, <3>2, <3>3, <4>1, <4>2 DEF UpgradeWanted
      <4>4. QED BY <3>3, <4>3
    <3>4. CASE cur \notin offered
      <4>1. offered' = offered /\ taken' = taken
        BY <1>0, <3>1, <3>2, <3>4
      <4>2. QED BY <2>1, <3>1, <4>1
    <3>5. QED BY <3>3, <3>4
  <2>7. CASE HandOver /\ ~busy
    <3>1. /\ want \in Servers /\ wanted = want /\ offered \subseteq overlooked
          /\ handover' = [handover EXCEPT ![want] = "whole"]
          /\ lock' = lock /\ installed' = installed /\ want' = None /\ overlooked' = {}
          /\ handover[want] = "none"
      BY <1>0, <2>7 DEF HandOver, ServerInv, FetchInv, UpgradeWanted
    <3>2. lock[want] # "updatemgr"
      BY <3>1, LockedExists DEF CmdInv, CmdTypeOK
    <3>3. offered' = offered \cup {want} /\ taken' = taken
      BY <1>0, <3>1, <3>2
    <3>4. ServerMailbox!Offer(want)
      BY <3>1, <3>3 DEF UpgradeWanted
    <3>5. QED BY <3>1, <3>4
  <2>8. \/ /\ UNCHANGED <<handover, lock, installed>>
           /\ overlooked' = {} \/ UNCHANGED <<overlooked, want, current>>
        \/ GetWriteLock \/ CutShort \/ Unlink \/ (HandOver /\ ~busy)
        \/ \E r \in Repos : Open(r) \/ OpenFails(r)
    BY <1>9
    DEF ClientBeside, FailureBeside, Failure, Abort, ClientStep, StartRun, ListDownload, Prune,
        ListHandover, EndListing, FoundLocked, LockedByUpdatemgr, LockFails, UnlinkFails,
        EndSweep, Fetch, HandOver, ServerInv, FreshInv
  <2>9. QED BY <2>2, <2>3, <2>4, <2>5, <2>6, <2>7, <2>8
<1>10. QED
  BY <1>5, <1>6, <1>7, <1>8, <1>9
  DEF CmdNext, UninterruptedStep, UpdatemgrBeside, UpdatemgrStep, UpdatemgrTakesPart

(***************************************************************************)
(* Beside any number of commands, one after the other, the server's        *)
(* repositories are handed over as Handover says: offered with nothing     *)
(* beside them but what the run passed over, because its listing missed it *)
(* or it could not be opened, and never withdrawn once taken.              *)
(***************************************************************************)
THEOREM ServersImplementHandover == CmdSpec => ServersHandedOver
<1>1. CmdInit => ServerMailbox!Init
  BY DEF CmdInit, Init, ServerMailbox!Init, UpgradeWanted
<1>2. QED
  BY <1>1, ServerMailboxStep, CmdInvariant, ServerInvariant, PTL
  DEF CmdSpec, ServersHandedOver, ServerMailbox!Spec
=============================================================================
