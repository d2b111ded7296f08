------------------------------- MODULE SyncCmd ------------------------------
(***************************************************************************)
(* sync-cmd's "xenmgr upgrade URL" (pysynchronizer: cmd.py, objects.py,    *)
(* storage.py, http_fetcher.py) next to RepoUpgrade.  An administrator     *)
(* fetches a repository into the directory repo-download, of which         *)
(* sync-client believes that every file is its own, and renames it into    *)
(* repo, where updatemgr finds it.  The two programs do not know of each   *)
(* other: between any two calls of one the other may list, unlink or       *)
(* create files.                                                           *)
(***************************************************************************)
EXTENDS RepoUpgrade

CONSTANTS
  Url,      \* the file <uuid5(url)>.tar
  Partial,  \* the file <uuid5(url)>.tar.partial, which only repo-download has
  Size,     \* length of the repository at url, in download blocks
  EarlyEnd  \* whether a connection may end before all blocks have come

Own     == {Url, Partial}
Servers == Repos \ Own

ASSUME SyncCmdAssumption ==
  /\ Own \subseteq Repos /\ Url # Partial
  /\ Size \in Nat \ {0}
  /\ EarlyEnd \in BOOLEAN

VARIABLES
  cmd,      \* where the command is, "idle" when none runs
  offset,   \* where in the file the next block goes
  blocks,   \* the blocks written to the .partial file that was opened last
  length,   \* its length; what was not written is a hole
  gap,      \* where the first block goes if it vanished and was opened anew
  stale     \* who has a Url file open that is not the one of that name any more

partial == <<blocks, length, gap>>
command == <<cmd, offset, partial>>
others  == <<server, installed, run>>
cmdVars == <<vars, command, stale>>

CmdTypeOK ==
  /\ TypeOK
  /\ target \in Servers \cup {None}
  /\ cmd \in {"idle", "open", "stream", "replace", "rename", "apply", "move"}
  /\ offset \in 0 .. Size /\ length \in 0 .. Size
  /\ blocks \subseteq 1 .. Size
  /\ gap \in 0 .. Size
  /\ stale \subseteq {"client", "updatemgr"}
  /\ handover[Partial] = "none"
  /\ "client" \in stale => pc = "opened" /\ cur = Url

CmdInit ==
  /\ Init /\ target = None
  /\ cmd = "idle" /\ offset = 0
  /\ blocks = {} /\ length = 0 /\ gap = 0 /\ stale = {}

-----------------------------------------------------------------------------
(* Storage.fetch_using_partial and HttpFetcher.stream.                     *)

Stat ==
  /\ cmd = "idle"
  /\ offset' = IF download[Partial] = "none" THEN 0 ELSE length
  /\ cmd' = "open"
  /\ UNCHANGED <<partial, files, lock, others, stale>>

Ends == cmd' = "idle" /\ offset' = 0

\* Faulty: the download goes straight into repo.
OpenInHandover ==
  /\ cmd = "open"
  /\ handover' = [handover EXCEPT ![Partial] = "broken"]
  /\ IF offset < Size THEN cmd' = "stream" /\ UNCHANGED offset ELSE Ends
  /\ UNCHANGED <<partial, download, lock, others, stale>>

\* Faulty: what is there is truncated (O_TRUNC).
OpenTruncates ==
  /\ cmd = "open"
  /\ download' = [download EXCEPT ![Partial] = "partial"]
  /\ blocks' = {} /\ length' = 0 /\ gap' = IF download[Partial] = "none" THEN offset ELSE 0
  /\ IF offset < Size THEN cmd' = "stream" /\ UNCHANGED offset ELSE Ends
  /\ UNCHANGED <<handover, lock, others, stale>>

\* A range that starts behind the end is answered by an error (416).
OpenPartial ==
  /\ cmd = "open"
  /\ IF download[Partial] # "none" THEN UNCHANGED <<download, partial>>
     ELSE /\ download' = [download EXCEPT ![Partial] = "partial"]
          /\ blocks' = {} /\ length' = 0
          /\ gap' = IF offset < Size THEN offset ELSE 0
  /\ IF offset < Size THEN cmd' = "stream" /\ UNCHANGED offset ELSE Ends
  /\ UNCHANGED <<handover, lock, others, stale>>

\* An unlinked file goes on taking blocks; it only has no name.
Receive ==
  /\ cmd = "stream" /\ offset < Size
  /\ blocks' = blocks \cup {offset + 1}
  /\ length' = IF length < offset + 1 THEN offset + 1 ELSE length
  /\ offset' = offset + 1
  /\ UNCHANGED <<cmd, gap, files, lock, others, stale>>

\* response.read returns b'' at the end of the connection, early or not.
StreamEnds ==
  /\ cmd = "stream"
  /\ offset = Size \/ EarlyEnd
  /\ cmd' = "replace" /\ offset' = 0
  /\ UNCHANGED <<partial, files, lock, others, stale>>

UnlinkOld ==
  /\ cmd = "replace"
  /\ download' = [download EXCEPT ![Url] = "none"]
  /\ cmd' = "rename"
  /\ UNCHANGED <<offset, partial, handover, lock, others, stale>>

\* Faulty: the names are the wrong way round.
RenameSwapped ==
  /\ cmd = "rename"
  /\ IF download[Url] = "none" THEN Ends /\ UNCHANGED download
     ELSE /\ download' = [download EXCEPT ![Partial] = "partial", ![Url] = "none"]
          /\ cmd' = "apply" /\ UNCHANGED offset
  /\ UNCHANGED <<partial, handover, lock, others, stale>>

Rename ==
  /\ cmd = "rename"
  /\ IF download[Partial] = "none" THEN Ends /\ UNCHANGED <<download, partial>>
     ELSE /\ download' = [download EXCEPT ![Partial] = "none",
                            ![Url] = IF blocks = 1 .. Size THEN "whole" ELSE "partial"]
          /\ blocks' = {} /\ length' = 0 /\ gap' = 0
          /\ cmd' = "apply" /\ UNCHANGED offset
  /\ UNCHANGED <<handover, lock, others, stale>>

-----------------------------------------------------------------------------
(* Storage.apply_oxt_repo and XenMgr.upgrade, which does not look at what  *)
(* apply_oxt_repo returns.                                                 *)

ApplyExists ==
  /\ cmd = "apply"
  /\ IF handover[Url] # "none" THEN Ends
     ELSE cmd' = "move" /\ UNCHANGED offset
  /\ UNCHANGED <<partial, files, lock, others, stale>>

\* Whoever has the old file of that name open keeps the old file, and whoever
\* is listing the directory finds the new one or not.
Move ==
  /\ cmd = "move"
  /\ IF download[Url] = "none"
     THEN Ends /\ UNCHANGED <<files, lock, stale, listed>>
     ELSE /\ handover' = [handover EXCEPT
                            ![Url] = IF download[Url] = "whole" THEN "whole" ELSE "broken"]
          /\ download' = [download EXCEPT ![Url] = "none"]
          /\ stale' = stale \cup {p \in {"client"} : pc = "opened" /\ cur = Url}
                            \cup {p \in {"updatemgr"} : lock[Url] = p}
          /\ lock' = [lock EXCEPT ![Url] = None]
          /\ listed' \in {listed} \cup {listed \cup {p} : p \in {q \in {Url} : pc = "readdir" /\ Obsolete(q)}}
          /\ Ends
  /\ UNCHANGED <<partial, args, pc, cur, busy, overlooked, server, installed>>

\* Any call may raise, or the command be interrupted.
Stops ==
  /\ cmd # "idle"
  /\ Ends
  /\ UNCHANGED <<partial, files, lock, others, stale>>

-----------------------------------------------------------------------------
(* sync-client and updatemgr beside it.                                    *)

\* An updatemgr whose file is unlinked goes on with a file without a name.
ClientBeside ==
  /\ "client" \notin stale
  /\ ClientStep
  /\ stale' = stale \cup {p \in {"updatemgr"} : lock[Url] = p /\ lock'[Url] # p}
  /\ UNCHANGED command

\* The lock is one on the replaced file, the unlink will be by name.
LockStale ==
  /\ "client" \in stale
  /\ \/ pc' = "locked" /\ UNCHANGED <<cur, busy>>
     \/ "updatemgr" \in stale /\ pc' = "sweep" /\ cur' = None /\ busy' = TRUE
  /\ stale' = stale \ {"client"}
  /\ UNCHANGED <<args, listed, overlooked, files, lock, server, installed, command>>

FailureBeside ==
  /\ Failure
  /\ stale' = stale \ {"client"}
  /\ UNCHANGED command

UpdatemgrBeside ==
  /\ UpdatemgrStep
  /\ "updatemgr" \notin stale
  /\ UNCHANGED <<command, stale>>

FinishStale ==
  /\ "updatemgr" \in stale
  /\ installed' \in {installed, Url}
  /\ \/ /\ handover' = [handover EXCEPT ![Url] = "none"]
        /\ lock' = [lock EXCEPT ![Url] = None]
        /\ Shift(Url)
     \/ UNCHANGED <<handover, lock, listed, overlooked>>
  /\ stale' = stale \ {"updatemgr"}
  /\ UNCHANGED <<download, server, args, pc, cur, busy, command>>

ServerBeside ==
  /\ \E r \in Servers \cup {None} : Publish(r)
  /\ UNCHANGED <<command, stale>>

CommandStep ==
  \/ OpenPartial
  \/ Receive
  \/ StreamEnds
  \/ UnlinkOld
  \/ Rename
  \/ ApplyExists
  \/ Move

UninterruptedStep ==
  \/ Stat
  \/ CommandStep
  \/ ClientBeside
  \/ LockStale
  \/ UpdatemgrBeside
  \/ FinishStale
  \/ ServerBeside

CmdNext ==
  \/ UninterruptedStep
  \/ Stops
  \/ FailureBeside

CmdSpec == CmdInit /\ [][CmdNext]_cmdVars

(***************************************************************************)
(* As in RepoUpgrade; a command gets on, and from some time on nothing is  *)
(* interrupted and no call of sync-client's fails but for what others do.  *)
(* Nobody has to start a command.                                          *)
(***************************************************************************)
CmdFairness ==
  /\ WF_cmdVars(ClientBeside \/ LockStale)
  /\ SF_cmdVars(Fetch /\ pc' = "offer" /\ ClientBeside)
  /\ WF_cmdVars(UpdatemgrBeside \/ FinishStale)
  /\ \A r \in Servers : SF_cmdVars(Upgrade(r) /\ UNCHANGED <<command, stale>>)
  /\ WF_cmdVars(CommandStep)
  /\ <>[][UninterruptedStep]_cmdVars

CmdFairSpec == CmdSpec /\ CmdFairness

-----------------------------------------------------------------------------
(* Properties.                                                             *)

(***************************************************************************)
(* A command goes on exactly where the last one stopped: the blocks that   *)
(* are there have no gap, though sync-client may unlink the file under its *)
(* writer.  The antecedent is the exception: a file that sync-client       *)
(* removes between the stat and the open of one command begins with a gap, *)
(* since the offset stays.                                                 *)
(***************************************************************************)
NoGap == gap = 0 => blocks = 1 .. length

(***************************************************************************)
(* For the server's repositories, updatemgr and sync-client can rely on    *)
(* Handover whatever commands do beside them: no command, and no step of   *)
(* sync-client on a file that a command replaced, disturbs one that        *)
(* updatemgr took, or has another one offered next to it that the run has  *)
(* not passed over.  What commands put there makes the listing longer, and *)
(* so more likely to miss something.                                       *)
(***************************************************************************)
ServerMailbox == INSTANCE Handover WITH
  Repos      <- Servers,
  wanted     <- IF UpgradeWanted THEN want ELSE None,
  overlooked <- overlooked \cap Servers,
  offered    <- {r \in Servers : handover[r] = "whole"},
  taken      <- {r \in Servers : handover[r] = "whole" /\ lock[r] = "updatemgr"},
  installed  <- IF installed \in Servers THEN installed ELSE None

UpdatemgrTakesPart == UpdatemgrBeside \/ FinishStale

ServersHandedOver ==
  /\ ServerMailbox!Spec
  /\ [][UpdatemgrTakesPart \/ [ServerMailbox!Client]_(ServerMailbox!vars)]_cmdVars

(***************************************************************************)
(* The server has the last word: once no more commands are run, the target *)
(* is installed for good, whatever commands left in either directory and   *)
(* whatever sync-client missed when it listed them.                        *)
(***************************************************************************)
TargetWins ==
  <>[](cmd = "idle") /\ <>[]~RemovedSinceListing =>
    \A r \in Servers : <>[](target = r) => <>[](installed = r)

(***************************************************************************)
(* An administrator who repeats a command for ever gets a whole repository *)
(* handed over again and again, unless again and again the connection ends *)
(* early, sync-client is at removing the command's files as obsolete while *)
(* it runs, or sync-client brings back what updatemgr has just removed     *)
(* (RemovedSinceListing).  What else one command leaves to the next is in  *)
(* its way for a time only: a truncated file in either directory, one in   *)
(* repo that makes apply_oxt_repo give up, and a complete .partial file,   *)
(* for which the server has no range.                                      *)
(***************************************************************************)
PrunedBeneath == cmd # "idle" /\ pc = "prune" /\ listed \cap Own # {}

HandedOverWhole == Move /\ download[Url] = "whole"
EndedEarly      == StreamEnds /\ offset < Size

RetriesSucceed ==
  []<>(cmd = "open") =>
    \/ []<><<HandedOverWhole>>_cmdVars
    \/ []<><<EndedEarly>>_cmdVars
    \/ []<>PrunedBeneath
    \/ []<>RemovedSinceListing
=============================================================================
