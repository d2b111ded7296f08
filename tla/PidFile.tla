------------------------------ MODULE PidFile -------------------------------
(***************************************************************************)
(* class PidFile of sync_client/launcher.py: how sync-client-daemon tries  *)
(* to run at most once.  The processes share the name of one file; what    *)
(* they lock is the inode the name meant when they opened it.              *)
(***************************************************************************)
CONSTANTS
  Procs,    \* sync-client-daemon processes
  Inodes,   \* inodes the file system can give the pid file
  None

ASSUME PidFileAssumption == None \notin Procs \cup Inodes

VARIABLES
  link,     \* the inode that PID_FILE names, or None
  holder,   \* inode -> the process that has it flocked
  content,  \* inode -> the process whose pid is in it
  pc,
  fd,       \* the inode behind self.file
  orderly   \* has any daemon ever left its "with" block? If not, they were killed

vars == <<link, holder, content, pc, fd, orderly>>

Locked == {"locked", "truncated", "running"}

TypeOK ==
  /\ link \in Inodes \cup {None}
  /\ holder \in [Inodes -> Procs \cup {None}]
  /\ content \in [Inodes -> Procs \cup {None}]
  /\ pc \in [Procs -> {"idle", "opened", "closed"} \cup Locked]
  /\ fd \in [Procs -> Inodes \cup {None}]
  /\ orderly \in BOOLEAN
  /\ \A p \in Procs : fd[p] = None <=> pc[p] \in {"idle", "closed"}

Init ==
  /\ link = None
  /\ holder = [i \in Inodes |-> None]
  /\ content = [i \in Inodes |-> None]
  /\ pc = [p \in Procs |-> "idle"]
  /\ fd = [p \in Procs |-> None]
  /\ orderly = FALSE

Go(p, where) == pc' = [pc EXCEPT ![p] = where]

Free(i) == link # i /\ \A p \in Procs : fd[p] # i

\* Faulty: the file is opened with "w" and so emptied before it is locked.
OpenTruncating(p, i) ==
  /\ pc[p] = "idle"
  /\ IF link = None THEN Free(i) ELSE i = link
  /\ link' = i
  /\ content' = [content EXCEPT ![i] = None]
  /\ fd' = [fd EXCEPT ![p] = i]
  /\ Go(p, "opened")
  /\ UNCHANGED <<holder, orderly>>

Open(p, i) ==
  /\ pc[p] = "idle"
  /\ IF link = None THEN Free(i) ELSE i = link
  /\ link' = i
  /\ content' = IF link = None THEN [content EXCEPT ![i] = None] ELSE content
  /\ fd' = [fd EXCEPT ![p] = i]
  /\ Go(p, "opened")
  /\ UNCHANGED <<holder, orderly>>

\* Faulty: a shared lock.
LockShared(p) ==
  /\ pc[p] = "opened"
  /\ holder' = [holder EXCEPT ![fd[p]] = p]
  /\ Go(p, "locked")
  /\ UNCHANGED <<link, content, fd, orderly>>

Lock(p) ==
  /\ pc[p] = "opened"
  /\ holder[fd[p]] = None
  /\ holder' = [holder EXCEPT ![fd[p]] = p]
  /\ Go(p, "locked")
  /\ UNCHANGED <<link, content, fd, orderly>>

\* "another instance is already running"
Refused(p) ==
  /\ pc[p] = "opened"
  /\ holder[fd[p]] # None
  /\ fd' = [fd EXCEPT ![p] = None]
  /\ Go(p, "idle")
  /\ UNCHANGED <<link, holder, content, orderly>>

Truncate(p) ==
  /\ pc[p] = "locked"
  /\ content' = [content EXCEPT ![fd[p]] = None]
  /\ Go(p, "truncated")
  /\ UNCHANGED <<link, holder, fd, orderly>>

Write(p) ==
  /\ pc[p] = "truncated"
  /\ content' = [content EXCEPT ![fd[p]] = p]
  /\ Go(p, "running")
  /\ UNCHANGED <<link, holder, fd, orderly>>

\* Closing the descriptor, also by dying, gives the lock back.
Release(p) ==
  /\ holder' = [i \in Inodes |-> IF holder[i] = p THEN None ELSE holder[i]]
  /\ fd' = [fd EXCEPT ![p] = None]

\* Faulty: the file is removed but never closed.
CloseNot(p) ==
  /\ pc[p] = "running"
  /\ orderly' = TRUE
  /\ Go(p, "closed")
  /\ UNCHANGED <<link, holder, content, fd>>

Close(p) ==
  /\ pc[p] = "running"
  /\ orderly' = TRUE
  /\ Release(p)
  /\ Go(p, "closed")
  /\ UNCHANGED <<link, content>>

\* os.remove takes whatever file has the name by now; without one it raises.
Remove(p) ==
  /\ pc[p] = "closed"
  /\ link' = None
  /\ Go(p, "idle")
  /\ UNCHANGED <<holder, content, fd, orderly>>

Crash(p) ==
  /\ pc[p] # "idle"
  /\ Release(p)
  /\ Go(p, "idle")
  /\ UNCHANGED <<link, content, orderly>>

Step(p) ==
  \/ \E i \in Inodes : Open(p, i)
  \/ Lock(p)
  \/ Refused(p)
  \/ Truncate(p)
  \/ Write(p)
  \/ Close(p)
  \/ Remove(p)
  \/ Crash(p)

Next == \E p \in Procs : Step(p)

Spec == Init /\ [][Next]_vars

-----------------------------------------------------------------------------
(* Properties.                                                             *)

(***************************************************************************)
(* "another instance is already running": at most one daemon runs.  The    *)
(* code does not keep this once a daemon has exited in an orderly way,     *)
(* because it closes the file before it removes the name.                  *)
(***************************************************************************)
MutualExclusion ==
  \A p, q \in Procs : pc[p] = "running" /\ pc[q] = "running" => p = q

(***************************************************************************)
(* As long as daemons only end by being killed, at most one of them runs,  *)
(* whatever was left in the file and however starts and deaths interleave. *)
(***************************************************************************)
KilledDaemonsExclude == ~orderly => MutualExclusion

(***************************************************************************)
(* Whoever reads the pid file while the daemon that locked it runs finds   *)
(* that daemon's pid, whatever refused or dying starters did to the file.  *)
(***************************************************************************)
PidTruth ==
  \A p \in Procs : pc[p] = "running" /\ link = fd[p] => content[link] = p
=============================================================================
