---------------------------- MODULE PidFileProofs ---------------------------
(***************************************************************************)
(* Proofs about PidFile for any number of daemons and inodes.              *)
(***************************************************************************)
EXTENDS PidFile, TLAPS

USE PidFileAssumption

\* Whoever got past flock still holds the inode, and its pid stays in it.
LockInv ==
  /\ \A p \in Procs : pc[p] \in Locked => holder[fd[p]] = p
  /\ \A p \in Procs : pc[p] = "running" => content[fd[p]] = p

\* As long as nobody removes the name, everybody opened the same inode.
OneInode ==
  ~orderly => \A p \in Procs : (fd[p] # None => fd[p] = link) /\ pc[p] # "closed"

PidInv == TypeOK /\ LockInv

LEMMA PidInit == Init => PidInv
  BY DEF Init, PidInv, TypeOK, LockInv, Locked

LEMMA PidStep == PidInv /\ [Next]_vars => PidInv'
<1> SUFFICES ASSUME PidInv, [Next]_vars PROVE PidInv'
  OBVIOUS
<1> USE DEF PidInv, TypeOK, LockInv, Locked, Go
<1>1. ASSUME NEW p \in Procs, Step(p) PROVE PidInv'
  <2>1. ASSUME NEW i \in Inodes, Open(p, i) PROVE PidInv'
    BY <2>1 DEF Open, Free
  <2>2. CASE Lock(p)
    BY <2>2 DEF Lock
  <2>3. CASE Refused(p)
    BY <2>3 DEF Refused
  <2>4. CASE Truncate(p)
    BY <2>4 DEF Truncate
  <2>5. CASE Write(p)
    BY <2>5 DEF Write
  <2>6. CASE Close(p)
    BY <2>6 DEF Close, Release
  <2>7. CASE Remove(p)
    BY <2>7 DEF Remove
  <2>8. CASE Crash(p)
    BY <2>8 DEF Crash, Release
  <2>9. QED
    BY <1>1, <2>1, <2>2, <2>3, <2>4, <2>5, <2>6, <2>7, <2>8 DEF Step
<1>2. CASE UNCHANGED vars
  BY <1>2 DEF vars
<1>3. QED BY <1>1, <1>2 DEF Next

LEMMA PidInvariant == Spec => []PidInv
  BY PidInit, PidStep, PTL DEF Spec

(***************************************************************************)
(* Names, inodes, locks and program counters keep their types, however     *)
(* daemons start, are refused, leave and are killed.                       *)
(***************************************************************************)
THEOREM PidTypes == Spec => []TypeOK
<1>1. PidInv => TypeOK
  BY DEF PidInv
<1>2. QED BY <1>1, PidInvariant, PTL

(***************************************************************************)
(* The pid file never shows another pid than that of the daemon that holds *)
(* it, whatever refused starters and crashes happened before.              *)
(***************************************************************************)
THEOREM PidIsTrue == Spec => []PidTruth
<1>1. PidInv => PidTruth
  BY DEF PidInv, TypeOK, LockInv, PidTruth
<1>2. QED BY <1>1, PidInvariant, PTL

LEMMA OneInodeStep == PidInv /\ OneInode /\ [Next]_vars => OneInode'
<1> SUFFICES ASSUME PidInv, OneInode, [Next]_vars PROVE OneInode'
  OBVIOUS
<1> USE DEF PidInv, TypeOK, OneInode, Go
<1>1. ASSUME NEW p \in Procs, Step(p) PROVE OneInode'
  <2>1. ASSUME NEW i \in Inodes, Open(p, i) PROVE OneInode'
    BY <2>1 DEF Open, Free
  <2>2. CASE Lock(p) \/ Truncate(p) \/ Write(p)
    BY <2>2 DEF Lock, Truncate, Write
  <2>3. CASE Refused(p) \/ Crash(p)
    BY <2>3 DEF Refused, Crash, Release
  <2>4. CASE Close(p)
    BY <2>4 DEF Close
  <2>5. CASE Remove(p)
    BY <2>5 DEF Remove
  <2>6. QED BY <1>1, <2>1, <2>2, <2>3, <2>4, <2>5 DEF Step
<1>2. CASE UNCHANGED vars
  BY <1>2 DEF vars
<1>3. QED BY <1>1, <1>2 DEF Next

(***************************************************************************)
(* Two daemons never run at once if daemons only ever ended by being       *)
(* killed: flock on one inode excludes them, and nobody removed its name.  *)
(***************************************************************************)
THEOREM KilledExclude == Spec => []KilledDaemonsExclude
<1>1. Init => OneInode
  BY DEF Init, OneInode
<1>2. PidInv /\ OneInode /\ [Next]_vars => OneInode'
  BY OneInodeStep
<1>3. PidInv /\ OneInode => KilledDaemonsExclude
  BY DEF PidInv, TypeOK, LockInv, OneInode, MutualExclusion, KilledDaemonsExclude, Locked
<1>4. QED BY <1>1, <1>2, <1>3, PidInvariant, PTL DEF Spec
=============================================================================
