----------------------------- MODULE MCPidFile ------------------------------
(* Instances of PidFile for TLC.                                           *)
EXTENDS PidFile, TLC

\* Processes are interchangeable, and so are inodes.
PidSymmetry == Permutations(Procs) \cup Permutations(Inodes)
=============================================================================
