----------------------------- MODULE MCLockFile -----------------------------
(* LockFile on small sets of processes and inodes.                         *)
EXTENDS LockFile, TLC

\* Processes and inodes are interchangeable; no invariant names one of them.
Symmetry == Permutations(Writer) \cup Permutations(Inode)
=============================================================================
