------------------------------ MODULE MCLockFile ------------------------------
EXTENDS LockFile, TLC

CONSTANTS p1, p2, p3, a, b

\* Neither processes nor contents are told apart.
Interchangeable == Permutations(Procs) \cup Permutations(Values)
=============================================================================
