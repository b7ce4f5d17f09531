----------------------------- MODULE MCFsMonitor -----------------------------
(* Instances of the file system monitor for TLC. *)
EXTENDS FsMonitor, TLC

CONSTANTS c1, c2, p1, p2

MCSymmetry == Permutations({c1, c2}) \cup Permutations({p1, p2})

==============================================================================
