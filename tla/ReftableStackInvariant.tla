---------------------- MODULE ReftableStackInvariant -----------------------
(***************************************************************************)
(* The inductive invariant of ReftableStack: what the label of a process   *)
(* implies for its own variables, for the locks it holds and for what it   *)
(* knows of the list and of the files.                                     *)
(***************************************************************************)
EXTENDS ReftableStack

-----------------------------------------------------------------------------
(* The inductive invariant, process by process *)

Reloading(p) == pc[p] \in {"readlist", "opentables", "unlinkold", "recheck"}

Compacting(p) == pc[p] \in {"locktables", "relock", "rename", "replace"}

\* What the label of p says of its other local variables
Control(p) ==
  /\ ~alive[p] => pc[p] = "idle"
  /\ Reloading(p) => ret[p] \in {"locked", "compact", "compacted", "read", "release"}
  /\ Reloading(p) /\ ret[p] # "release" => open[p]
  /\ pc[p] \in {"lock", "locked", "prepared", "commit", "compact", "compacted"} => open[p]
  /\ Compacting(p) => open[p]
  /\ dead[p] # {} => pc[p] = "unlinkold"
  /\ new[p] # 0 => pc[p] \in {"commit", "replace", "undo"}
  /\ pc[p] \in {"commit", "undo"} => new[p] # 0
  /\ pc[p] = "read" \/ (Reloading(p) /\ ret[p] = "read") => op[p] = "read"

\* The range to compact lies in the stack, and has been locked from the end.
InRange(p) ==
  Compacting(p) =>
    /\ 1 <= first[p] /\ first[p] <= last[p] /\ last[p] <= Len(st[p])
    /\ first[p] <= idx[p] + 1 /\ idx[p] <= last[p]
    /\ pc[p] # "locktables" => idx[p] + 1 = first[p]

\* p is between locking tables.list and unlocking it
HoldsList(p) ==
  \/ pc[p] \in {"locked", "prepared", "commit", "undo", "locktables", "rename",
                "replace", "cleaning"}
  \/ Reloading(p) /\ ret[p] = "locked"

\* p has replaced the range, and the tables it has locked are not listed any more
Replacing(p) == pc[p] = "compacted" \/ (Reloading(p) /\ ret[p] = "compacted")

\* The locks p relies on are its own, and what it owns it will release.
OwnLocks(p) ==
  /\ HoldsList(p) => listLock = p
  /\ alive[p] /\ listLock = p => HoldsList(p) \/ pc[p] = "release"
  /\ alive[p] /\ (\E t \in 1 .. MaxTables : tabLock[t] = p) =>
       Compacting(p) \/ Replacing(p) \/ pc[p] \in {"undo", "release"}
  /\ Compacting(p) =>
       \A t \in 1 .. MaxTables :
         tabLock[t] = p <=> \E i \in idx[p] + 1 .. last[p] : st[p][i] = t

\* How the stack and the names p has loaded compare with the list
Loaded(p) ==
  /\ pc[p] \in {"locked", "prepared", "commit", "cleaning", "locktables"} => st[p] = list
  /\ pc[p] \in {"rename", "replace"} => names[p] = list
  /\ Reloading(p) /\ ret[p] = "locked" =>
       /\ pc[p] # "recheck"
       /\ pc[p] = "readlist" => tries[p] = 0
       /\ pc[p] = "opentables" => names[p] = list
       /\ pc[p] = "unlinkold" => st[p] = list
  /\ pc[p] = "opentables" => Listed(st[p]) \cap Listed(list) \subseteq Listed(names[p])

\* What p will unlink is not listed, and what it missed is gone for good.
Unlisted(p) ==
  /\ dead[p] \cap Listed(list) = {}
  /\ Replacing(p) => \A t \in 1 .. MaxTables : tabLock[t] = p => t \notin Listed(list)
  /\ pc[p] = "recheck" => ~(Listed(names[p]) \subseteq files)

\* The table p has written is there, and nobody else knows of it.
Pending(p) ==
  new[p] # 0 =>
    /\ new[p] \in files \ Listed(list) /\ tabLock[new[p]] = Nobody
    /\ \A q \in Procs : new[p] \notin Listed(st[q]) \cup Listed(names[q]) \cup dead[q]

\* The range p compacts is in the list, at the bottom if it was at the bottom.
RangeKept(p) ==
  pc[p] \in {"relock", "rename", "replace"} =>
    \E o \in Offsets(p, list) : first[p] = 1 => o = 1

\* What takes the place of the range: nothing if no record is left
Mid(p) == IF new[p] = 0 THEN <<>> ELSE <<new[p]>>

\* Every listed table is there, once; a table is not locked before it exists.
Directory ==
  /\ ListedTablesExist
  /\ \A i, j \in DOMAIN list : list[i] = list[j] => i = j
  /\ \A t \in 1 .. MaxTables : t > Len(tab) => tabLock[t] = Nobody

Local(p) ==
  Control(p) /\ InRange(p) /\ OwnLocks(p) /\ Loaded(p) /\ Unlisted(p) /\ Pending(p)
    /\ RangeKept(p)

IInv == TypeOK /\ Directory /\ \A p \in Procs : Local(p)

=============================================================================
