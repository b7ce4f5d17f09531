-------------------------- MODULE CompactionSegment --------------------------
(***************************************************************************)
(* suggest_compaction_segment() and reftable_stack_auto_compact()          *)
(* (reftable/stack.c): which tables of a stack to merge so that the sizes  *)
(* form a geometric sequence again, and what becomes of them.  Sizes are   *)
(* positive.  Sequences start at 1, the segment includes both of its       *)
(* ends.  Compactions of several processes at a time are in ReftableStack; *)
(* here another process only keeps tables locked.                          *)
(***************************************************************************)
EXTENDS Integers, Sequences, SequencesExt, FiniteSetsExt

CONSTANTS
  MaxTables, MaxBytes,   \* bounds on the stack
  MaxGrowth,             \* bound: how much larger than its parts a table can be
  Factors                \* opts.auto_compaction_factor; 0 asks for the default

VARIABLES
  sizes, factor,
  compacted    \* what the last step was: "no" compaction, or one of the "whole"
               \* segment, of "part" of it, or "none" was needed; the place of
               \* the merged table, and how its size compares to that of its parts

vars == <<sizes, factor, compacted>>

DEFAULT_GEOMETRIC_FACTOR == 2

Factor == IF factor = 0 THEN DEFAULT_GEOMETRIC_FACTOR ELSE factor

Total(s) == FoldSeq(LAMBDA a, b : a + b, 0, s)

NotCompacted == [did |-> "no", at |-> 0, grown |-> 0]

Init ==
  /\ factor \in Factors
  /\ sizes = <<>>
  /\ compacted = NotCompacted

\* The first loop: the youngest table that its predecessor is too small for
Ends == {i \in 2 .. Len(sizes) : sizes[i - 1] < sizes[i] * Factor}

\* Mutant: the first starting point that is found is taken.
StartNearest(end) ==
  Max({i \in 1 .. end - 1 : sizes[i] < Total(SubSeq(sizes, i + 1, end)) * Factor})

\* The second loop: "keep iterating even after we have found the first starting
\* point", with the accumulated size
Start(end) ==
  Min({i \in 1 .. end - 1 : sizes[i] < Total(SubSeq(sizes, i + 1, end)) * Factor})

\* suggest_compaction_segment()
SuggestSegment == IF Ends = {} THEN <<>> ELSE <<Start(Max(Ends)), Max(Ends)>>

\* stack_write_compact(): overwritten records are left out, and tombstones, too, if
\* the first table is among the parts, which may leave nothing at all; blocks are
\* laid out anew, which may take a little more.
MergedSizes(from, to) ==
  (IF from = 1 THEN 0 ELSE 1) .. Total(SubSeq(sizes, from, to)) + MaxGrowth

\* stack_compact_range(): an empty table is not added.
Compact(from, to, bytes, did) ==
  /\ sizes' = SubSeq(sizes, 1, from - 1) \o (IF bytes = 0 THEN <<>> ELSE <<bytes>>)
                \o SubSeq(sizes, to + 1, Len(sizes))
  /\ compacted' = [did |-> did, at |-> IF bytes = 0 THEN 0 ELSE from,
                   grown |-> bytes - Total(SubSeq(sizes, from, to))]

\* A transaction adds a table; its auto-compaction fails or is not wanted.
AddTable ==
  /\ Len(sizes) < MaxTables
  /\ \E n \in 1 .. MaxBytes - Total(sizes) : sizes' = Append(sizes, n)
  /\ compacted' = NotCompacted
  /\ UNCHANGED factor

\* Where the range begins that stack_compact_range() can lock.  Tables are locked from
\* the last to the first; if another process has locked one, "compact only the
\* tables that we have managed to lock so far", at least two.  Otherwise the
\* compaction fails, which changes nothing.
LockedFrom(start, end) == start .. end - 1

\* reftable_stack_auto_compact()
AutoCompact ==
  /\ compacted.did = "no"
  /\ \/ /\ SuggestSegment = <<>>
        /\ compacted' = [NotCompacted EXCEPT !.did = "none"]
        /\ UNCHANGED sizes
     \/ /\ SuggestSegment # <<>>
        /\ LET start == SuggestSegment[1]
               end == SuggestSegment[2]
           IN  \E first \in LockedFrom(start, end) : \E bytes \in MergedSizes(first, end) :
                 Compact(first, end, bytes, IF first = start THEN "whole" ELSE "part")
  /\ UNCHANGED factor

Next == AddTable \/ AutoCompact

Spec == Init /\ [][Next]_vars

-----------------------------------------------------------------------------
(* Properties *)

Geometric(i) == sizes[i - 1] >= sizes[i] * Factor

\* "the compaction segment needed to restore the geometric sequence": whatever was
\* added without compaction, one auto-compaction makes every table at least twice
\* (Factor times) as large as the next one.  What it cannot help is what merging
\* does to the size: a merged table that has shrunk may be too small for the one
\* after it, one that has grown too large for the one before it; and if tables
\* were locked, the ones up to the merged one are as they were.  (The segment
\* is not always the shortest that does: of 8, 4, 1, 1 all four are merged.)
RestoresGeometry ==
  compacted.did # "no" => \A i \in 2 .. Len(sizes) :
    \/ Geometric(i)
    \/ i = compacted.at + 1 /\ compacted.grown < 0
    \/ i = compacted.at /\ compacted.grown > 0
    \/ i <= compacted.at /\ compacted.did = "part"
=============================================================================
