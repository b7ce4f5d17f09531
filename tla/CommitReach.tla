----------------------------- MODULE CommitReach -----------------------------
(***************************************************************************)
(* Questions about the ancestry of commits (commit-reach.c): merge bases,  *)
(* "is an ancestor of", and which of several heads are not reachable from  *)
(* another.  The walks are ordered and cut short by committer dates, which *)
(* may be skewed, and by the generation numbers of a commit-graph          *)
(* (commit-graph.c), which may cover only the older part of the history.   *)
(* The walks leave marks on commits, which the next one must not find.     *)
(* Every commit can be parsed: the errors for missing ones are left out.   *)
(***************************************************************************)
EXTENDS Integers, Sequences, SequencesExt

CONSTANTS
  Histories,   \* functions from commits 1, 2 ... to the sequences of their parents
  Dates,       \* functions from commits to committer dates
  Graphs,      \* commit-graphs: which commits they cover, and their version
  Questions,   \* the arguments of the calls
  U32,         \* the range of uint32_t, 2^32 in the code
  V1Max        \* GENERATION_NUMBER_V1_MAX

VARIABLES
  parents, date, generation,   \* of each commit
  graph,
  flags,                       \* the marks on each commit
  call, result                 \* the last call and what it returned

history == <<parents, date, generation, graph>>
vars == <<history, flags, call, result>>

GENERATION_NUMBER_INFINITY == 2^30   \* 2^63 - 1 in the code
GENERATION_NUMBER_ZERO == 0

Commits == DOMAIN parents
Parents(c) == ToSet(parents[c])

-----------------------------------------------------------------------------
(* Generation numbers *)

\* compute_generation_from_max(): version 1, topological levels, which stop at a
\* maximum; version 2, corrected committer dates
GenerationFromMax(d, version, max_gen) ==
  IF version = 1 THEN IF max_gen > V1Max - 1 THEN V1Max ELSE max_gen + 1
  ELSE IF d > max_gen THEN d ELSE max_gen + 1

\* compute_reachable_generation_numbers(): max_gen has 32 bits.
Generations(par, d, g) ==
  LET computed[c \in DOMAIN par] ==
        GenerationFromMax(d[c], g.version,
          FoldLeft(LAMBDA max_gen, p : IF computed[p] > max_gen THEN computed[p] % U32
                                       ELSE max_gen, 0, par[c]))
  IN  [c \in DOMAIN par |-> IF c \in g.commits THEN computed[c]
                            ELSE GENERATION_NUMBER_INFINITY]

NoGraph == [commits |-> {}, version |-> 1]

Init ==
  /\ parents \in Histories /\ date \in Dates /\ graph = NoGraph
  /\ generation = [c \in Commits |-> GENERATION_NUMBER_INFINITY]
  /\ flags = [c \in Commits |-> {}]
  /\ call = [op |-> "none"] /\ result = <<>>

\* write_commit_graph(): the commits that were there when it ran
WriteCommitGraph ==
  /\ call.op = "none" /\ graph = NoGraph
  /\ graph' \in Graphs
  /\ generation' = Generations(parents, date, graph')
  /\ UNCHANGED <<parents, date, flags, call, result>>

\* generation_numbers_enabled(), corrected_commit_dates_enabled()
GenerationNumbersEnabled == graph.commits # {}
CorrectedCommitDatesEnabled == graph.commits # {} /\ graph.version = 2

-----------------------------------------------------------------------------
(* paint_down_to_common() *)

\* Does a come out of the queue before b, whatever the order they went in?
Precedes(byGeneration, a, b) ==
  IF byGeneration /\ generation[a] # generation[b] THEN generation[a] > generation[b]
  ELSE date[a] > date[b]

\* prio_queue_get(): the first of those that no other precedes
First(byGeneration, queue) ==
  CHOOSE i \in DOMAIN queue :
    /\ \A j \in DOMAIN queue : ~Precedes(byGeneration, queue[j], queue[i])
    /\ \A j \in 1 .. i - 1 : Precedes(byGeneration, queue[i], queue[j])

Mark(fl, commits, marks) ==
  [c \in DOMAIN fl |-> IF c \in commits THEN fl[c] \cup marks ELSE fl[c]]

\* The loop, with the marks, the queue and the commits found so far.  It ends
\* when only stale commits are queued, or below the smallest generation asked for.
RECURSIVE Painting(_, _, _)
Painting(byGeneration, min_generation, s) ==
  IF \A c \in ToSet(s.queue) : "STALE" \in s.flags[c] THEN s
  ELSE LET i == First(byGeneration, s.queue)
           c == s.queue[i]
           rest == RemoveAt(s.queue, i)
           painted == s.flags[c] \ {"RESULT"}
           common == painted = {"PARENT1", "PARENT2"}
           marks == IF common THEN painted \cup {"STALE"} ELSE painted
           fl == IF common THEN Mark(s.flags, {c}, {"RESULT"}) ELSE s.flags
           new == SelectSeq(parents[c], LAMBDA p : ~(marks \subseteq fl[p]))
       IN  IF min_generation # 0 /\ generation[c] > s.last_gen THEN [s EXCEPT !.bug = TRUE]
           ELSE IF generation[c] < min_generation THEN s
           ELSE Painting(byGeneration, min_generation,
                  [s EXCEPT !.queue = rest \o new, !.flags = Mark(fl, ToSet(new), marks),
                            !.found = IF fl # s.flags THEN Append(@, c) ELSE @,
                            !.last_gen = generation[c]])

\* commit_list_sort_by_date(), a stable sort
SortByDate(list) ==
  LET order == SetToSortSeq(DOMAIN list, LAMBDA i, j :
                 date[list[i]] > date[list[j]] \/ (date[list[i]] = date[list[j]] /\ i < j))
  IN  [k \in DOMAIN list |-> list[order[k]]]

PaintDownToCommon(one, twos, min_generation, fl) ==
  LET painted == Mark(Mark(fl, {one}, {"PARENT1"}), ToSet(twos), {"PARENT2"})
      start == [flags |-> painted, queue |-> <<one>> \o twos, found |-> <<>>,
                last_gen |-> GENERATION_NUMBER_INFINITY, bug |-> FALSE]
      end == Painting(min_generation # 0 \/ CorrectedCommitDatesEnabled, min_generation, start)
  IN  IF twos = <<>> THEN [start EXCEPT !.found = <<one>>]
      ELSE [end EXCEPT !.found = SortByDate(@)]

\* clear_commit_marks_many(): the walk goes on only through marked commits.
RECURSIVE Marked(_, _, _)
Marked(fl, marks, reached) ==
  LET next == {p \in UNION {Parents(c) : c \in reached} : fl[p] \cap marks # {}} \ reached
  IN  IF next = {} THEN reached ELSE Marked(fl, marks, reached \cup next)

\* Mutant: only the commits named are cleared.
ClearMarksHere(fl, commits, marks) ==
  [c \in DOMAIN fl |-> IF c \in commits THEN fl[c] \ marks ELSE fl[c]]

ClearMarks(fl, commits, marks) ==
  LET reached == Marked(fl, marks, {c \in commits : fl[c] \cap marks # {}})
  IN  [c \in DOMAIN fl |-> IF c \in reached THEN fl[c] \ marks ELSE fl[c]]

all_flags == {"PARENT1", "PARENT2", "STALE", "RESULT"}

-----------------------------------------------------------------------------
(* remove_redundant() *)

\* remove_redundant_no_gen(): each commit of the array against the others, as far
\* as they are not known to be redundant
RECURSIVE RedundantNoGen(_, _, _, _)
RedundantNoGen(array, i, redundant, fl) ==
  IF i > Len(array) THEN [array |-> SelectSeq(array, LAMBDA c : c \notin redundant), flags |-> fl]
  ELSE IF array[i] \in redundant THEN RedundantNoGen(array, i + 1, redundant, fl)
  ELSE LET work == SelectSeq(array, LAMBDA c : c \notin redundant \cup {array[i]})
           min_generation == Min({generation[c] : c \in ToSet(work) \cup {array[i]}})
           painted == PaintDownToCommon(array[i], work, min_generation, fl).flags
           found == {c \in {array[i]} : "PARENT2" \in painted[c]}
                      \cup {c \in ToSet(work) : "PARENT1" \in painted[c]}
       IN  RedundantNoGen(array, i + 1, redundant \cup found,
             ClearMarks(painted, ToSet(array) \ redundant, all_flags))

\* Ascending by generation, then by date: compare_commits_by_gen().  Commits
\* that are equal in both are in some order.
SortByGen(commits) ==
  SetToSortSeq(commits, LAMBDA a, b :
    \/ Precedes(TRUE, b, a)
    \/ ~Precedes(TRUE, a, b) /\ a < b)

\* Mutant: a commit of the smallest generation itself is not left any more.
TooOldOrEqual(c, min_generation) == generation[c] <= min_generation

\* Is there nothing to be found below c?
TooOld(c, min_generation) == generation[c] < min_generation

\* The depth-first walk from one parent: w.flags and w.left, the number of
\* commits that may still be independent; sorted[w.pos] is the one of the smallest
\* generation that is not known to be stale.
RECURSIVE Walking(_, _, _)
Walking(sorted, stack, w) ==
  IF stack = <<>> THEN w
  ELSE LET c == Head(stack)
           hit == "RESULT" \in w.flags[c]
           fl == IF hit THEN [w.flags EXCEPT ![c] = @ \ {"RESULT"}] ELSE w.flags
           left == IF hit THEN w.left - 1 ELSE w.left
           stillWanted == {k \in w.pos .. Len(sorted) : k = Len(sorted)
                                                        \/ "STALE" \notin fl[sorted[k]]}
           pos == IF hit /\ c = sorted[w.pos] THEN Min(stillWanted) ELSE w.pos
           next == SelectSeq(parents[c], LAMBDA p : "STALE" \notin fl[p])
       IN  IF hit /\ left <= 1 THEN [w EXCEPT !.flags = fl, !.left = left]
           ELSE IF TooOld(c, generation[sorted[pos]]) \/ next = <<>>
             THEN Walking(sorted, Tail(stack), [flags |-> fl, left |-> left, pos |-> pos])
           ELSE Walking(sorted, <<Head(next)>> \o stack,
                  [flags |-> Mark(fl, {Head(next)}, {"STALE"}), left |-> left, pos |-> pos])

\* One walk for each parent of the array, from the highest generation on
RECURSIVE WalkAll(_, _, _, _)
WalkAll(sorted, walk_start, i, w) ==
  IF i = 0 \/ w.left <= 1 THEN w
  ELSE LET c == walk_start[i]
       IN  WalkAll(sorted, walk_start, i - 1,
             Walking(sorted, <<c>>, [w EXCEPT !.flags = Mark(@, {c}, {"STALE"})]))

RedundantWithGen(array, fl) ==
  LET given == ToSet(array)
      starts == {p \in UNION {Parents(c) : c \in given} : "STALE" \notin fl[p]}
      w == WalkAll(SortByGen(given), SortByGen(starts), Len(SortByGen(starts)),
             [flags |-> Mark(fl, given, {"RESULT"}), left |-> Len(array), pos |-> 1])
  IN  [array |-> SelectSeq(array, LAMBDA c : "STALE" \notin w.flags[c]),
       flags |-> ClearMarks([c \in DOMAIN fl |-> IF c \in given THEN w.flags[c] \ {"RESULT"}
                                                 ELSE w.flags[c]], starts, {"STALE"})]

RemoveRedundant(array, fl) ==
  IF GenerationNumbersEnabled
     /\ \E c \in ToSet(array) : generation[c] < GENERATION_NUMBER_INFINITY
  THEN RedundantWithGen(array, fl)
  ELSE RedundantNoGen(array, 1, {}, fl)

-----------------------------------------------------------------------------
(* The calls *)

\* Mutant: what the painting found is the answer.
MergeBasesPainted(one, twos) ==
  LET found == PaintDownToCommon(one, twos, 0, flags)
  IN  [array |-> SelectSeq(found.found, LAMBDA c : "STALE" \notin found.flags[c]),
       flags |-> ClearMarks(found.flags, {one} \cup ToSet(twos), all_flags)]

\* get_merge_bases_many_0() with merge_bases_many()
MergeBases(one, twos) ==
  LET found == PaintDownToCommon(one, twos, 0, flags)
      list == SelectSeq(found.found, LAMBDA c : "STALE" \notin found.flags[c])
      cleared == ClearMarks(found.flags, {one} \cup ToSet(twos), all_flags)
      reduced == RemoveRedundant(list, cleared)
  IN  IF one \in ToSet(twos) THEN [array |-> <<one>>, flags |-> flags]
      ELSE IF Len(list) <= 1 THEN [array |-> list, flags |-> cleared]
      ELSE [reduced EXCEPT !.array = SortByDate(@)]

GetMergeBases(one, twos) ==
  /\ call' = [op |-> "bases", one |-> one, others |-> twos]
  /\ result' = MergeBases(one, twos).array
  /\ flags' = MergeBases(one, twos).flags
  /\ UNCHANGED history

\* Mutant: the walk stops at the generation of the commit itself.
InMergeBasesManyAbove(commit, reference) ==
  LET painted == PaintDownToCommon(commit, reference, generation[commit] + 1, flags)
  IN  /\ call' = [op |-> "ancestor", one |-> commit, others |-> reference]
      /\ result' = IF "PARENT2" \in painted.flags[commit] THEN <<commit>> ELSE <<>>
      /\ flags' = ClearMarks(painted.flags, {commit} \cup ToSet(reference), all_flags)
      /\ UNCHANGED history

\* repo_in_merge_bases_many(): is the commit an ancestor of one of the others?
InMergeBasesMany(commit, reference) ==
  LET painted == PaintDownToCommon(commit, reference, generation[commit], flags)
      tooYoung == \A r \in ToSet(reference) : generation[commit] > generation[r]
  IN  /\ call' = [op |-> IF ~tooYoung /\ painted.bug THEN "BUG" ELSE "ancestor",
                  one |-> commit, others |-> reference]
      /\ result' = IF ~tooYoung /\ "PARENT2" \in painted.flags[commit] THEN <<commit>>
                   ELSE <<>>
      /\ flags' = IF tooYoung THEN flags
                  ELSE ClearMarks(painted.flags, {commit} \cup ToSet(reference), all_flags)
      /\ UNCHANGED history

\* reduce_heads(); the heads are different ones, and what making them unique
\* marks it clears.
ReduceHeads(one, others) ==
  LET heads == <<one>> \o others
      reduced == RemoveRedundant(heads,
                   [c \in Commits |-> IF c \in ToSet(heads) THEN flags[c] \ {"STALE"}
                                      ELSE flags[c]])
  IN  /\ call' = [op |-> "reduce", one |-> one, others |-> others]
      /\ result' = reduced.array
      /\ flags' = reduced.flags
      /\ UNCHANGED history

\* Bound: one call, from commits without marks.  MarksCleared says that the next
\* one starts like it.
Ask ==
  /\ call.op = "none"
  /\ \E q \in Questions :
       \/ GetMergeBases(q.one, q.others)
       \/ InMergeBasesMany(q.one, q.others)
       \/ ReduceHeads(q.one, q.others)

Next == WriteCommitGraph \/ Ask

Spec == Init /\ [][Next]_vars

-----------------------------------------------------------------------------
(* Properties *)

\* Reference definitions: all ancestors of a commit, itself included, and the
\* members of a set that no other member can reach
Ancestors == LET up[c \in Commits] == {c} \cup UNION {up[p] : p \in Parents(c)} IN up
Independent(S) == {c \in S : \A d \in S \ {c} : c \notin Ancestors[d]}

\* The commits that a call may reach from its arguments other than the first
Reached == UNION {Ancestors[c] : c \in ToSet(call.others)}

NoDuplicates == Cardinality(ToSet(result)) = Len(result)

\* Merge bases are exactly the best common ancestors, each once, however skewed
\* the dates are and whatever part of the history the commit-graph covers: what
\* the painting finds too much remove_redundant() takes away.
MergeBasesRight ==
  call.op = "bases" =>
    ToSet(result) = Independent(Ancestors[call.one] \cap Reached) /\ NoDuplicates

\* repo_in_merge_bases_many() stops at the generation of the commit and still
\* finds every path to it; the generations it meets never increase ("bad
\* generation skip").
AncestorRight ==
  /\ call.op # "BUG"
  /\ call.op = "ancestor" => (result = <<call.one>>) = (call.one \in Reached)

\* reduce_heads() keeps the heads that no other head reaches, in both versions
\* of remove_redundant(), the one that raises its limit as it goes on included.
HeadsIndependent ==
  call.op = "reduce" =>
    ToSet(result) = Independent({call.one} \cup ToSet(call.others)) /\ NoDuplicates

\* A call leaves no mark behind for the next one.
MarksCleared == \A c \in Commits : flags[c] = {}

\* "The property applies to both versions of generation number"
\* (Documentation/technical/commit-graph.adoc): a commit has a greater number
\* than its parents, below the maximum of topological levels.
GenerationsIncrease ==
  \A c \in graph.commits : \A p \in Parents(c) :
    generation[c] > generation[p] \/ (graph.version = 1 /\ generation[p] = V1Max)
=============================================================================
