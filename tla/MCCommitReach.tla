---------------------------- MODULE MCCommitReach ----------------------------
(* A line of history and a commit-graph with corrected committer dates. *)
EXTENDS CommitReach

MCHistories == {<<<<>>, <<1>>, <<2>>>>}
\* The root may be dated after the end of uint32_t.
MCDates == {<<d, 2, 3>> : d \in {1, 2, 6}}
MCGraphs == {[commits |-> 1 .. 3, version |-> v] : v \in {1, 2}}
MCQuestions == {[one |-> 3, others |-> <<2>>]}
==============================================================================
