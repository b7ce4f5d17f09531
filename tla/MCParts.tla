------------------------------- MODULE MCParts -------------------------------
(***************************************************************************)
(* Seven components that do not interact, side by side: a behaviour is one *)
(* of LockFile, LockBackoff, RacyIndex, ObjectStore, CompactionSegment,    *)
(* CommitReach or Fetch, as `part' says; the variables of the others keep  *)
(* their initial value, which is None where a part has many.               *)
(***************************************************************************)
EXTENDS LockFile, LockBackoff, RacyIndex, TLC

CONSTANTS a, b, None   \* model values

VARIABLES
  part,
  \* git prune
  loose, packed, packTime, head, target, wrote, prune, seen, unvisited,
  doomed, spared, sound, raced,
  \* auto-compaction
  sizes, factor, compacted,
  \* merge bases
  parents, date, generation, graph, flags, call, answer,
  \* fetch
  history, refs, objects, server, shrunk, ref, state, complete, ns, common, haves, inVain,
  seenAck, told, request, response

-----------------------------------------------------------------------------
(* The constants of the first three, and the instances of the others *)

\* Once only, the shortest timeouts, core.filesRefLockTimeout,
\* core.packedRefsTimeout, one that reaches the longest gap, and a caller that
\* never gives up; the ends of the range of the jitter
MCTimeouts == {-1, 0, 1, 2, 100, 1000, 15000}
MCJitters == {0, 499}

\* Two contents of the same size, a longer and the empty one
MCSize == ("empty" :> 0 @@ "a" :> 1 @@ "b" :> 1 @@ "ab" :> 2)
MCContents == DOMAIN MCSize
MCHead == [c \in MCContents |->
  [size \in 0 .. MCSize[c] |-> CASE size = 0 -> "empty" [] size = MCSize[c] -> c [] OTHER -> "a"]]

\* A commit, its tree and its blob
MCLinks == ("commit" :> {"tree"} @@ "tree" :> {"blob"} @@ "blob" :> {})

Odb == INSTANCE ObjectStore WITH
  Objects <- DOMAIN MCLinks, Links <- MCLinks, Refs <- {"ref"}, Writers <- {"writer"},
  ref <- head

Segment == INSTANCE CompactionSegment WITH MaxTables <- 5, MaxBytes <- 12, MaxGrowth <- 1, Factors <- {0, 3}

\* Every history of five commits with at most two parents each, the committer
\* dates of the oldest two right or wrong, a commit-graph of some or all of it;
\* topological levels reach their maximum.
Lists(c) ==
  {<<>>} \cup {<<p>> : p \in 1 .. c - 1}
    \cup {pq \in (1 .. c - 1) \X (1 .. c - 1) : pq[1] > pq[2]}
Reach == INSTANCE CommitReach WITH
  Histories <- {<<p1, p2, p3, p4, p5>> :
    p1 \in Lists(1), p2 \in Lists(2), p3 \in Lists(3), p4 \in Lists(4), p5 \in Lists(5)},
  Dates <- {<<d1, d2, 1, 2, 2>> : d1 \in 1 .. 2, d2 \in 1 .. 2},
  Graphs <- {[commits |-> 1 .. k, version |-> v] : k \in {3, 5}, v \in {1, 2}},
  Questions <- {[one |-> 5, others |-> <<4>>], [one |-> 3, others |-> <<5>>],
                [one |-> 4, others |-> <<5, 3>>]},
  U32 <- 100, V1Max <- 3, result <- answer

\* Every history of four commits, the clocks right or wrong
N == 4
MCHistories ==
  {[parents |-> p, date |-> d] :
     p \in {p \in [1 .. N -> SUBSET (1 .. N)] : \A c \in 1 .. N : p[c] \subseteq 1 .. c - 1},
     d \in {[c \in 1 .. N |-> c], [c \in 1 .. N |-> N + 1 - c]}}
Nego == INSTANCE Fetch WITH
  Commits <- 1 .. N, Histories <- MCHistories, MaxTips <- 2, InitialFlush <- 1, MaxInVain <- 2

odbVars == <<loose, packed, packTime, head, target, wrote, prune, seen, unvisited,
             doomed, spared, sound, raced>>
segmentVars == <<sizes, factor, compacted>>
reachVars == <<parents, date, generation, graph, flags, call, answer>>
negoVars == <<history, refs, objects, server, shrunk, ref, state, complete, ns, common,
              haves, inVain, seenAck, told, request, response>>

partsVars == <<part, vars, backoffVars, indexVars, odbVars, segmentVars, reachVars, negoVars>>

NoReach ==
  /\ parents = None /\ date = None /\ generation = None /\ graph = None
  /\ flags = None /\ call = None /\ answer = None

NoNego ==
  /\ history = None /\ refs = None /\ objects = None /\ server = None
  /\ shrunk = None /\ ref = None /\ state = None /\ complete = None
  /\ ns = None /\ common = None /\ haves = None /\ inVain = None
  /\ seenAck = None /\ told = None /\ request = None /\ response = None

PartsInit ==
  /\ part \in {"lockfile", "backoff", "index", "odb", "segment", "reach", "nego"}
  /\ Init /\ BackoffInit /\ IndexInit /\ Odb!Init /\ Segment!Init
  /\ part # "lockfile" => file = a
  /\ part # "backoff" => timeout = 0
  /\ packed \in {{}, {"tree"}, {"blob"}}   \* bound: one packed object at most
  /\ part # "odb" => packed = {} /\ \A o \in DOMAIN MCLinks : loose[o] = "none"
  /\ part # "segment" => factor = 0
  /\ IF part = "reach" THEN Reach!Init ELSE NoReach
  /\ IF part = "nego" THEN Nego!Init ELSE NoNego

LockFileStep ==
  /\ part = "lockfile"
  /\ NextOutside
  /\ UNCHANGED <<part, backoffVars, indexVars, odbVars, segmentVars, reachVars, negoVars>>

BackoffStep ==
  /\ part = "backoff"
  /\ BackoffNext
  /\ UNCHANGED <<part, vars, indexVars, odbVars, segmentVars, reachVars, negoVars>>

IndexStep ==
  /\ part = "index"
  /\ IndexNext
  /\ UNCHANGED <<part, vars, backoffVars, odbVars, segmentVars, reachVars, negoVars>>

OdbStep ==
  /\ part = "odb"
  /\ Odb!Next
  /\ UNCHANGED <<part, vars, backoffVars, indexVars, segmentVars, reachVars, negoVars>>

SegmentStep ==
  /\ part = "segment"
  /\ Segment!Next
  /\ UNCHANGED <<part, vars, backoffVars, indexVars, odbVars, reachVars, negoVars>>

ReachStep ==
  /\ part = "reach"
  /\ Reach!Next
  /\ UNCHANGED <<part, vars, backoffVars, indexVars, odbVars, segmentVars, negoVars>>

NegoStep ==
  /\ part = "nego"
  /\ Nego!Next
  /\ UNCHANGED <<part, vars, backoffVars, indexVars, odbVars, segmentVars, reachVars>>

\* The lock is taken or given up; the stack is full; the one call has returned.
Finished ==
  /\ \/ part = "backoff" /\ result # "trying"
     \/ part = "segment" /\ compacted.did # "no"
     \/ part = "reach" /\ call.op # "none"
  /\ UNCHANGED partsVars

PartsNext ==
  \/ LockFileStep \/ BackoffStep \/ IndexStep \/ OdbStep \/ SegmentStep
  \/ ReachStep \/ NegoStep \/ Finished

PartsSpec == PartsInit /\ [][PartsNext]_partsVars

-----------------------------------------------------------------------------
(* Properties of the parts *)

\* Prune keeps what is recent with all it refers to, what the refs lead to that are
\* not changed meanwhile or are set to what a command has just written, and what a
\* command has written, unless it freshens an object between lstat() and unlink().
NothingNeededPruned ==
  part = "odb" => Odb!RecentKept /\ Odb!SoundRefsIntact /\ Odb!WrittenKept

\* Auto-compaction restores the geometric sequence of table sizes.
RestoresGeometry == part = "segment" => Segment!RestoresGeometry

\* Merge bases, the test for an ancestor and the independent heads agree with
\* their definitions, and none of the walks leaves a mark for the next one.
AnswersRight ==
  part = "reach" =>
    /\ Reach!MergeBasesRight /\ Reach!AncestorRight /\ Reach!HeadsIndependent
    /\ Reach!MarksCleared

\* A fetch brings the whole history of what was asked for and, after a complete
\* negotiation, nothing the client has; client and server agree what comes next,
\* and the negotiator's count of commits that are not common is exact.
FetchRight ==
  part = "nego" =>
    Nego!FetchComplete /\ Nego!NothingTwice /\ Nego!InStep /\ Nego!CounterExact

\* No request repeats what the server was told, so the negotiation ends.
EveryRequestTells ==
  [][part = "nego" /\ request' # <<>> /\ request' # request =>
       request'[1].done \/ told' # told]_partsVars
=============================================================================
