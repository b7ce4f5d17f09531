------------------------------ MODULE MCThreads ------------------------------
(***************************************************************************)
(* Five components that wait for threads or processes and do not interact, *)
(* side by side: a behaviour is one of ProcessPool, GrepThreads,           *)
(* DeltaThreads, ReftableStack or FilesRefs, the last two without          *)
(* failures, as `part' says; the variables of the others keep their        *)
(* initial values.                                                         *)
(***************************************************************************)
EXTENDS Integers, TLC

CONSTANTS a, b, r1, o1, o2, NULL, ANY, KEEP, Nobody   \* model values

VARIABLES
  part,
  \* run_processes_parallel()
  loop, spawned, next, state, task, err, nr_processes, shutdown, output_owner,
  buffered_output, stderr, pipe, held, wrote,
  \* git grep
  todo, todo_start, todo_end, todo_done, all_work_added, skip_first_line, adder, added,
  at, work, asleep, hits, stdout,
  \* git pack-objects
  mode, hash, p, searcher, cursor, idle, divider, target, sub_size, active_threads, taken,
  \* the reftable stack
  tab, files, list, listLock, tabLock, alive, stage, op, open, st, names, tries, ret, dead,
  tx, new, first, last, idx, lists,
  \* the files backend
  loose, packed, packedNew, newBy, refLock, packedLock, logTip, living, pc, job, txn, visit,
  cur, old, isPacked, snap, cache, broken, toPrune, retries, seen, warned

-----------------------------------------------------------------------------
(* The instances *)

Pool == INSTANCE ProcessPool WITH
  Processes <- 2, Tasks <- 3, SpawnCap <- 4, MaxPieces <- 2,
  pc <- loop, open <- held

\* The ring is filled more than once.
Grep == INSTANCE GrepThreads WITH Workers <- {"w1", "w2"}, Items <- 5, TODO_SIZE <- 3, main <- adder

\* All names the same, and names of three objects each, the first without a hash
MCHashes == {[k \in 0 .. 9 |-> 1], [k \in 0 .. 9 |-> k \div 3]}

\* The first of three threads gets no objects; work is stolen several times.
Delta == INSTANCE DeltaThreads WITH
  Threads <- 3, Items <- 10, Window <- 1, Hashes <- MCHashes,
  pc <- searcher, asleep <- idle, main <- divider

\* Two tables for one reference, and a transaction that deletes it
T(n, v) == [min |-> n, max |-> n, recs |-> r1 :> v]
Stack == INSTANCE ReftableStack WITH
  Writers <- {a}, Packers <- {b}, Readers <- {a}, Refs <- {r1}, Oids <- {o1, o2},
  Transactions <- {r1 :> [old |-> o2, new |-> NULL]},
  InitTables <- <<T(1, o1), T(2, o2)>>, MaxTables <- 4, MaxTries <- 1, Faulty <- {},
  pc <- stage

\* pack-refs --auto, reads and updates of the same reference
Files == INSTANCE FilesRefs WITH
  Writers <- {a, b}, Packers <- {b}, Readers <- {a}, Refs <- {r1}, Oids <- {o1},
  Updates <- {[old |-> ANY, new |-> o1], [old |-> ANY, new |-> NULL]},
  PackModes <- {"auto"}, Faults <- FALSE,
  alive <- living, op <- job, tx <- txn, todo <- visit, tries <- retries

poolVars == <<loop, spawned, next, state, task, err, nr_processes, shutdown,
              output_owner, buffered_output, stderr, pipe, held, wrote>>
grepVars == <<todo, todo_start, todo_end, todo_done, all_work_added, skip_first_line, adder,
              added, at, work, asleep, hits, stdout>>
deltaVars == <<mode, hash, p, searcher, cursor, idle, divider, target, sub_size,
               active_threads, taken>>
stackVars == <<tab, files, list, listLock, tabLock, alive, stage, op, open, st, names, tries,
               ret, dead, tx, new, first, last, idx, lists>>
filesVars == <<loose, packed, packedNew, newBy, refLock, packedLock, logTip, living, pc, job,
               txn, visit, cur, old, isPacked, snap, cache, broken, toPrune, retries, seen, warned>>

partsVars == <<part, poolVars, grepVars, deltaVars, stackVars, filesVars>>

PartsInit ==
  /\ part \in {"pool", "grep", "delta", "stack", "files"}
  /\ Pool!Init /\ Grep!Init /\ Delta!Init /\ Stack!Init /\ Files!Init
  /\ part # "grep" => skip_first_line
  /\ part # "delta" => mode = "regions"
  /\ part # "files" => loose[r1] = NULL /\ packed[r1] = NULL

PoolStep ==
  /\ part = "pool"
  /\ Pool!Next
  /\ UNCHANGED <<part, grepVars, deltaVars, stackVars, filesVars>>

GrepStep ==
  /\ part = "grep"
  /\ Grep!Next
  /\ UNCHANGED <<part, poolVars, deltaVars, stackVars, filesVars>>

DeltaStep ==
  /\ part = "delta"
  /\ Delta!Next
  /\ UNCHANGED <<part, poolVars, grepVars, stackVars, filesVars>>

StackStep ==
  /\ part = "stack"
  /\ Stack!Next
  /\ UNCHANGED <<part, poolVars, grepVars, deltaVars, filesVars>>

FilesStep ==
  /\ part = "files"
  /\ Files!Next
  /\ UNCHANGED <<part, poolVars, grepVars, deltaVars, stackVars>>

\* The threads of git grep and of git pack-objects have been joined.
Finished ==
  /\ \/ part = "grep" /\ Grep!Done
     \/ part = "delta" /\ Delta!Done
  /\ UNCHANGED partsVars

PartsNext == PoolStep \/ GrepStep \/ DeltaStep \/ StackStep \/ FilesStep \/ Finished

\* The fairness each of the parts assumes
PartsSpec ==
  /\ PartsInit /\ [][PartsNext]_partsVars
  /\ WF_poolVars(part = "pool" /\ Pool!Parent)
  /\ \A i \in 0 .. 1 : WF_poolVars(part = "pool" /\ Pool!Exit(i))
  /\ WF_grepVars(part = "grep" /\ Grep!MainThread)
  /\ \A w \in {"w1", "w2"} : WF_grepVars(part = "grep" /\ Grep!Worker(w))
  /\ WF_deltaVars(part = "delta" /\ Delta!MainThread)
  /\ \A i \in 0 .. 2 : WF_deltaVars(part = "delta" /\ Delta!Thread(i))
  /\ \A q \in {a, b} : WF_stackVars(part = "stack" /\ Stack!Running(q))
  /\ \A q \in {a, b} : WF_filesVars(part = "files" /\ Files!Running(q))

-----------------------------------------------------------------------------
(* Properties of the parts *)

\* run_processes_parallel() neither mixes the output of two tasks, nor loses,
\* repeats or reorders it, and has a free slot when it needs one.
OutputRight ==
  part = "pool" => Pool!NoInterleaving /\ Pool!OutputKept /\ Pool!Bookkeeping

\* git grep writes its results in the order of the files, none twice and all of
\* them in the end; a slot is not reused while a thread works on it.
GrepRight ==
  part = "grep" => Grep!WrittenInOrder /\ Grep!SlotsInUse /\ Grep!AllWritten

\* The threads of git pack-objects divide the work without loss or overlap, also
\* while it is stolen, and have done all of it when they end; an idle thread
\* gets one order at a time.
DeltaRight ==
  part = "delta" => Delta!WorkIsPartitioned /\ Delta!AllTaken /\ Delta!OneOrderAtATime

\* None of the three waits for ever; only a callback that asks for a signal each
\* time it is told of the same child keeps run_processes_parallel() from returning.
Ends ==
  \/ []<><<Pool!CollectAborts>>_poolVars
  \/ <>(\/ part = "pool" /\ Pool!Done
        \/ part = "grep" /\ Grep!Done
        \/ part = "delta" /\ Delta!Done
        \/ part \in {"stack", "files"})

\* The processes inside a call on the stack of reftables or the files backend
InCall(q) ==
  \/ part = "stack" /\ stage[q] # "idle"
  \/ part = "files" /\ pc[q] # "idle"

\* Every such call returns.
Returns == \A q \in {a, b} : InCall(q) ~> ~InCall(q)
=============================================================================
