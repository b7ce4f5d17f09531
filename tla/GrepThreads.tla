----------------------------- MODULE GrepThreads -----------------------------
(***************************************************************************)
(* The threads of git grep (builtin/grep.c): the main thread puts files    *)
(* into the ring todo, worker threads search them in any order, and the    *)
(* results are written in the order of the files.  Everything between      *)
(* grep_lock() and grep_unlock() or pthread_cond_wait() is one step;       *)
(* condition variables may also wake a thread for no reason.               *)
(***************************************************************************)
EXTENDS Integers, Sequences, FiniteSets

CONSTANTS
  Workers,
  Items,      \* files are numbered 1 .. Items
  TODO_SIZE   \* 128 in the code

VARIABLES
  todo, todo_start, todo_end, todo_done,   \* the ring
  all_work_added,
  skip_first_line,   \* the first file written loses its leading hunk mark
  main,              \* where the main thread is
  added,             \* number of files passed to add_work()
  at, work,          \* where each worker is, and the slot it works on
  asleep,            \* workers waiting for cond_add
  hits,              \* files in which something was found
  stdout             \* files written, and whether their first line was left out

shared == <<todo, todo_start, todo_end, todo_done, all_work_added, skip_first_line>>
vars == <<shared, main, added, at, work, asleep, hits, stdout>>

Slots == 0 .. TODO_SIZE - 1
Succ(i) == (i + 1) % TODO_SIZE

\* start_threads()
Init ==
  /\ todo = [i \in Slots |-> [source |-> 0, done |-> FALSE, out |-> FALSE]]
  /\ todo_start = 0 /\ todo_end = 0 /\ todo_done = 0
  /\ all_work_added = FALSE
  /\ skip_first_line \in BOOLEAN
  /\ main = "add" /\ added = 0
  /\ at = [w \in Workers |-> "get"]
  /\ work = [w \in Workers |-> 0]
  /\ asleep = {}
  /\ hits = {} /\ stdout = <<>>

\* pthread_cond_signal(&cond_add): one of the waiting threads, if there is any
Signal == IF asleep = {} THEN UNCHANGED asleep ELSE \E w \in asleep : asleep' = asleep \ {w}

-----------------------------------------------------------------------------
(* The main thread *)

\* Mutant: the slot that keeps a full ring apart from an empty one is used, too.
FullNever == FALSE

Full == Succ(todo_end) = todo_done

\* add_work() finds the ring full and waits for cond_write.
AddWorkWaits ==
  /\ main = "add" /\ added < Items /\ Full
  /\ main' = "wait for write"
  /\ UNCHANGED <<shared, added, at, work, asleep, hits, stdout>>

AddWork ==
  /\ main = "add" /\ added < Items /\ ~Full
  /\ todo' = [todo EXCEPT ![todo_end] = [source |-> added + 1, done |-> FALSE, out |-> FALSE]]
  /\ todo_end' = Succ(todo_end)
  /\ added' = added + 1
  /\ Signal
  /\ UNCHANGED <<todo_start, todo_done, all_work_added, skip_first_line, main, at, work,
                 hits, stdout>>

\* Mutant: work that was only picked up is not waited for.
WaitAllStarted ==
  /\ main \in {"add", "finish"} /\ added = Items
  /\ all_work_added' = TRUE
  /\ IF todo_start # todo_end
     THEN main' = "wait for result" /\ UNCHANGED asleep
     ELSE main' = "join" /\ asleep' = {}
  /\ UNCHANGED <<todo, todo_start, todo_end, todo_done, skip_first_line, added, at, work,
                 hits, stdout>>

\* wait_all(): waits for cond_result, or wakes all workers
WaitAll ==
  /\ main \in {"add", "finish"} /\ added = Items
  /\ all_work_added' = TRUE
  /\ IF todo_done # todo_end
     THEN main' = "wait for result" /\ UNCHANGED asleep
     ELSE main' = "join" /\ asleep' = {}
  /\ UNCHANGED <<todo, todo_start, todo_end, todo_done, skip_first_line, added, at, work,
                 hits, stdout>>

Join ==
  /\ main = "join" /\ \A w \in Workers : at[w] = "ended"
  /\ main' = "joined"
  /\ UNCHANGED <<shared, added, at, work, asleep, hits, stdout>>

-----------------------------------------------------------------------------
(* run(): the workers *)

\* get_work()
GetWork(w) ==
  /\ at[w] = "get" /\ w \notin asleep
  /\ IF todo_start # todo_end
     THEN /\ work' = [work EXCEPT ![w] = todo_start]
          /\ todo_start' = Succ(todo_start)
          /\ at' = [at EXCEPT ![w] = "grep"]
          /\ UNCHANGED asleep
     ELSE /\ at' = [at EXCEPT ![w] = IF all_work_added THEN "ended" ELSE @]
          /\ asleep' = IF all_work_added THEN asleep ELSE asleep \cup {w}
          /\ UNCHANGED <<work, todo_start>>
  /\ UNCHANGED <<todo, todo_end, todo_done, all_work_added, skip_first_line, main, added,
                 hits, stdout>>

\* grep_source(), without the lock: strbuf_out() appends what was found.
GrepSource(w) ==
  /\ at[w] = "grep"
  /\ at' = [at EXCEPT ![w] = "done"]
  /\ \/ UNCHANGED <<todo, hits>>
     \/ /\ todo' = [todo EXCEPT ![work[w]].out = TRUE]
        /\ hits' = hits \cup {todo[work[w]].source}
  /\ UNCHANGED <<todo_start, todo_end, todo_done, all_work_added, skip_first_line, main,
                 added, work, asleep, stdout>>

\* Mutant: everything that was picked up is taken to be done.
FinishedStarted(ring) == (todo_start - todo_done) % TODO_SIZE

\* How many slots from todo_done on are done; the flags from todo_start on are
\* those of earlier files.
Finished(ring) ==
  LET n == (todo_start - todo_done) % TODO_SIZE
      slot(k) == (todo_done + k) % TODO_SIZE
  IN  CHOOSE k \in 0 .. n :
        /\ \A j \in 0 .. k - 1 : ring[slot(j)].done
        /\ k = n \/ ~ring[slot(k)].done

\* work_done(): writes the results that are next in the order of the files,
\* and wakes the main thread
WorkDone(w) ==
  LET ring == [todo EXCEPT ![work[w]].done = TRUE]
      n == Finished(ring)
      slots == [k \in 1 .. n |-> (todo_done + k - 1) % TODO_SIZE]
      written == SelectSeq(slots, LAMBDA i : ring[i].out)
  IN  /\ at[w] = "done"
      /\ todo' = ring
      /\ todo_done' = (todo_done + n) % TODO_SIZE
      /\ stdout' = stdout \o [k \in DOMAIN written |->
                                [file |-> ring[written[k]].source,
                                 skipped |-> skip_first_line /\ k = 1]]
      /\ skip_first_line' = (skip_first_line /\ written = <<>>)
      /\ main' = IF \/ main = "wait for write" /\ n # 0
                    \/ main = "wait for result" /\ all_work_added /\ todo_done' = todo_end
                 THEN IF main = "wait for write" THEN "add" ELSE "finish"
                 ELSE main
      /\ at' = [at EXCEPT ![w] = "get"]
      /\ UNCHANGED <<todo_start, todo_end, all_work_added, added, work, asleep, hits>>

-----------------------------------------------------------------------------
SpuriousWakeup ==
  /\ \/ /\ main = "wait for write" /\ main' = "add" /\ UNCHANGED asleep
     \/ /\ main = "wait for result" /\ main' = "finish" /\ UNCHANGED asleep
     \/ \E w \in asleep : asleep' = asleep \ {w} /\ UNCHANGED main
  /\ UNCHANGED <<shared, added, at, work, hits, stdout>>

MainThread == AddWorkWaits \/ AddWork \/ WaitAll \/ Join
Worker(w) == GetWork(w) \/ GrepSource(w) \/ WorkDone(w)

Next == MainThread \/ SpuriousWakeup \/ \E w \in Workers : Worker(w)

\* The scheduler runs every thread that is not waiting.
Fairness == WF_vars(MainThread) /\ \A w \in Workers : WF_vars(Worker(w))

Spec == Init /\ [][Next]_vars /\ Fairness

-----------------------------------------------------------------------------
(* Properties *)

Files == [k \in DOMAIN stdout |-> stdout[k].file]

\* Results come out in the order of the files, each at most once, and none
\* is passed over; only the first may be without its hunk mark.
WrittenInOrder ==
  /\ \A i, j \in DOMAIN stdout : i < j => Files[i] < Files[j]
  /\ \A i \in DOMAIN stdout : Files[i] \in hits /\ (stdout[i].skipped => i = 1)
  /\ \A i \in DOMAIN stdout : \A f \in 1 .. Files[i] : f \in hits => \E j \in 1 .. i : Files[j] = f

\* A slot is not given to a second worker, or filled again, while it is in use:
\* it lies between todo_done and todo_start.
SlotsInUse ==
  \A w \in Workers : at[w] \in {"grep", "done"} =>
    /\ (work[w] - todo_done) % TODO_SIZE < (todo_start - todo_done) % TODO_SIZE
    /\ ~todo[work[w]].done
    /\ \A v \in Workers \ {w} : at[v] \in {"grep", "done"} => work[v] # work[w]

\* When git grep is about to leave its threads everything found was written.
AllWritten == main \in {"join", "joined"} => {Files[i] : i \in DOMAIN stdout} = hits

\* No wakeup is lost: git grep ends.
Done == main = "joined"
Ends == <>Done
=============================================================================
