---------------------------- MODULE DeltaThreads ----------------------------
(***************************************************************************)
(* The threads that search deltas in git pack-objects                      *)
(* (builtin/pack-objects.c): ll_find_deltas() gives each thread a segment  *)
(* of the list of objects, ll_find_deltas_by_region() one of the list of   *)
(* regions; a thread that has no more work gets half of what the busiest   *)
(* one has left, cut off at the end of its segment while that thread goes  *)
(* on at the beginning.  A section under progress_mutex or under the mutex *)
(* of a thread is one step; condition variables may wake a thread for no   *)
(* reason.                                                                 *)
(***************************************************************************)
EXTENDS Integers, FiniteSets, FiniteSetsExt

CONSTANTS
  Threads,    \* delta_search_threads; they are numbered 0 .. Threads - 1
  Items,      \* length of the list of objects or regions, numbered 0 .. Items - 1
  Window,     \* the window: ll_find_deltas() is called with one more
  Hashes      \* functions from objects to name hashes; 0 is no hash

VARIABLES
  mode,       \* "objects" or "regions"
  hash,
  p,          \* struct thread_params
  pc,
  cursor,     \* next object of a thread in find_deltas(), or region it works on
  asleep,     \* threads waiting for their own condition
  main,       \* where the main thread is
  target, sub_size, active_threads,   \* its variables
  taken       \* how often each item was taken

vars == <<mode, hash, p, pc, cursor, asleep, main, target, sub_size, active_threads, taken>>

Ids == 0 .. Threads - 1
List == 0 .. Items - 1
window == IF mode = "objects" THEN Window + 1 ELSE Window

\* Does a segment that starts at object k split a name from its predecessor?
SplitsName(k) == hash[k] # 0 /\ hash[k] = hash[k - 1]

\* The size of a segment that starts at `first': an equal part of the rest, nothing
\* rather than too little, and extended to the end of a name
FirstSize(i, first) ==
  LET rest == Items - first
      share == rest \div (Threads - i)
      some == IF share < 2 * window /\ i + 1 < Threads THEN 0 ELSE share
  IN  IF mode = "regions" THEN share
      ELSE IF some = 0 THEN 0
      ELSE Min({n \in some .. rest : n = rest \/ ~SplitsName(first + n)})

\* Where the segment of thread i starts
Starts == LET s[i \in 0 .. Threads] == IF i = 0 THEN 0 ELSE s[i - 1] + FirstSize(i - 1, s[i - 1])
          IN  s

\* The partition of the list; threads without a segment are not started.
Init ==
  /\ mode \in {"objects", "regions"}
  /\ hash \in IF mode = "objects" THEN Hashes ELSE {[k \in List |-> 0]}
  /\ p = [i \in Ids |-> [list |-> Starts[i], list_size |-> FirstSize(i, Starts[i]),
                         remaining |-> FirstSize(i, Starts[i]), working |-> TRUE,
                         data_ready |-> FALSE]]
  /\ pc = [i \in Ids |-> IF p[i].list_size = 0 THEN "none" ELSE "check"]
  /\ cursor = [i \in Ids |-> 0]
  /\ asleep = {}
  /\ main = "choose"
  /\ target = 0 /\ sub_size = 0
  /\ active_threads = Cardinality({i \in Ids : p[i].list_size # 0})
  /\ taken = [k \in List |-> 0]

Goto(i, l) == pc' = [pc EXCEPT ![i] = l]
Take(k) == taken' = [taken EXCEPT ![k] = @ + 1]

-----------------------------------------------------------------------------
(* threaded_find_deltas(), threaded_find_deltas_by_path() *)

\* while (me->remaining)
Check(i) ==
  /\ pc[i] = "check"
  /\ IF p[i].remaining = 0 THEN Goto(i, "ended") ELSE Goto(i, "find")
  /\ cursor' = [cursor EXCEPT ![i] = p[i].list]
  /\ UNCHANGED <<mode, hash, p, asleep, main, target, sub_size, active_threads, taken>>

\* find_deltas(): takes the next object off the list under the lock, then
\* searches a delta for it
FindDeltas(i) ==
  /\ pc[i] = "find" /\ mode = "objects"
  /\ IF p[i].remaining = 0
     THEN Goto(i, "idle") /\ UNCHANGED <<p, cursor, taken>>
     ELSE /\ Take(cursor[i])
          /\ cursor' = [cursor EXCEPT ![i] = @ + 1]
          /\ p' = [p EXCEPT ![i].remaining = @ - 1]
          /\ UNCHANGED pc
  /\ UNCHANGED <<mode, hash, asleep, main, target, sub_size, active_threads>>

\* find_deltas_for_region(): the region still counts while it is worked on.
FindDeltasForRegion(i) ==
  /\ pc[i] = "find" /\ mode = "regions"
  /\ Take(p[i].list)
  /\ Goto(i, "region done")
  /\ UNCHANGED <<mode, hash, p, cursor, asleep, main, target, sub_size, active_threads>>

\* me->remaining--, me->regions++; here list is the pointer that moves.
NextRegion(i) ==
  /\ pc[i] = "region done"
  /\ p' = [p EXCEPT ![i].remaining = @ - 1, ![i].list = @ + 1,
                    ![i].working = p[i].remaining > 1]
  /\ IF p[i].remaining > 1 THEN Goto(i, "find") /\ UNCHANGED main
     ELSE Goto(i, "wait") /\ main' = IF main = "asleep" THEN "choose" ELSE main
  /\ UNCHANGED <<mode, hash, cursor, asleep, target, sub_size, active_threads, taken>>

\* me->working = 0, and the main thread is woken
Idle(i) ==
  /\ pc[i] = "idle"
  /\ p' = [p EXCEPT ![i].working = FALSE]
  /\ main' = IF main = "asleep" THEN "choose" ELSE main
  /\ Goto(i, "wait")
  /\ UNCHANGED <<mode, hash, cursor, asleep, target, sub_size, active_threads, taken>>

\* while (!me->data_ready) pthread_cond_wait(...)
AwaitData(i) ==
  /\ pc[i] = "wait" /\ i \notin asleep
  /\ IF p[i].data_ready
     THEN /\ p' = [p EXCEPT ![i].data_ready = FALSE]
          /\ Goto(i, "check") /\ UNCHANGED asleep
     ELSE asleep' = asleep \cup {i} /\ UNCHANGED <<p, pc>>
  /\ UNCHANGED <<mode, hash, cursor, main, target, sub_size, active_threads, taken>>

-----------------------------------------------------------------------------
(* The main thread in ll_find_deltas(), ll_find_deltas_by_region() *)

\* The threads that have enough left, and of those the first with the most
Victims == {i \in Ids : p[i].remaining > 2 * window}
Victim ==
  CHOOSE v \in Victims : \A i \in Victims :
    p[i].remaining < p[v].remaining \/ (p[i].remaining = p[v].remaining /\ v <= i)

\* How much of it is stolen: half, or less, so that no name is split, if there
\* is a boundary in that half
StolenSize(v) ==
  LET half == p[v].remaining \div 2
      end == p[v].list + p[v].list_size
      sizes == {n \in 1 .. half : ~SplitsName(end - n)}
  IN  IF mode = "regions" \/ sizes = {} THEN half ELSE Max(sizes)

\* Mutant: the place is computed from the number of objects left.
StolenFromRemaining(v, n) == p[v].list + p[v].remaining - n

\* Where it starts.  For objects list and list_size do not change as the thread
\* takes objects; for regions list moves and remaining counts from it.
StolenFrom(v, n) ==
  IF mode = "objects" THEN p[v].list + p[v].list_size - n
  ELSE p[v].list + p[v].remaining - n

\* Mutant: the order to end is given to any thread.
ChooseAny ==
  /\ main = "choose" /\ active_threads # 0
  /\ \E i \in Ids : /\ pc[i] \notin {"none", "ended"} /\ target' = i
                    /\ p' = [p EXCEPT ![i].remaining = 0, ![i].list_size = 0, ![i].working = TRUE]
  /\ sub_size' = 0 /\ main' = "hand over"
  /\ UNCHANGED <<mode, hash, pc, cursor, asleep, active_threads, taken>>

\* Waits until a thread is not working, and moves work to it
Choose ==
  LET idle == {i \in Ids : ~p[i].working}
      t == Min(idle)
      v == Victim
      n == IF Victims = {} THEN 0 ELSE StolenSize(v)
  IN  /\ main = "choose" /\ active_threads # 0
      /\ IF idle = {} THEN main' = "asleep" /\ UNCHANGED <<p, target, sub_size>>
         ELSE /\ target' = t /\ sub_size' = n /\ main' = "hand over"
              /\ p' = [i \in Ids |->
                   IF i = t THEN [list |-> IF n = 0 THEN p[t].list ELSE StolenFrom(v, n),
                                  list_size |-> n, remaining |-> n, working |-> TRUE,
                                  data_ready |-> p[t].data_ready]
                   ELSE IF n # 0 /\ i = v
                     THEN [p[v] EXCEPT !.list_size = @ - n, !.remaining = @ - n]
                   ELSE p[i]]
      /\ UNCHANGED <<mode, hash, pc, cursor, asleep, active_threads, taken>>

\* target->data_ready = 1, and it is woken
HandOver ==
  /\ main = "hand over"
  /\ p' = [p EXCEPT ![target].data_ready = TRUE]
  /\ asleep' = asleep \ {target}
  /\ main' = IF sub_size = 0 THEN "join" ELSE "choose"
  /\ UNCHANGED <<mode, hash, pc, cursor, target, sub_size, active_threads, taken>>

Join ==
  /\ main = "join" /\ pc[target] = "ended"
  /\ active_threads' = active_threads - 1
  /\ main' = "choose"
  /\ UNCHANGED <<mode, hash, p, pc, cursor, asleep, target, sub_size, taken>>

-----------------------------------------------------------------------------
SpuriousWakeup ==
  /\ \/ main = "asleep" /\ main' = "choose" /\ UNCHANGED asleep
     \/ \E i \in asleep : asleep' = asleep \ {i} /\ UNCHANGED main
  /\ UNCHANGED <<mode, hash, p, pc, cursor, target, sub_size, active_threads, taken>>

MainThread == Choose \/ HandOver \/ Join

Thread(i) ==
  Check(i) \/ FindDeltas(i) \/ FindDeltasForRegion(i) \/ NextRegion(i) \/ Idle(i) \/ AwaitData(i)

Next == MainThread \/ SpuriousWakeup \/ \E i \in Ids : Thread(i)

\* The scheduler runs every thread that is not waiting.
Fairness == WF_vars(MainThread) /\ \A i \in Ids : WF_vars(Thread(i))

Spec == Init /\ [][Next]_vars /\ Fairness

-----------------------------------------------------------------------------
(* Properties *)

\* What thread i still has to take
Left(i) ==
  LET start == IF mode = "objects" THEN p[i].list + p[i].list_size - p[i].remaining
               ELSE p[i].list
  IN  start .. start + p[i].remaining - 1

\* Is it in the middle of a region that it has not counted yet?
InRegion(i) == pc[i] = "region done"

\* Stealing keeps the work a partition: an item that nobody has taken belongs to
\* exactly one thread, one that was taken to none, and a thread goes on where
\* its part begins, although the pointers of the victim are never adjusted.
WorkIsPartitioned ==
  /\ \A k \in List : taken[k] + Cardinality({i \in Ids : k \in Left(i)})
                       - Cardinality({i \in Ids : InRegion(i) /\ p[i].list = k}) = 1
  /\ \A i \in Ids : mode = "objects" /\ pc[i] = "find" /\ p[i].remaining # 0 =>
                      cursor[i] = Min(Left(i))

\* All items are taken, each once, when the threads are gone.
AllTaken == active_threads = 0 => \A k \in List : taken[k] = 1

\* A thread is given work, or the order to end, only while it is idle: it has
\* taken note of what it was given before.
OneOrderAtATime ==
  main = "hand over" => ~p[target].data_ready /\ pc[target] = "wait"

\* No wakeup is lost: the search for deltas ends.
Done == active_threads = 0
Ends == <>Done
=============================================================================
