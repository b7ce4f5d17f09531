----------------------------- MODULE ProcessPool -----------------------------
(***************************************************************************)
(* run_processes_parallel() (run-command.c) with grouped output: one       *)
(* process keeps up to Processes children running and sends their output,  *)
(* which it reads from a pipe per child, to stderr one task at a time.     *)
(* A piece of output is <<t, k>>, the k-th that the child of task t wrote. *)
(***************************************************************************)
EXTENDS Integers, Sequences, FiniteSets

CONSTANTS
  Processes,   \* opts->processes
  Tasks,       \* how many tasks get_next_task() can hand out
  SpawnCap,    \* spawn_cap: children started before the pipes are looked at
  MaxPieces    \* bound: what a child writes

VARIABLES
  pc,          \* start, poll, output, collect, done
  spawned,     \* the loop counter i
  next,        \* the tasks get_next_task() has handed out
  state, task, err,        \* pp->children[i]: its state, the task and its strbuf err
  nr_processes, shutdown,
  output_owner, buffered_output,
  stderr,
  pipe, open,  \* the pipe of each child, and whether the child holds its end
  wrote        \* what the child of each task has written

children == <<state, task, err, nr_processes>>
pipes == <<pipe, open, wrote>>
vars == <<pc, spawned, next, children, shutdown, output_owner, buffered_output, stderr, pipes>>

Slots == 0 .. Processes - 1

LowestOf(S) == CHOOSE i \in S : \A j \in S : i <= j

InState(s) == {i \in Slots : state[i] = s}

Init ==
  /\ pc = "start" /\ spawned = 0 /\ next = 0
  /\ state = [i \in Slots |-> "free"]
  /\ task = [i \in Slots |-> 0]
  /\ err = [i \in Slots |-> <<>>]
  /\ nr_processes = 0 /\ shutdown = FALSE
  /\ output_owner = 0 /\ buffered_output = <<>> /\ stderr = <<>>
  /\ pipe = [i \in Slots |-> <<>>]
  /\ open = [i \in Slots |-> FALSE]
  /\ wrote = [t \in 1 .. Tasks |-> 0]

-----------------------------------------------------------------------------
(* The children *)

Write(i) ==
  /\ open[i] /\ wrote[task[i]] < MaxPieces
  /\ wrote' = [wrote EXCEPT ![task[i]] = @ + 1]
  /\ pipe' = [pipe EXCEPT ![i] = Append(@, <<task[i], wrote[task[i]] + 1>>)]
  /\ UNCHANGED <<pc, spawned, next, children, shutdown, output_owner, buffered_output, stderr, open>>

\* The child ends, on its own account or because it was signalled.
Exit(i) ==
  /\ open[i]
  /\ open' = [open EXCEPT ![i] = FALSE]
  /\ UNCHANGED <<pc, spawned, next, children, shutdown, output_owner, buffered_output, stderr,
                 pipe, wrote>>

\* kill_children()
Killed == [i \in Slots |-> open[i] /\ state[i] # "working"]

-----------------------------------------------------------------------------
(* pp_start_one(), called in a loop *)

MayStart == pc = "start" /\ spawned < SpawnCap /\ ~shutdown /\ nr_processes < Processes

\* Mutant: the slot after the last one started is used.
FreeSlotNext == nr_processes

FreeSlot == LowestOf(InState("free"))

\* get_next_task() has a task and start_command() succeeds.
StartChild ==
  /\ MayStart /\ next < Tasks
  /\ next' = next + 1
  /\ spawned' = spawned + 1
  /\ nr_processes' = nr_processes + 1
  /\ state' = [state EXCEPT ![FreeSlot] = "working"]
  /\ task' = [task EXCEPT ![FreeSlot] = next + 1]
  /\ open' = [open EXCEPT ![FreeSlot] = TRUE]
  /\ UNCHANGED <<pc, err, shutdown, output_owner, buffered_output, stderr, pipe, wrote>>

\* It fails, and start_failure() says to go on, to stop, or to stop the children.
StartFails ==
  /\ MayStart /\ next < Tasks
  /\ next' = next + 1
  /\ \E code \in {-1, 0, 1} :
       /\ spawned' = IF code = 0 THEN spawned + 1 ELSE SpawnCap
       /\ shutdown' = (code # 0)
       /\ open' = IF code < 0 THEN Killed ELSE open
  /\ UNCHANGED <<pc, children, output_owner, buffered_output, stderr, pipe, wrote>>

\* get_next_task() has none, for the moment or for good.
NoTask ==
  /\ MayStart
  /\ spawned' = SpawnCap
  /\ UNCHANGED <<pc, next, children, shutdown, output_owner, buffered_output, stderr, pipes>>

\* The loop ends; without a child the function does.
Started ==
  /\ pc = "start" /\ ~MayStart
  /\ spawned' = 0
  /\ IF nr_processes = 0
     THEN \* pp_cleanup()
          /\ pc' = "done"
          /\ stderr' = stderr \o buffered_output
          /\ buffered_output' = <<>>
     ELSE pc' = "poll" /\ UNCHANGED <<stderr, buffered_output>>
  /\ UNCHANGED <<next, children, shutdown, output_owner, pipes>>

-----------------------------------------------------------------------------
(* Output *)

Ready == {i \in InState("working") : pipe[i] # <<>>}

\* Mutant: a child has ended only once its output was shown.
EndedShown == {i \in InState("working") : pipe[i] = <<>> /\ ~open[i] /\ err[i] = <<>>}

\* read() returns 0.
Ended == {i \in InState("working") : pipe[i] = <<>> /\ ~open[i]}

\* pp_buffer_stderr(): one read() of every pipe that poll() reports, each of some
\* of what is there
BufferStderr ==
  /\ pc = "poll"
  /\ \E n \in [Ready -> 1 .. MaxPieces] :
       /\ \A i \in Ready : n[i] <= Len(pipe[i])
       /\ err' = [i \in Slots |-> IF i \in Ready THEN err[i] \o SubSeq(pipe[i], 1, n[i]) ELSE err[i]]
       /\ pipe' = [i \in Slots |-> IF i \in Ready THEN SubSeq(pipe[i], n[i] + 1, Len(pipe[i])) ELSE pipe[i]]
  /\ state' = [i \in Slots |-> IF i \in Ended THEN "wait_cleanup" ELSE state[i]]
  /\ pc' = "output"
  /\ UNCHANGED <<spawned, next, task, nr_processes, shutdown, output_owner, buffered_output,
                 stderr, open, wrote>>

\* Mutant: the output of any child is shown as it comes.
OutputAny ==
  /\ pc = "output"
  /\ \E i \in Slots :
       /\ stderr' = stderr \o err[i]
       /\ err' = [err EXCEPT ![i] = <<>>]
  /\ pc' = "collect"
  /\ UNCHANGED <<spawned, next, state, task, nr_processes, shutdown, output_owner,
                 buffered_output, pipes>>

\* pp_output()
Output ==
  /\ pc = "output"
  /\ IF state[output_owner] = "working"
     THEN /\ stderr' = stderr \o err[output_owner]
          /\ err' = [err EXCEPT ![output_owner] = <<>>]
     ELSE UNCHANGED <<stderr, err>>
  /\ pc' = "collect"
  /\ UNCHANGED <<spawned, next, state, task, nr_processes, shutdown, output_owner,
                 buffered_output, pipes>>

-----------------------------------------------------------------------------
(* pp_collect_finished() *)

\* "round robin": the next child that runs, if there is one
NextOwner(i) ==
  LET at(k) == (i + k) % Processes
      running == {k \in 1 .. Processes - 1 : state[at(k)] = "working"}
  IN  IF running = {} THEN i ELSE at(LowestOf(running))

\* Mutant: what was buffered is written and kept.
FlushTwice(i) ==
  IF i # output_owner
  THEN /\ buffered_output' = buffered_output \o err[i]
       /\ UNCHANGED <<stderr, output_owner>>
  ELSE /\ stderr' = stderr \o err[i] \o buffered_output
       /\ output_owner' = NextOwner(i)
       /\ UNCHANGED buffered_output

\* The output of a finished child is kept until that of the owner is complete.
Flush(i) ==
  IF i # output_owner
  THEN /\ buffered_output' = buffered_output \o err[i]
       /\ UNCHANGED <<stderr, output_owner>>
  ELSE /\ stderr' = stderr \o err[i] \o buffered_output
       /\ buffered_output' = <<>>
       /\ output_owner' = NextOwner(i)

\* task_finished() says to go on, or to start no more.
CollectOne ==
  /\ pc = "collect" /\ InState("wait_cleanup") # {}
  /\ LET i == LowestOf(InState("wait_cleanup"))
     IN  /\ state' = [state EXCEPT ![i] = "free"]
         /\ task' = [task EXCEPT ![i] = 0]
         /\ err' = [err EXCEPT ![i] = <<>>]
         /\ nr_processes' = nr_processes - 1
         /\ Flush(i)
  /\ \E code \in {0, 1} : shutdown' = (shutdown \/ code # 0)
  /\ UNCHANGED <<pc, spawned, next, pipes>>

\* It asks to signal the children: this one is collected again, and it may ask
\* again.
CollectAborts ==
  /\ pc = "collect" /\ InState("wait_cleanup") # {}
  /\ shutdown' = TRUE
  /\ open' = Killed
  /\ pc' = "start"
  /\ UNCHANGED <<spawned, next, children, output_owner, buffered_output, stderr, pipe, wrote>>

Collected ==
  /\ pc = "collect" /\ InState("wait_cleanup") = {}
  /\ pc' = "start"
  /\ UNCHANGED <<spawned, next, children, shutdown, output_owner, buffered_output, stderr, pipes>>

Terminated == pc = "done" /\ UNCHANGED vars

Parent ==
  \/ StartChild \/ StartFails \/ NoTask \/ Started
  \/ BufferStderr \/ Output \/ CollectOne \/ CollectAborts \/ Collected

Next ==
  \/ Parent \/ Terminated
  \/ \E i \in Slots : Write(i) \/ Exit(i)

Spec == Init /\ [][Next]_vars

\* The loop runs on, and no child runs for ever.
Fairness == WF_vars(Parent) /\ \A i \in Slots : WF_vars(Exit(i))

-----------------------------------------------------------------------------
(* Properties *)

\* "Their output is routed to stderr in a manner that output from different tasks
\* does not interleave", even though it is shown while the task runs and the next
\* task to be shown is chosen while it already has output.
NoInterleaving ==
  \A a, b, c \in 1 .. Len(stderr) :
    a < b /\ b < c /\ stderr[a][1] = stderr[c][1] => stderr[b][1] = stderr[a][1]

Of(t, s) == LET ofTask(p) == p[1] = t IN SelectSeq(s, ofTask)

\* No output is lost, repeated or reordered on its way from the pipe through the
\* child's buffer and the common one, also when the task was aborted.
OutputKept ==
  \A t \in 1 .. Tasks :
    LET slots == {i \in Slots : state[i] # "free" /\ task[i] = t}
        held == IF slots = {} THEN <<>>
                ELSE LET i == LowestOf(slots) IN err[i] \o pipe[i]
    IN  Of(t, stderr) \o Of(t, buffered_output) \o held = [k \in 1 .. wrote[t] |-> <<t, k>>]

\* BUG("bookkeeping is hard"): while fewer children run than may, a slot is free,
\* and a slot that is free has no child.
Bookkeeping ==
  /\ nr_processes = Cardinality(Slots \ InState("free"))
  /\ \A i \in InState("free") : ~open[i] /\ pipe[i] = <<>> /\ err[i] = <<>>

\* The function returns, with every child collected, unless task_finished() asks
\* for a signal again and again.
Done == pc = "done" /\ nr_processes = 0
Ends == <>Done \/ []<><<CollectAborts>>_vars
=============================================================================
