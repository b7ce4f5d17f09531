------------------------------ MODULE SimpleIpc ------------------------------
(***************************************************************************)
(* The "simple IPC" server on Unix sockets and its clients                 *)
(* (compat/simple-ipc/ipc-unix-socket.c).  One thread accepts connections  *)
(* and queues them, a pool of workers takes them from the queue, any       *)
(* thread can ask for a shutdown, and the main thread waits for all of     *)
(* them and frees the server.                                              *)
(*                                                                         *)
(* A step is what a thread does between two points where another one can   *)
(* come in.  ipc_server_init_async() leaves the mutex locked until the     *)
(* server is started, by the thread that watches the file system; the      *)
(* same thread may stop the server, before or after that.                  *)
(***************************************************************************)
EXTENDS Naturals, FiniteSets

CONSTANTS
  Workers, Conns,         \* a connection is used once
  Main, Accept, Starter,  \* the other threads
  QueueSize,              \* queue_size
  None,                   \* no file descriptor; no owner of the mutex
  MaxSpurious,            \* bound on spurious wakeups
  SlowStart               \* whether poll() may time out before the server is started

Threads == Workers \cup {Main, Accept, Starter}

ASSUME ConstantsAssumption ==
  /\ Main # Accept /\ Main # Starter /\ Accept # Starter
  /\ Workers # {} /\ Workers \cap {Main, Accept, Starter} = {}
  /\ None \notin Threads \cup Conns
  /\ QueueSize \in Nat \ {0}
  /\ MaxSpurious \in Nat
  /\ SlowStart \in BOOLEAN

VARIABLES
  mutex,                  \* owner of work_available_mutex
  started, shutdown,      \* started, shutdown_requested
  poked,                  \* there is a byte in the socket pair
  fifo, back, front,      \* fifo_fds, back_pos, front_pos
  pc,
  fd,                     \* the connection a thread has in its hands
  client,                 \* what the client of each connection has done, until
                          \* either side closes it
  backlog,                \* connections the kernel holds for accept()
  accepted,               \* history: the connections accept() has returned
  closes,                 \* how often the server closed each connection
  spurious                \* the spurious wakeups so far

server == <<started, shutdown, poked, fifo, back, front>>
clients == <<client, backlog>>
vars == <<mutex, server, pc, fd, clients, accepted, closes, spurious>>

Slots == 0 .. QueueSize - 1
Succ(i) == IF i + 1 = QueueSize THEN 0 ELSE i + 1

\* ipc_server_init_async(): "Limp along with the thread pool that we have" when not
\* all workers can be created.
Init ==
  /\ mutex = Starter
  /\ started = FALSE /\ shutdown = FALSE /\ poked = FALSE
  /\ fifo = [i \in Slots |-> None] /\ back = 0 /\ front = 0
  /\ \E pool \in (SUBSET Workers) \ {{}} :
       pc = [t \in Threads |-> CASE t = Main -> "joinaccept" [] t = Accept -> "poll"
                                 [] t = Starter -> "init" [] t \in pool -> "lock"
                                 [] OTHER -> "missing"]
  /\ fd = [t \in Threads |-> None]
  /\ client = [c \in Conns |-> "none"]
  /\ backlog = {}
  /\ accepted = {}
  /\ closes = [c \in Conns |-> 0]
  /\ spurious = 0

Goto(t, l) == pc' = [pc EXCEPT ![t] = l]
Lock(t) == mutex = None /\ mutex' = t
\* Whoever has it: before the start the owner is not the thread that unlocks.
Unlock == mutex' = None
Close(C) ==
  /\ closes' = [c \in Conns |-> IF c \in C THEN closes[c] + 1 ELSE closes[c]]
  /\ client' = [c \in Conns |-> IF c \in C THEN "gone" ELSE client[c]]
CloseNone == UNCHANGED <<closes, client>>
LetGo(t) == fd' = [fd EXCEPT ![t] = None]

\* pthread_cond_broadcast(), and thread t goes to l
BroadcastAndGoto(t, l) ==
  pc' = [u \in Threads |-> IF u = t THEN l
                           ELSE IF pc[u] = "waiting" THEN "lock" ELSE pc[u]]

-----------------------------------------------------------------------------
(* Workers: worker_thread_proc() *)

\* worker_thread__wait_for_connection()
WorkerLock(w) ==
  /\ pc[w] = "lock"
  /\ Lock(w)
  /\ Goto(w, "dequeue")
  /\ UNCHANGED <<server, fd, clients, accepted, closes>>

FifoDequeue(w) ==
  /\ back # front
  /\ fd' = [fd EXCEPT ![w] = fifo[front]]
  /\ fifo' = [fifo EXCEPT ![front] = None]
  /\ front' = Succ(front)

WorkerDequeue(w) ==
  /\ pc[w] = "dequeue"
  /\ \/ shutdown /\ Goto(w, "done") /\ UNCHANGED <<fd, fifo, front>>
     \/ ~shutdown /\ FifoDequeue(w) /\ Goto(w, "iostart")
     \/ ~shutdown /\ back = front /\ Goto(w, "waiting") /\ UNCHANGED <<fd, fifo, front>>
  /\ Unlock
  /\ UNCHANGED <<started, shutdown, poked, back, clients, accepted, closes>>

\* pthread_cond_wait() may return without a broadcast, though not for ever.
SpuriousWakeup(w) ==
  /\ pc[w] = "waiting" /\ spurious < MaxSpurious
  /\ spurious' = spurious + 1
  /\ Goto(w, "lock")
  /\ UNCHANGED <<mutex, server, fd, clients, accepted, closes>>


\* worker_thread__wait_for_io_start(): the client has hung up, has sent
\* "a (possibly incomplete) message", or is silent for the timeout of poll() in a
\* shutdown.
WaitForIoStart(w) ==
  /\ pc[w] = "iostart"
  /\ \/ /\ \/ client[fd[w]] = "gone"
           \/ client[fd[w]] = "connected" /\ mutex = None /\ shutdown
        /\ Close({fd[w]}) /\ LetGo(w)
        /\ Goto(w, "lock")
     \/ /\ client[fd[w]] \in {"partial", "request"}
        /\ Goto(w, "io")
        /\ CloseNone /\ UNCHANGED fd
  /\ UNCHANGED <<mutex, server, backlog, accepted>>

\* worker_thread__do_io(): read the request, waiting for all of it, and call the
\* application, which may answer with SIMPLE_IPC_QUIT.  A client may be gone by now.
DoIo(w) ==
  /\ pc[w] = "io"
  /\ Close({fd[w]}) /\ LetGo(w)
  /\ \/ client[fd[w]] \in {"request", "gone"} /\ Goto(w, "lock")
     \/ client[fd[w]] = "request" /\ Goto(w, "stop")
  /\ UNCHANGED <<mutex, server, backlog, accepted>>

-----------------------------------------------------------------------------
(* The accept thread: accept_thread_proc() *)

\* accept_thread__wait_for_connection(): a shutdown message, a connection, or an
\* accept() that fails because the client is gone.  poll() may have returned
\* before the message arrived.
WaitForConnection ==
  /\ pc[Accept] = "poll"
  /\ \/ /\ poked
        /\ Goto(Accept, "acceptlock")
        /\ UNCHANGED <<fd, backlog, accepted>>
     \/ \E c \in backlog :
          /\ backlog' = backlog \ {c}
          /\ \/ /\ fd' = [fd EXCEPT ![Accept] = c]
                /\ accepted' = accepted \cup {c}
                /\ Goto(Accept, "acceptlock")
             \/ client[c] = "gone" /\ UNCHANGED <<pc, fd, accepted>>
  /\ UNCHANGED <<mutex, server, client, closes>>

\* poll() times out, and unix_ss_was_stolen() says that another server has taken
\* the path.
SocketStolen ==
  /\ pc[Accept] = "poll" /\ ~poked /\ backlog = {}
  /\ started \/ SlowStart
  /\ Goto(Accept, "stop")
  /\ UNCHANGED <<mutex, server, fd, clients, accepted, closes>>

AcceptLock ==
  /\ pc[Accept] = "acceptlock"
  /\ Lock(Accept)
  /\ Goto(Accept, "enqueue")
  /\ UNCHANGED <<server, fd, clients, accepted, closes>>

\* Mutant: the position is moved first.
FifoEnqueueNext(c) ==
  \/ /\ Succ(back) # front
     /\ fifo' = [fifo EXCEPT ![Succ(back)] = c]
     /\ back' = Succ(back)
     /\ CloseNone
  \/ /\ Succ(back) = front
     /\ Close({c})
     /\ UNCHANGED <<fifo, back>>

\* "Drop it ... if queue is already full."
FifoEnqueue(c) ==
  \/ /\ Succ(back) # front
     /\ fifo' = [fifo EXCEPT ![back] = c]
     /\ back' = Succ(back)
     /\ CloseNone
  \/ /\ Succ(back) = front
     /\ Close({c})
     /\ UNCHANGED <<fifo, back>>

\* Mutant: the workers are not told.
AcceptEnqueueQuietly ==
  /\ pc[Accept] = "enqueue"
  /\ \/ /\ shutdown
        /\ Close({fd[Accept]})
        /\ Goto(Accept, "done")
        /\ UNCHANGED <<fifo, back>>
     \/ /\ ~shutdown
        /\ FifoEnqueue(fd[Accept])
        /\ Goto(Accept, "poll")
  /\ LetGo(Accept)
  /\ Unlock
  /\ UNCHANGED <<started, shutdown, poked, front, backlog, accepted>>

\* Mutant: a shutdown is noticed only without a connection.
AcceptEnqueueLate ==
  /\ pc[Accept] = "enqueue"
  /\ \/ /\ shutdown /\ fd[Accept] = None
        /\ Close({fd[Accept]})
        /\ Goto(Accept, "done")
        /\ UNCHANGED <<fifo, back>>
     \/ /\ ~(shutdown /\ fd[Accept] = None)
        /\ FifoEnqueue(fd[Accept])
        /\ BroadcastAndGoto(Accept, "poll")
  /\ LetGo(Accept)
  /\ Unlock
  /\ UNCHANGED <<started, shutdown, poked, front, backlog, accepted>>

\* In a shutdown the connection, if there is one, is closed and the thread ends.
AcceptEnqueue ==
  /\ pc[Accept] = "enqueue"
  /\ \/ /\ shutdown
        /\ Close({fd[Accept]})
        /\ Goto(Accept, "done")
        /\ UNCHANGED <<fifo, back>>
     \/ /\ ~shutdown
        /\ FifoEnqueue(fd[Accept])
        /\ BroadcastAndGoto(Accept, "poll")
  /\ LetGo(Accept)
  /\ Unlock
  /\ UNCHANGED <<started, shutdown, poked, front, backlog, accepted>>

-----------------------------------------------------------------------------
(* Starting and stopping *)

\* ipc_server_start_async()
StartAsync ==
  /\ pc[Starter] = "init"
  /\ started' = TRUE
  /\ Unlock
  /\ Goto(Starter, "running")
  /\ UNCHANGED <<shutdown, poked, fifo, back, front, fd, clients, accepted, closes>>

\* The embedding program stops the server, or never could start it.
WantStop ==
  /\ pc[Starter] \in {"init", "running"}
  /\ Goto(Starter, "stop")
  /\ UNCHANGED <<mutex, server, fd, clients, accepted, closes>>

\* Mutant: the mutex is not taken.
StopLockNot(t) ==
  /\ pc[t] = "stop"
  /\ UNCHANGED mutex
  /\ Goto(t, "drain")
  /\ UNCHANGED <<server, fd, clients, accepted, closes>>

\* ipc_server_stop_async(): "If we haven't started yet, we are already holding
\* lock."
StopLock(t) ==
  /\ pc[t] = "stop"
  /\ IF started THEN Lock(t) ELSE UNCHANGED mutex
  /\ Goto(t, "drain")
  /\ UNCHANGED <<server, fd, clients, accepted, closes>>

Queued == {fifo[i] : i \in Slots} \ {None}

\* Mutant: the connections in the queue are forgotten.
StopDrainForget(t) ==
  /\ pc[t] = "drain"
  /\ shutdown' = TRUE
  /\ poked' = TRUE
  /\ CloseNone
  /\ fifo' = [i \in Slots |-> None]
  /\ front' = back
  /\ BroadcastAndGoto(t, IF t = Accept THEN "poll" ELSE "done")
  /\ Unlock
  /\ UNCHANGED <<started, back, fd, backlog, accepted>>

\* Write to the socket pair, "drain the queue of existing connections", wake the
\* workers up, and let the thread go on: the accept thread polls again, the
\* others are done.
StopDrain(t) ==
  /\ pc[t] = "drain"
  /\ shutdown' = TRUE
  /\ poked' = TRUE
  /\ Close(Queued)
  /\ fifo' = [i \in Slots |-> None]
  /\ front' = back
  /\ BroadcastAndGoto(t, IF t = Accept THEN "poll" ELSE "done")
  /\ Unlock
  /\ UNCHANGED <<started, back, fd, backlog, accepted>>

\* ipc_server_await(): join the accept thread, then the workers.
AwaitAccept ==
  /\ pc[Main] = "joinaccept" /\ pc[Accept] = "done"
  /\ Goto(Main, "joinworkers")
  /\ UNCHANGED <<mutex, server, fd, clients, accepted, closes>>

AwaitWorkers ==
  /\ pc[Main] = "joinworkers"
  /\ \A w \in Workers : pc[w] \in {"done", "missing"}
  /\ Goto(Main, "joinstarter")
  /\ UNCHANGED <<mutex, server, fd, clients, accepted, closes>>

\* fsmonitor_run_daemon_1() tells the listener to end and joins it ...
StarterEnds ==
  /\ pc[Starter] = "running" /\ pc[Main] = "joinstarter"
  /\ Goto(Starter, "done")
  /\ UNCHANGED <<mutex, server, fd, clients, accepted, closes>>

\* ... before ipc_server_free() closes the socket, with what is in its backlog.
Free ==
  /\ pc[Main] = "joinstarter" /\ pc[Starter] = "done"
  /\ Goto(Main, "freed")
  /\ backlog' = {}
  /\ UNCHANGED <<mutex, server, fd, client, accepted, closes>>

-----------------------------------------------------------------------------
(* Clients *)

\* ipc_client_try_connect(); after the end nobody listens.
Connect(c) ==
  /\ client[c] = "none" /\ pc[Main] # "freed"
  /\ client' = [client EXCEPT ![c] = "connected"]
  /\ backlog' = backlog \cup {c}
  /\ UNCHANGED <<mutex, server, pc, fd, accepted, closes>>

\* ipc_client_send_command_to_connection() writes the message ...
SendMessage(c) ==
  /\ client[c] = "connected"
  /\ client' = [client EXCEPT ![c] = "partial"]
  /\ UNCHANGED <<mutex, server, pc, fd, backlog, accepted, closes>>

\* ... and then the flush packet that ends it, and reads the answer.
SendFlush(c) ==
  /\ client[c] = "partial"
  /\ client' = [client EXCEPT ![c] = "request"]
  /\ UNCHANGED <<mutex, server, pc, fd, backlog, accepted, closes>>

\* ipc_client_close_connection() after a ping, or the client dies.
HangUp(c) ==
  /\ client[c] \in {"connected", "partial", "request"}
  /\ client' = [client EXCEPT ![c] = "gone"]
  /\ UNCHANGED <<mutex, server, pc, fd, backlog, accepted, closes>>

-----------------------------------------------------------------------------

WorkerStep(w) ==
  \/ WorkerLock(w) \/ WorkerDequeue(w) \/ WaitForIoStart(w) \/ DoIo(w)

Stop(t) == StopLock(t) \/ StopDrain(t)

AcceptStep == WaitForConnection \/ AcceptLock \/ AcceptEnqueue

MainStep == AwaitAccept \/ AwaitWorkers \/ Free

ClientStep(c) == Connect(c) \/ SendMessage(c) \/ SendFlush(c) \/ HangUp(c)

\* Everything has ended.
Terminated ==
  /\ pc[Main] = "freed"
  /\ UNCHANGED vars

Step ==
  \/ \E w \in Workers : WorkerStep(w)
  \/ \E t \in Threads \ {Main} : Stop(t)
  \/ AcceptStep \/ SocketStolen \/ MainStep \/ StartAsync \/ WantStop \/ StarterEnds
  \/ \E c \in Conns : ClientStep(c)
  \/ Terminated

Next == (Step /\ UNCHANGED spurious) \/ \E w \in Workers : SpuriousWakeup(w)

Spec == Init /\ [][Next]_vars

\* The threads run and the start comes.  Nobody has to connect, to say anything,
\* to stop the server or to steal its path.
Run(A) == A /\ UNCHANGED spurious
Fairness ==
  /\ \A w \in Workers : WF_vars(Run(WorkerStep(w) \/ Stop(w)))
  /\ WF_vars(Run(AcceptStep \/ Stop(Accept)))
  /\ WF_vars(Run(MainStep))
  /\ WF_vars(Run(StartAsync \/ Stop(Starter) \/ StarterEnds))

FairSpec == Spec /\ Fairness

-----------------------------------------------------------------------------
(* Properties *)

Labels == {"joinaccept", "joinworkers", "joinstarter", "freed", "init", "running",
           "poll", "acceptlock", "enqueue", "lock", "dequeue",
           "waiting", "iostart", "io", "stop", "drain", "done", "missing"}

TypeOK ==
  /\ mutex \in Threads \cup {None}
  /\ started \in BOOLEAN /\ shutdown \in BOOLEAN /\ poked \in BOOLEAN
  /\ fifo \in [Slots -> Conns \cup {None}] /\ back \in Slots /\ front \in Slots
  /\ pc \in [Threads -> Labels]
  /\ fd \in [Threads -> Conns \cup {None}]
  /\ \A w \in Workers : pc[w] \in {"iostart", "io"} => fd[w] \in Conns
  /\ client \in [Conns -> {"none", "connected", "partial", "request", "gone"}]
  /\ backlog \subseteq Conns /\ accepted \subseteq Conns
  /\ closes \in [Conns -> Nat] /\ spurious \in 0 .. MaxSpurious

\* Where the server has connection c: in a slot of the queue, or in the hands of a
\* thread
Places(c) == {i \in Slots : fifo[i] = c} \cup {t \in Threads : fd[t] = c}

\* A connection that was accepted is in exactly one place until it is closed, and
\* is closed once: none leaks and none is closed twice, whether it is answered,
\* dropped because the queue is full, drained, or given up in a shutdown.
ClosedOnce ==
  \A c \in Conns : Cardinality(Places(c)) + closes[c] = IF c \in accepted THEN 1 ELSE 0

\* "ASSERT holding mutex": a thread that works on the queue has the mutex to itself,
\* although one thread locks it before the start, another unlocks it, and a stop
\* before the start does not lock it.
FifoUnderMutex ==
  \A t \in Threads : pc[t] \in {"dequeue", "enqueue", "drain"} => mutex = t

\* Nothing is queued after the shutdown has drained the queue.
NothingQueuedAfterStop == shutdown => back = front

\* No connection is left in the queue while every worker sleeps.
NoLostWakeup == back # front => \E w \in Workers : pc[w] \notin {"waiting", "missing"}

\* The queue of connections is used under its mutex only, is empty once a
\* shutdown is requested, and never has a connection that no worker will fetch.
QueueDiscipline == FifoUnderMutex /\ NothingQueuedAfterStop /\ NoLostWakeup

\* The circular buffer is a queue: with QueueSize slots it holds QueueSize - 1
\* connections, and gives them out in the order in which they were accepted.
Used == IF front <= back THEN back - front ELSE back + QueueSize - front
Slot(i) == IF front + i - 1 < QueueSize THEN front + i - 1 ELSE front + i - 1 - QueueSize
Queue == [i \in 1 .. Used |-> fifo[Slot(i)]]
Fifo == INSTANCE BoundedFifo WITH Capacity <- QueueSize - 1, queue <- Queue
ImplementsFifo == Fifo!Spec

\* Worker w waits for its client: for the first byte, or for the rest of a request.
Silent(w) == pc[w] = "iostart" /\ client[fd[w]] = "connected"
Stalled(w) == pc[w] = "io" /\ client[fd[w]] = "partial"

\* Once a shutdown is requested, by whichever thread, every thread ends and the
\* server is freed.  A client that says nothing cannot prevent it; one that stops
\* in the middle of its request, and stays, can, for the worker reads on.
StopsEventually ==
  \/ <>[](\E w \in Workers : Stalled(w))
  \/ shutdown ~> pc[Main] = "freed"

\* A client that has sent its request does not wait for ever: it is answered, or
\* its connection is closed, unless every worker is kept for ever by a client that
\* is silent or stalled, or one that is stalled keeps the server from ending.
ClientReturns ==
  \/ <>[](\/ \A w \in Workers : Silent(w) \/ Stalled(w) \/ pc[w] = "missing"
          \/ shutdown /\ \E w \in Workers : Stalled(w))
  \/ \A c \in Conns : client[c] = "request" ~>
       client[c] = "gone" \/ pc[Main] = "freed"

=============================================================================
