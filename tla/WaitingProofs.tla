--------------------------- MODULE WaitingProofs ----------------------------
(***************************************************************************)
(* Two parts that wait.  lock_file_timeout() waits for a lock at least as  *)
(* long as it was asked to, not much longer, and with growing gaps.  The   *)
(* workers of the simple IPC server wait for connections: the ring they    *)
(* share is a bounded first-in first-out queue, used under its mutex,      *)
(* empty after a shutdown, and a connection in it has a worker that is     *)
(* awake or on its way, if the server is started before the accept         *)
(* thread's first poll() times out.                                        *)
(***************************************************************************)
EXTENDS SimpleIpc, LockBackoff, Sequences, TLAPS

-----------------------------------------------------------------------------
(* lock_file_timeout() *)

USE SMTT(30)

\* The time slept and the time that remains add up to the timeout, and the
\* multiplier is the square of n below the maximum.
BackoffInv ==
  /\ BackoffTypeOK /\ WaitsLongEnough /\ WaitsNotMuchLonger /\ Quadratic
  /\ AttemptsAreSpaced /\ n >= 1
  /\ timeout > 0 => slept + remaining = timeout
  /\ timeout = 0 => slept = 0

\* The square of the next attempt
LEMMA NextSquare ==
  ASSUME NEW k \in Nat PROVE Square(k + 1) = Square(k) + 2 * k + 1
  BY DEF Square

\* Squares grow fast enough for the gap after attempt k, rounded down, to cover
\* the growth of the bound on the time slept.
LEMMA SquareGrows ==
  ASSUME NEW k \in Nat, k >= 2
  PROVE  /\ Square(k) \in Nat /\ Square(k) >= 4 * k - 4
         /\ Square(k - 1) = Square(k - 2) + 2 * k - 3
<1>1. k * k = (k - 2) * (k - 2) + 4 * k - 4 OBVIOUS
<1>2. (k - 2) * (k - 2) >= 0 OBVIOUS
<1>3. (k - 1) * (k - 1) = (k - 2) * (k - 2) + 2 * k - 3 OBVIOUS
<1> QED BY <1>1, <1>2, <1>3 DEF Square

\* The initial states: nothing has been waited.
LEMMA BackoffInvInit == ASSUME BackoffConstants PROVE BackoffInit => BackoffInv
  BY DEF BackoffConstants, BackoffInit, BackoffInv, BackoffTypeOK, WaitsLongEnough, WaitsNotMuchLonger, Quadratic,
      AttemptsAreSpaced, Square, BACKOFF_MAX_MULTIPLIER

\* A gap is charged to the time that remains, and the multiplier follows n.
LEMMA Sleeping == ASSUME BackoffConstants, BackoffInv, Sleep PROVE BackoffInv'
<1> USE DEF BACKOFF_MAX_MULTIPLIER
<1>0. /\ n \in Nat /\ n >= 1 /\ multiplier \in 1 .. 1000
      /\ multiplier = Square(n) \/ multiplier = 1000
      /\ timeout \in Timeouts /\ timeout \in Nat \cup {-1}
      /\ remaining \in Int /\ slept \in Nat
      /\ result = "trying" /\ result' = result /\ timeout' = timeout
  BY DEF BackoffConstants, BackoffInv, BackoffTypeOK, Quadratic, Sleep
<1>1. PICK j \in Jitters : /\ slept' = slept + WaitMs(j, multiplier)
                           /\ remaining' = remaining - WaitMs(j, multiplier)
  BY DEF Sleep
\* One gap is a number of milliseconds below 1.25 times the maximum.
<1>2. WaitMs(j, multiplier) \in Nat /\ WaitMs(j, multiplier) < 1250
  <2>1. j \in 0 .. 499 /\ multiplier \in 1 .. 1000
    BY <1>0 DEF BackoffConstants
  <2>2. (750 + j) * multiplier \in Nat /\ (750 + j) * multiplier <= 1249 * 1000
    BY <2>1
  <2> QED
    BY <2>2 DEF WaitMs
\* It is not shorter than 0.75 times the multiplier, rounded down.
<1>3. \A k \in Nat : multiplier >= 4 * k => WaitMs(j, multiplier) >= 3 * k
  <2>1. j \in 0 .. 499 /\ multiplier \in 1 .. 1000
    BY <1>0 DEF BackoffConstants
  <2>2. (750 + j) * multiplier >= 750 * multiplier /\ (750 + j) * multiplier \in Nat
    BY <2>1
  <2> QED
    BY <2>1, <2>2 DEF WaitMs
<1>4. /\ n' \in Nat /\ multiplier' \in 1 .. 1000
      /\ multiplier' = Square(n') \/ multiplier' = 1000
  <2>1. CASE multiplier + 2 * n + 1 > 1000
    BY <1>0, <2>1 DEF Sleep, NextMultiplier
  <2>2. CASE multiplier + 2 * n + 1 <= 1000
    <3>1. multiplier = Square(n)
      BY <1>0, <2>2
    <3>2. n' = n + 1 /\ multiplier' = multiplier + 2 * n + 1
      BY <1>0, <2>2 DEF Sleep, NextMultiplier
    <3>3. Square(n + 1) = Square(n) + 2 * n + 1
      BY <1>0, NextSquare
    <3>4. multiplier' = Square(n')
      BY <3>1, <3>2, <3>3
    <3>5. n' \in Nat /\ multiplier' \in 1 .. 1000
      BY <1>0, <2>2, <3>2
    <3> QED
      BY <3>4, <3>5
  <2> QED
    BY <1>0, <2>1, <2>2
<1>5. n' >= 1 /\ AttemptsAreSpaced'
  <2>1. CASE n' = n
    BY <1>0, <1>1, <1>2, <2>1, SquareGrows DEF BackoffInv, AttemptsAreSpaced, Square
  <2>2. CASE n' = n + 1 /\ multiplier = Square(n) /\ n >= 2
    <3>1. /\ Square(n) >= 4 * (n - 1) /\ n - 1 \in Nat
          /\ Square(n - 1) = Square(n - 2) + 2 * n - 3
      BY <1>0, <2>2, SquareGrows
    <3>2. WaitMs(j, multiplier) >= 3 * (n - 1) BY <1>3, <2>2, <3>1
    <3>3. slept >= Square(n - 2) BY <2>2 DEF BackoffInv, AttemptsAreSpaced
    <3>4. Square(n - 2) \in Int BY <1>0 DEF Square
    <3>5. slept' >= Square(n - 1) BY <1>0, <1>1, <1>2, <3>1, <3>2, <3>3, <3>4
    <3>6. n' - 2 = n - 1 BY <1>0, <2>2
    <3> QED BY <1>0, <2>2, <3>5, <3>6 DEF AttemptsAreSpaced
  <2>3. CASE n' = n + 1 /\ n = 1
    <3>1. n' - 2 = 0 /\ Square(0) = 0 BY <2>3 DEF Square
    <3> QED BY <1>0, <1>1, <1>2, <2>3, <3>1 DEF AttemptsAreSpaced
  <2>4. n' = n \/ (n' = n + 1 /\ multiplier = Square(n))
    BY <1>0 DEF Sleep, NextMultiplier
  <2> QED BY <1>0, <2>1, <2>2, <2>3, <2>4
<1>6. slept' \in Nat /\ remaining' \in Int
  BY <1>0, <1>1, <1>2
<1>7. timeout > 0 => slept' + remaining' = timeout /\ slept' < timeout + 1250
  BY <1>0, <1>1, <1>2 DEF BackoffInv, Sleep
<1>8. timeout # 0
  BY DEF Sleep
<1>9. BackoffTypeOK'
  BY <1>0, <1>4, <1>6 DEF BackoffTypeOK
<1>10. WaitsLongEnough' /\ Quadratic'
  BY <1>0, <1>4 DEF WaitsLongEnough, Quadratic
<1>11. WaitsNotMuchLonger'
  BY <1>0, <1>7, <1>8 DEF WaitsNotMuchLonger
<1> QED
  BY <1>0, <1>5, <1>7, <1>8, <1>9, <1>10, <1>11 DEF BackoffInv

\* Every step preserves the invariant.
LEMMA BackoffInvKept == ASSUME BackoffConstants PROVE BackoffInv /\ [BackoffNext]_backoffVars => BackoffInv'
<1> SUFFICES ASSUME BackoffInv, [BackoffNext]_backoffVars PROVE BackoffInv'
  OBVIOUS
<1>1. CASE Answer
  BY <1>1 DEF Answer, BackoffInv, BackoffTypeOK, WaitsLongEnough, WaitsNotMuchLonger, Quadratic,
         AttemptsAreSpaced
<1>2. CASE GiveUp
  BY <1>2 DEF GiveUp, BackoffInv, BackoffTypeOK, WaitsLongEnough, WaitsNotMuchLonger, Quadratic,
         AttemptsAreSpaced
<1>3. CASE Sleep
  BY <1>3, Sleeping
<1>4. CASE UNCHANGED backoffVars
  BY <1>4 DEF backoffVars, BackoffInv, BackoffTypeOK, WaitsLongEnough, WaitsNotMuchLonger, Quadratic,
         AttemptsAreSpaced
<1> QED
  BY <1>1, <1>2, <1>3, <1>4 DEF BackoffNext

\* The caller is told that the lock is held only after the whole timeout.
THEOREM TimeoutIsHonoured == BackoffSpec => []WaitsLongEnough
<1>1. BackoffInv => WaitsLongEnough
  BY DEF BackoffInv
<1> QED
  BY <1>1, BackoffInvInit, BackoffInvKept, BackoffAssumption, PTL DEF BackoffSpec

\* It is told at most one longest gap after it.
THEOREM TimeoutIsBounded == BackoffSpec => []WaitsNotMuchLonger
<1>1. BackoffInv => WaitsNotMuchLonger
  BY DEF BackoffInv
<1> QED
  BY <1>1, BackoffInvInit, BackoffInvKept, BackoffAssumption, PTL DEF BackoffSpec

\* Attempts are spread out, rounding included.
THEOREM CallerDoesNotSpin == BackoffSpec => []AttemptsAreSpaced
<1>1. BackoffInv => AttemptsAreSpaced
  BY DEF BackoffInv
<1> QED
  BY <1>1, BackoffInvInit, BackoffInvKept, BackoffAssumption, PTL DEF BackoffSpec

\* The gaps are quadratic in the number of attempts, up to the maximum.
THEOREM BackoffIsQuadratic == BackoffSpec => []Quadratic
<1>1. BackoffInv => Quadratic
  BY DEF BackoffInv
<1> QED
  BY <1>1, BackoffInvInit, BackoffInvKept, BackoffAssumption, PTL DEF BackoffSpec

\* All that lock_file_timeout() says of its retries, for every timeout and every
\* jitter.
THEOREM BackoffAsTold == BackoffSpec => []RetriesAsTold
  BY TimeoutIsHonoured, TimeoutIsBounded, BackoffIsQuadratic, CallerDoesNotSpin, PTL
     DEF RetriesAsTold

-----------------------------------------------------------------------------
(* compat/simple-ipc/ipc-unix-socket.c *)

\* Most leaves are first-order; SMT is named where numbers or function updates
\* need it.
USE ZenonT(30)

\* The labels of each thread; there is a worker.
Roles ==
  /\ pc[Main] \in {"joinaccept", "joinworkers", "joinstarter", "freed"}
  /\ pc[Accept] \in {"poll", "acceptlock", "enqueue", "stop", "drain", "done"}
  /\ pc[Starter] \in {"init", "running", "stop", "drain", "done"}
  /\ \A w \in Workers : pc[w] \in {"lock", "dequeue", "waiting", "iostart", "io",
                                   "stop", "drain", "done", "missing"}
  /\ \E w \in Workers : pc[w] # "missing"

\* Until the server is started the mutex is locked, and who may stop it then has
\* locked it.
LockedAtFirst ==
  /\ ~started => mutex = Starter \/ shutdown
  /\ pc[Starter] = "init" => ~started
  /\ pc[Starter] = "running" => started
  /\ pc[Starter] \in {"init", "stop"} /\ ~started => mutex = Starter
  /\ \A w \in Workers : pc[w] \in {"iostart", "io", "stop"} => started
  /\ pc[Accept] = "stop" => started

\* The accept thread comes back without a connection only in a shutdown.
NoneMeansShutdown ==
  /\ poked => shutdown
  /\ pc[Accept] \in {"acceptlock", "enqueue"} /\ fd[Accept] = None => shutdown

\* The slots in use hold connections.
QueueOK == \A i \in 1 .. Used : fifo[Slot(i)] \in Conns

IndInv ==
  /\ TypeOK /\ Roles /\ LockedAtFirst /\ NoneMeansShutdown /\ QueueOK
  /\ FifoUnderMutex /\ NothingQueuedAfterStop /\ NoLostWakeup

\* Nobody but Starter has started, and the queue is empty.
LEMMA Initially == Init => IndInv
<1> SUFFICES ASSUME Init PROVE IndInv
  OBVIOUS
<1> USE ConstantsAssumption DEF Init, Threads, Slots
<1>a. pc \in [Threads -> Labels]
  BY DEF Labels
<1>b. 0 \in Slots
  BY SMTT(30)
<1>c. /\ \A w \in Workers : pc[w] \in {"lock", "missing"}
      /\ \E w \in Workers : pc[w] # "missing"
  <2>1. PICK pool \in (SUBSET Workers) \ {{}} :
          pc = [t \in Threads |-> CASE t = Main -> "joinaccept" [] t = Accept -> "poll"
                                    [] t = Starter -> "init" [] t \in pool -> "lock"
                                    [] OTHER -> "missing"]
    OBVIOUS
  <2>2. \A w \in Workers : pc[w] = IF w \in pool THEN "lock" ELSE "missing"
    BY <2>1, SMTT(30)
  <2>3. PICK w \in pool : w \in Workers
    OBVIOUS
  <2> QED BY <2>2, <2>3, SMTT(30)
<1>d. fifo \in [Slots -> Conns \cup {None}] /\ back \in Slots /\ front \in Slots
  BY <1>b
<1>e. fd \in [Threads -> Conns \cup {None}] /\ closes \in [Conns -> Nat]
  OBVIOUS
<1>f. mutex \in Threads \cup {None} /\ client \in [Conns -> {"none", "connected", "partial", "request", "gone"}]
      /\ backlog \subseteq Conns /\ accepted \subseteq Conns
  OBVIOUS
<1>g. spurious \in 0 .. MaxSpurious
  BY SMTT(30)
<1>h. started \in BOOLEAN /\ shutdown \in BOOLEAN /\ poked \in BOOLEAN
  OBVIOUS
<1>1. TypeOK
  BY <1>a, <1>c, <1>d, <1>e, <1>f, <1>g, <1>h DEF TypeOK
<1>2. Roles /\ LockedAtFirst /\ NoneMeansShutdown
  BY <1>c DEF Roles, LockedAtFirst, NoneMeansShutdown
<1>3. QueueOK
  BY SMTT(30) DEF QueueOK, Used
<1>4. FifoUnderMutex /\ NothingQueuedAfterStop /\ NoLostWakeup
  BY DEF FifoUnderMutex, NothingQueuedAfterStop, NoLostWakeup
<1> QED
  BY <1>1, <1>2, <1>3, <1>4 DEF IndInv

\* A step that leaves the queue alone leaves its slots in use alone.
LEMMA QueueFrame ==
  ASSUME QueueOK, UNCHANGED <<fifo, back, front>>
  PROVE  QueueOK'
  BY DEF QueueOK, Used, Slot

\* The steps of a worker outside the queue
LEMMA WorkerOutside ==
  ASSUME IndInv, NEW w \in Workers,
         WorkerLock(w) \/ WaitForIoStart(w) \/ DoIo(w), UNCHANGED spurious
  PROVE  IndInv'
<1> USE ConstantsAssumption DEF IndInv, WorkerLock, WaitForIoStart, DoIo, Goto, Lock, Close,
        CloseNone, LetGo, server, clients, Threads
<1>1. TypeOK'
  BY SMTT(30) DEF TypeOK, Labels
<1>2. Roles' /\ LockedAtFirst' /\ NoneMeansShutdown'
  BY SMTT(30) DEF TypeOK, Roles, LockedAtFirst, NoneMeansShutdown
<1>3. QueueOK'
  BY QueueFrame
<1>4. FifoUnderMutex' /\ NothingQueuedAfterStop' /\ NoLostWakeup'
  BY SMTT(30) DEF TypeOK, FifoUnderMutex, NothingQueuedAfterStop, NoLostWakeup
<1> QED
  BY <1>1, <1>2, <1>3, <1>4

\* A spurious wakeup of a worker
LEMMA Waking ==
  ASSUME IndInv, NEW w \in Workers, SpuriousWakeup(w)
  PROVE  IndInv'
<1> USE ConstantsAssumption DEF IndInv, SpuriousWakeup, Goto, server, clients, Threads
<1>1. TypeOK'
  BY SMTT(30) DEF TypeOK, Labels
<1>2. Roles' /\ LockedAtFirst' /\ NoneMeansShutdown'
  BY DEF TypeOK, Roles, LockedAtFirst, NoneMeansShutdown
<1>3. QueueOK'
  BY QueueFrame
<1>4. FifoUnderMutex' /\ NothingQueuedAfterStop' /\ NoLostWakeup'
  BY DEF TypeOK, FifoUnderMutex, NothingQueuedAfterStop, NoLostWakeup
<1> QED
  BY <1>1, <1>2, <1>3, <1>4

\* Taking the oldest connection: what stays in use was in use.
LEMMA Dequeued ==
  ASSUME TypeOK, QueueOK, NEW w \in Workers, FifoDequeue(w), UNCHANGED back
  PROVE  /\ fifo[front] \in Conns
         /\ Used \in Nat /\ Used' = Used - 1
         /\ fifo' \in [Slots -> Conns \cup {None}] /\ front' \in Slots
         /\ \A i \in 1 .. Used' : i + 1 \in 1 .. Used /\ fifo'[Slot(i)'] = fifo[Slot(i + 1)]
<1> USE ConstantsAssumption DEF TypeOK, FifoDequeue, Slots, Succ, Used
<1>1. Used \in Nat /\ Used >= 1 /\ Slot(1) = front
  BY SMTT(30) DEF Slot
<1>2. fifo[front] \in Conns
  <2>1. 1 \in 1 .. Used
    BY <1>1, SMTT(30)
  <2> QED BY <1>1, <2>1 DEF QueueOK
<1>3. Used' = Used - 1 /\ front' \in Slots
  BY SMTT(30)
<1>4. fifo' \in [Slots -> Conns \cup {None}]
  OBVIOUS
<1>5. ASSUME NEW i \in 1 .. Used' 
      PROVE  i + 1 \in 1 .. Used /\ fifo'[Slot(i)'] = fifo[Slot(i + 1)]
  <2>1. i + 1 \in 1 .. Used
    BY <1>1, <1>3, <1>5, SMTT(30)
  <2>2. Slot(i)' = Slot(i + 1) /\ Slot(i + 1) \in Slots /\ Slot(i + 1) # front
    BY <1>5, SMTT(30) DEF Slot
  <2> QED
    BY <2>1, <2>2
<1> QED
  BY <1>1, <1>2, <1>3, <1>4, <1>5

\* A worker takes a connection from the queue, which preserves the whole invariant.
LEMMA Dequeueing ==
  ASSUME IndInv, NEW w \in Workers, WorkerDequeue(w), UNCHANGED spurious
  PROVE  IndInv'
<1> USE ConstantsAssumption DEF IndInv, WorkerDequeue, Goto, Unlock, clients, Threads
<1>0. mutex = w
  BY DEF FifoUnderMutex
<1>1. TypeOK' /\ QueueOK'
  <2>1. CASE FifoDequeue(w)
    <3>1. TypeOK'
      BY <2>1, Dequeued, ZenonT(30) DEF TypeOK, Labels, FifoDequeue
    <3>2. QueueOK'
      BY <2>1, Dequeued DEF QueueOK
    <3> QED
      BY <3>1, <3>2
  <2>2. CASE ~FifoDequeue(w)
    BY <2>2, QueueFrame, SMTT(30) DEF TypeOK, Labels
  <2> QED
    BY <2>1, <2>2
<1>2. Roles' /\ LockedAtFirst' /\ NoneMeansShutdown'
  <2>1. fd'[Accept] = fd[Accept]
    BY SMTT(30) DEF FifoDequeue, TypeOK
  <2> QED
    BY <1>0, <2>1, SMTT(30) DEF TypeOK, Roles, LockedAtFirst, NoneMeansShutdown
<1>3. FifoUnderMutex' /\ NothingQueuedAfterStop' /\ NoLostWakeup'
  BY <1>0, SMTT(30) DEF TypeOK, FifoUnderMutex, NothingQueuedAfterStop, NoLostWakeup, FifoDequeue
<1> QED
  BY <1>1, <1>2, <1>3

\* The steps of the accept thread outside the queue
LEMMA AcceptOutside ==
  ASSUME IndInv, ~SlowStart, WaitForConnection \/ SocketStolen \/ AcceptLock,
         UNCHANGED spurious
  PROVE  IndInv'
<1> USE ConstantsAssumption DEF IndInv, WaitForConnection, SocketStolen, AcceptLock, Goto,
        Lock, server, clients, Threads
<1>1. TypeOK'
  BY SMTT(30) DEF TypeOK, Labels
<1>2. Roles' /\ LockedAtFirst' /\ NoneMeansShutdown'
  BY SMTT(30) DEF TypeOK, Roles, LockedAtFirst, NoneMeansShutdown
<1>3. QueueOK'
  BY QueueFrame
<1>4. FifoUnderMutex' /\ NothingQueuedAfterStop' /\ NoLostWakeup'
  BY SMTT(30) DEF TypeOK, FifoUnderMutex, NothingQueuedAfterStop, NoLostWakeup
<1> QED
  BY <1>1, <1>2, <1>3, <1>4

\* Adding a connection: what was in use stays, and the connection comes last.
LEMMA Enqueued ==
  ASSUME TypeOK, NEW c \in Conns, Succ(back) # front,
         fifo' = [fifo EXCEPT ![back] = c], back' = Succ(back), UNCHANGED front
  PROVE  /\ Used \in Nat /\ Used < QueueSize - 1 /\ Used' = Used + 1
         /\ fifo' \in [Slots -> Conns \cup {None}] /\ back' \in Slots
         /\ \A i \in 1 .. Used : fifo'[Slot(i)'] = fifo[Slot(i)]
         /\ fifo'[Slot(Used)'] = c
<1> USE ConstantsAssumption DEF TypeOK, Slots, Succ, Used
<1>1. Used \in Nat /\ Used < QueueSize - 1 /\ Used' = Used + 1
  BY SMTT(30)
<1>2. fifo' \in [Slots -> Conns \cup {None}] /\ back' \in Slots
  BY SMTT(30)
<1>3. ASSUME NEW i \in 1 .. Used PROVE fifo'[Slot(i)'] = fifo[Slot(i)]
  <2>1. Slot(i)' = Slot(i) /\ Slot(i) \in Slots /\ Slot(i) # back
    BY <1>3, SMTT(30) DEF Slot
  <2> QED
    BY <2>1
<1>4. Slot(Used)' = back
  BY SMTT(30) DEF Slot
<1>5. fifo'[back] = c
  OBVIOUS
<1> QED
  BY <1>1, <1>2, <1>3, <1>4, <1>5

\* The accept thread adds a connection and signals, or closes it if the queue is full.
LEMMA Enqueueing ==
  ASSUME IndInv, AcceptEnqueue, UNCHANGED spurious
  PROVE  IndInv'
<1> USE ConstantsAssumption DEF IndInv, AcceptEnqueue, Goto, Unlock, BroadcastAndGoto, LetGo,
        Close, CloseNone, clients, Threads
<1>0. mutex = Accept
  BY DEF FifoUnderMutex
<1>1. CASE shutdown
  <2>1. TypeOK'
    BY <1>1, SMTT(30) DEF TypeOK, Labels
  <2>2. Roles' /\ LockedAtFirst' /\ NoneMeansShutdown'
    BY <1>0, <1>1, SMTT(30) DEF TypeOK, Roles, LockedAtFirst, NoneMeansShutdown
  <2>3. QueueOK'
    BY <1>1, QueueFrame
  <2>4. FifoUnderMutex' /\ NothingQueuedAfterStop' /\ NoLostWakeup'
    BY <1>0, <1>1, SMTT(30) DEF TypeOK, FifoUnderMutex, NothingQueuedAfterStop, NoLostWakeup
  <2> QED
    BY <2>1, <2>2, <2>3, <2>4
<1>2. CASE ~shutdown
  <2>1. fd[Accept] \in Conns
    BY <1>2 DEF NoneMeansShutdown, TypeOK
  <2>2. FifoEnqueue(fd[Accept]) /\ BroadcastAndGoto(Accept, "poll")
    BY <1>2
  <2>3. pc' \in [Threads -> Labels] /\ fd' \in [Threads -> Conns \cup {None}]
        /\ closes' \in [Conns -> Nat]
        /\ client' \in [Conns -> {"none", "connected", "partial", "request", "gone"}]
    BY <2>2, SMTT(30) DEF TypeOK, Labels, FifoEnqueue
  <2>4. fifo' \in [Slots -> Conns \cup {None}] /\ back' \in Slots
    BY <2>1, <2>2, Enqueued DEF FifoEnqueue, TypeOK
  <2>5. TypeOK'
    BY <2>2, <2>3, <2>4 DEF TypeOK
  <2>6. QueueOK'
    <3>1. CASE Succ(back) # front
      <4>1. /\ Used \in Nat /\ Used' = Used + 1
            /\ \A i \in 1 .. Used : fifo'[Slot(i)'] = fifo[Slot(i)]
            /\ fifo'[Slot(Used)'] = fd[Accept]
        BY <2>1, <2>2, <3>1, Enqueued DEF FifoEnqueue
      <4>2. ASSUME NEW i \in 1 .. Used' PROVE fifo'[Slot(i)'] \in Conns
        <5>1. CASE i \in 1 .. Used
          BY <4>1, <5>1 DEF QueueOK
        <5>2. CASE i = Used'
          BY <2>1, <4>1, <5>2
        <5> QED
          BY <4>1, <4>2, <5>1, <5>2, SMTT(30)
      <4> QED
        BY <4>2 DEF QueueOK
    <3>2. CASE Succ(back) = front
      BY <2>2, <3>2, QueueFrame DEF FifoEnqueue
    <3> QED
      BY <3>1, <3>2
  <2>7. Roles' /\ LockedAtFirst' /\ NoneMeansShutdown'
    BY <1>0, <1>2, <2>2 DEF TypeOK, Roles, LockedAtFirst, NoneMeansShutdown
  <2>8. FifoUnderMutex' /\ NothingQueuedAfterStop'
    BY <1>0, <1>2, <2>2 DEF TypeOK, FifoUnderMutex, NothingQueuedAfterStop
  <2>9. NoLostWakeup'
    <3>1. PICK w \in Workers : pc[w] # "missing"
      BY DEF Roles
    <3>2. pc'[w] \notin {"waiting", "missing"}
      BY <2>2, <3>1, SMTT(30)
    <3> QED BY <3>2 DEF NoLostWakeup
  <2> QED
    BY <2>5, <2>6, <2>7, <2>8, <2>9
<1> QED
  BY <1>1, <1>2

\* Starting the server, or asking for a stop
LEMMA Starting ==
  ASSUME IndInv, StartAsync \/ WantStop, UNCHANGED spurious
  PROVE  IndInv'
<1> USE ConstantsAssumption DEF IndInv, StartAsync, WantStop, Goto, Unlock, server, clients,
        Threads
<1>0. pc[Starter] \in {"init", "running"} /\ (pc[Starter] = "init" => mutex = Starter)
  BY DEF LockedAtFirst
<1>1. TypeOK'
  BY ZenonT(30) DEF TypeOK, Labels
<1>2. Roles' /\ NoneMeansShutdown'
  BY <1>0, SMTT(30) DEF TypeOK, Roles, NoneMeansShutdown
<1>5. LockedAtFirst'
  <2>1. CASE StartAsync
    BY <1>0, <2>1 DEF TypeOK, LockedAtFirst
  <2>2. CASE WantStop
    BY <1>0, <2>2 DEF TypeOK, LockedAtFirst
  <2> QED
    BY <2>1, <2>2
<1>3. QueueOK'
  BY QueueFrame
<1>4. FifoUnderMutex' /\ NothingQueuedAfterStop' /\ NoLostWakeup'
  BY <1>0, SMTT(30) DEF TypeOK, FifoUnderMutex, NothingQueuedAfterStop, NoLostWakeup
<1> QED
  BY <1>1, <1>2, <1>3, <1>4, <1>5

\* Joining the threads and freeing the server
LEMMA Ending ==
  ASSUME IndInv, StarterEnds \/ MainStep, UNCHANGED spurious
  PROVE  IndInv'
<1> USE ConstantsAssumption DEF IndInv, StarterEnds, MainStep, AwaitAccept, AwaitWorkers,
        Free, Goto, server, clients, Threads
<1>1. TypeOK'
  BY SMTT(30) DEF TypeOK, Labels
<1>2. Roles' /\ LockedAtFirst' /\ NoneMeansShutdown'
  BY SMTT(30) DEF TypeOK, Roles, LockedAtFirst, NoneMeansShutdown
<1>3. QueueOK'
  BY QueueFrame
<1>4. FifoUnderMutex' /\ NothingQueuedAfterStop' /\ NoLostWakeup'
  BY SMTT(30) DEF TypeOK, FifoUnderMutex, NothingQueuedAfterStop, NoLostWakeup
<1> QED
  BY <1>1, <1>2, <1>3, <1>4

\* ipc_server_stop_async() on any thread
LEMMA Stopping ==
  ASSUME IndInv, NEW t \in Threads \ {Main}, Stop(t), UNCHANGED spurious
  PROVE  IndInv'
<1> USE ConstantsAssumption DEF IndInv, Goto, Lock, Unlock, Close, BroadcastAndGoto, server,
        clients, Threads
<1>1. CASE StopLock(t)
  <2>0. ~started => t = Starter /\ mutex = Starter
    BY <1>1 DEF StopLock, LockedAtFirst
  <2>1. TypeOK'
    BY <1>1 DEF StopLock, TypeOK, Labels
  <2>2. Roles' /\ LockedAtFirst' /\ NoneMeansShutdown'
    BY <1>1, <2>0 DEF StopLock, TypeOK, Roles, LockedAtFirst, NoneMeansShutdown
  <2>3. QueueOK'
    BY <1>1, QueueFrame DEF StopLock
  <2>4. FifoUnderMutex' /\ NothingQueuedAfterStop' /\ NoLostWakeup'
    BY <1>1, <2>0, SMTT(30) DEF StopLock, TypeOK, FifoUnderMutex, NothingQueuedAfterStop, NoLostWakeup
  <2> QED
    BY <2>1, <2>2, <2>3, <2>4
<1>2. CASE StopDrain(t)
  <2> USE <1>2 DEF StopDrain
  <2>0. mutex = t
    BY DEF FifoUnderMutex
  <2>1. TypeOK'
    BY SMTT(30) DEF TypeOK, Labels
  <2>2. Roles' /\ LockedAtFirst' /\ NoneMeansShutdown'
    BY <2>0, SMTT(30) DEF TypeOK, Roles, LockedAtFirst, NoneMeansShutdown
  <2>3. QueueOK'
    BY SMTT(30) DEF QueueOK, Used, TypeOK, Slots
  <2>4. FifoUnderMutex' /\ NothingQueuedAfterStop' /\ NoLostWakeup'
    BY <2>0 DEF TypeOK, FifoUnderMutex, NothingQueuedAfterStop, NoLostWakeup
  <2> QED
    BY <2>1, <2>2, <2>3, <2>4
<1> QED
  BY <1>1, <1>2 DEF Stop

\* What clients do touches neither the queue nor the threads.
LEMMA Frame ==
  ASSUME IndInv,
         ((\E c \in Conns : ClientStep(c)) /\ UNCHANGED spurious) \/ UNCHANGED vars
  PROVE  IndInv'
<1> USE DEF IndInv, ClientStep, Connect, SendMessage, SendFlush, HangUp, vars, server, clients
<1>1. TypeOK'
  BY SMTT(30) DEF TypeOK
<1>2. Roles' /\ LockedAtFirst' /\ NoneMeansShutdown'
  BY SMTT(30) DEF Roles, LockedAtFirst, NoneMeansShutdown
<1>3. QueueOK'
  BY QueueFrame
<1>4. FifoUnderMutex' /\ NothingQueuedAfterStop' /\ NoLostWakeup'
  BY SMTT(30) DEF FifoUnderMutex, NothingQueuedAfterStop, NoLostWakeup
<1> QED
  BY <1>1, <1>2, <1>3, <1>4

\* Every step of every thread preserves the invariant.
LEMMA Inductive ==
  ASSUME IndInv, [Next]_vars, ~SlowStart
  PROVE  IndInv'
<1>1. CASE Step /\ UNCHANGED spurious
  BY <1>1, WorkerOutside, Dequeueing, AcceptOutside, Enqueueing, Starting, Ending,
     Stopping, Frame DEF Step, WorkerStep, AcceptStep, Terminated
<1>2. CASE \E w \in Workers : SpuriousWakeup(w)
  BY <1>2, Waking
<1> QED
  BY <1>1, <1>2, Frame DEF Next

\* All of it together, for a server that is started in time.
THEOREM InvariantHolds ==
  ASSUME ~SlowStart
  PROVE  Spec => []IndInv
<1>1. IndInv /\ [Next]_vars => IndInv'
  BY Inductive
<1> QED
  BY <1>1, Initially, PTL DEF Spec

\* A thread that works on the queue has the mutex, before the start, too.
THEOREM MutexHeld ==
  ASSUME ~SlowStart
  PROVE  Spec => []FifoUnderMutex
<1>1. IndInv => FifoUnderMutex
  BY DEF IndInv
<1> QED
  BY <1>1, InvariantHolds, PTL

\* Nothing is in the queue once a shutdown is requested.
THEOREM StopEmptiesQueue ==
  ASSUME ~SlowStart
  PROVE  Spec => []NothingQueuedAfterStop
<1>1. IndInv => NothingQueuedAfterStop
  BY DEF IndInv
<1> QED
  BY <1>1, InvariantHolds, PTL

\* A connection in the queue finds a worker that is awake.
THEOREM WakeupsArrive ==
  ASSUME ~SlowStart
  PROVE  Spec => []NoLostWakeup
<1>1. IndInv => NoLostWakeup
  BY DEF IndInv
<1> QED
  BY <1>1, InvariantHolds, PTL

\* The three together are the discipline of the queue.
THEOREM QueueDisciplined ==
  ASSUME ~SlowStart
  PROVE  Spec => []QueueDiscipline
  BY MutexHeld, StopEmptiesQueue, WakeupsArrive, PTL DEF QueueDiscipline

\* The queue as a sequence: empty, one longer, one shorter.
LEMMA QueueSeq ==
  ASSUME TypeOK, QueueOK
  PROVE  Used \in Nat /\ Queue \in Seq(Conns) /\ Len(Queue) = Used
<1>1. Used \in Nat
  BY ConstantsAssumption, SMTT(30) DEF TypeOK, Used, Slots
<1>2. Queue \in [1 .. Used -> Conns]
  BY DEF Queue, QueueOK
<1> QED
  BY <1>1, <1>2, SMTT(30) DEF Queue

\* Every step leaves the queue as it was, adds at its end, takes from its front, or empties it.
LEMMA QueueStep ==
  ASSUME IndInv, IndInv', [Next]_vars
  PROVE  [Fifo!Next]_Queue
<1> USE DEF IndInv
<1>0. /\ Used \in Nat /\ Queue \in Seq(Conns) /\ Len(Queue) = Used
      /\ Used' \in Nat /\ Queue' \in Seq(Conns) /\ Len(Queue') = Used'
  <2>1. Used \in Nat /\ Queue \in Seq(Conns) /\ Len(Queue) = Used
    BY QueueSeq
  <2>2. Used' \in Nat /\ Queue' \in [1 .. Used' -> Conns]
    <3>0. back' \in Slots /\ front' \in Slots
      BY DEF TypeOK
    <3>1. \A b, f \in Slots :
            (IF f <= b THEN b - f ELSE b + QueueSize - f) \in Nat
      BY ConstantsAssumption, SMTT(30) DEF Slots
    <3>2. Used' \in Nat
      BY <3>0, <3>1 DEF Used
    <3> QED
      BY <3>2 DEF Queue, QueueOK
  <2>3. Queue' \in Seq(Conns) /\ Len(Queue') = Used'
    BY <2>2, SMTT(30) DEF Queue
  <2> QED
    BY <2>1, <2>2, <2>3
<1>1. CASE UNCHANGED <<fifo, back, front>>
  BY <1>1 DEF Queue, Used, Slot
<1>2. ASSUME NEW w \in Workers, WorkerDequeue(w), FifoDequeue(w) PROVE Fifo!Dequeue
  <2>1. /\ Used' = Used - 1
        /\ \A i \in 1 .. Used' : i + 1 \in 1 .. Used /\ fifo'[Slot(i)'] = fifo[Slot(i + 1)]
    BY <1>2, Dequeued DEF WorkerDequeue
  <2>2. Queue # <<>> /\ Tail(Queue) \in Seq(Conns) /\ Len(Tail(Queue)) = Used - 1
    BY <1>0, <2>1, SMTT(30)
  <2>3. ASSUME NEW i \in 1 .. Used' PROVE Queue'[i] = Tail(Queue)[i]
    BY <1>0, <2>1, <2>2, <2>3, SMTT(30) DEF Queue
  <2>4. Queue' = Tail(Queue)
    BY <1>0, <2>1, <2>2, <2>3, SMTT(30)
  <2> QED
    BY <2>2, <2>4 DEF Fifo!Dequeue
<1>3. ASSUME AcceptEnqueue, ~shutdown, Succ(back) # front PROVE Fifo!Enqueue
  <2>1. fd[Accept] \in Conns
    BY <1>3 DEF NoneMeansShutdown, TypeOK, AcceptEnqueue, Threads
  <2>2. /\ Used < QueueSize - 1 /\ Used' = Used + 1
        /\ \A i \in 1 .. Used : fifo'[Slot(i)'] = fifo[Slot(i)]
        /\ fifo'[Slot(Used)'] = fd[Accept]
    BY <1>3, <2>1, Enqueued DEF AcceptEnqueue, FifoEnqueue
  <2>3. Append(Queue, fd[Accept]) \in Seq(Conns) /\ Len(Append(Queue, fd[Accept])) = Used + 1
    BY <1>0, <2>1, SMTT(30)
  <2>4. ASSUME NEW i \in 1 .. Used' PROVE Queue'[i] = Append(Queue, fd[Accept])[i]
    <3>1. CASE i \in 1 .. Used
      BY <1>0, <2>1, <2>2, <3>1, SMTT(30) DEF Queue
    <3>2. CASE i = Used'
      BY <1>0, <2>1, <2>2, <3>2, SMTT(30) DEF Queue
    <3> QED
      BY <1>0, <2>2, <2>4, <3>1, <3>2, SMTT(30)
  <2>5. Queue' = Append(Queue, fd[Accept])
    BY <1>0, <2>2, <2>3, <2>4, SMTT(30)
  <2> QED
    BY <1>0, <2>1, <2>2, <2>5 DEF Fifo!Enqueue
<1>4. ASSUME NEW t \in Threads, StopDrain(t) PROVE Fifo!Clear
  <2>1. Used' = 0
    BY <1>4, SMTT(30) DEF StopDrain, Used, TypeOK, Slots
  <2> QED
    BY <1>0, <2>1, SMTT(30) DEF Fifo!Clear
<1>5. \/ UNCHANGED <<fifo, back, front>>
      \/ \E w \in Workers : WorkerDequeue(w) /\ FifoDequeue(w)
      \/ AcceptEnqueue /\ ~shutdown /\ Succ(back) # front
      \/ \E t \in Threads : StopDrain(t)
  BY ZenonT(30) DEF Next, Step, WorkerStep, WorkerLock, WorkerDequeue, WaitForIoStart, DoIo, Stop,
         StopLock, AcceptStep, WaitForConnection, SocketStolen, AcceptLock, AcceptEnqueue,
         FifoEnqueue, MainStep, AwaitAccept, AwaitWorkers, Free, StartAsync, WantStop,
         StarterEnds, ClientStep, Connect, SendMessage, SendFlush, HangUp, Terminated, SpuriousWakeup,
         server, vars
<1> QED
  BY <1>1, <1>2, <1>3, <1>4, <1>5 DEF Fifo!Next

\* The circular buffer implements the bounded queue.
THEOREM RingIsQueue ==
  ASSUME ~SlowStart
  PROVE  Spec => ImplementsFifo
<1>1. Init => Fifo!Init
  <2> SUFFICES ASSUME Init PROVE Queue = <<>>
    BY DEF Fifo!Init
  <2>1. TypeOK /\ QueueOK
    BY Initially DEF IndInv
  <2>2. Used = 0
    BY SMTT(30) DEF Init, Used
  <2> QED
    BY <2>1, <2>2, QueueSeq, SMTT(30)
<1>2. IndInv /\ IndInv' /\ [Next]_vars => [Fifo!Next]_Queue
  BY QueueStep
<1> QED
  BY <1>1, <1>2, InvariantHolds, PTL DEF Spec, ImplementsFifo, Fifo!Spec
=============================================================================
