-------------------------- MODULE FilesRefsProofs ---------------------------
(***************************************************************************)
(* The locks of FilesRefs: every step keeps the type invariant; a step of  *)
(* one process leaves alone what the others rely on (StepFrame), and keeps *)
(* what it relies on itself (StepOwn).                                     *)
(***************************************************************************)
EXTENDS FilesRefs, TLAPS

\* Most leaves are first-order; SMT is named where numbers or function updates
\* need it.
USE ZenonT(30)

\* The inductive invariant: per process, what its label implies for its local
\* variables and locks.  LockDiscipline alone is not inductive: that the lock is
\* still there at the unlink() needs that it covers the updates not yet visited.
Invariant(p) == Control(p) /\ OwnLocks(p) /\ LockedRead(p)
IndInv == TypeOK /\ \A p \in Procs : Invariant(p)

\* A transaction is a function from some references to updates.
LEMMA TxTypeElements ==
  /\ \A S \in SUBSET Refs : \A f \in [S -> UpdateType] : f \in TxType
  /\ \A t \in TxType : DOMAIN t \subseteq Refs /\ t \in [DOMAIN t -> UpdateType]
BY DEF TxType

\* Forgetting the local variables leaves them well typed.
LEMMA FinishType ==
  ASSUME NEW p \in Procs, TypeOK, Finish(p)
  PROVE  /\ pc' \in [Procs -> Labels] /\ cur' \in [Procs -> Refs \cup {NULL}]
         /\ op' \in [Procs -> {"none", "txn", "prune", "pack", "read", "list"}]
         /\ todo' \in [Procs -> SUBSET Refs] /\ toPrune' \in [Procs -> SUBSET Refs]
         /\ tries' \in [Procs -> 0 .. MaxRetries]
         /\ TypeData'
         /\ tx' \in [Procs -> TxType]
<1>1. NoTx \in TxType
  <2>1. NoTx \in [{} -> UpdateType] BY DEF NoTx
  <2> QED BY <2>1, TxTypeElements
<1>2. AllNull \in [Refs -> OidOrNull] BY DEF AllNull, OidOrNull
<1>3. TypeData'
  BY <1>2 DEF Finish, TypeOK, TypeData
<1>4. tx' \in [Procs -> TxType]
  BY <1>1 DEF Finish, TypeOK
<1> QED BY <1>3, <1>4, SMTT(30) DEF Finish, TypeOK, TypeControl, Labels, MaxRetries

\* Entering a loop of files_transaction_finish() keeps the types.
LEMMA EnterType ==
  ASSUME NEW p \in Procs, NEW l \in Labels, TypeOK, Enter(p, l)
  PROVE  pc' \in [Procs -> Labels] /\ todo' \in [Procs -> SUBSET Refs]
<1>1. Work(p, l) \subseteq Refs BY TxTypeElements DEF Work, TypeOK
<1> QED BY <1>1 DEF Enter, Goto, TypeOK, TypeControl

\* The loops follow one another at labels of the program.
LEMMA AfterLabels ==
  ASSUME NEW p
  PROVE  /\ AfterPacked(p) \in Labels /\ AfterReflogs(p) \in Labels
         /\ AfterCommits(p) \in Labels /\ "commit" \in Labels
         /\ "cleanup" \in Labels
BY DEF AfterPacked, AfterReflogs, AfterCommits, Labels

\* So does going on to the next reference of a loop.
LEMMA VisitedType ==
  ASSUME NEW p \in Procs, NEW l \in Labels, NEW r, TypeOK, Visited(p, r, l)
  PROVE  pc' \in [Procs -> Labels] /\ todo' \in [Procs -> SUBSET Refs]
<1>1. CASE todo[p] = {r} BY <1>1, EnterType DEF Visited
<1>2. CASE todo[p] # {r} BY <1>2, SMTT(30) DEF Visited, TypeOK, TypeControl
<1> QED BY <1>1, <1>2

\* Going on to the next reference to lock leads to a label of the program.
LEMMA AfterLockingLabel ==
  ASSUME NEW p, NEW u, NEW rest PROVE AfterLocking(p, u, rest) \in Labels
BY DEF AfterLocking, Labels

\* Rejecting one update keeps the types.
LEMMA RejectType ==
  ASSUME NEW p \in Procs, NEW r, TypeOK, Reject(p, r)
  PROVE  /\ pc' \in [Procs -> Labels] /\ todo' \in [Procs -> SUBSET Refs]
         /\ tx' \in [Procs -> TxType]
<1> DEFINE others == [x \in DOMAIN tx[p] \ {r} |-> tx[p][x]]
           rest == todo[p] \ {r}
<1>1. tx[p] \in TxType BY DEF TypeOK
<1>2. others \in [DOMAIN tx[p] \ {r} -> UpdateType]
  BY <1>1, TxTypeElements
<1>3. others \in TxType BY <1>1, <1>2, TxTypeElements
<1>4. rest \in SUBSET Refs BY DEF TypeOK, TypeControl
<1>5. /\ tx' = [tx EXCEPT ![p] = others] /\ todo' = [todo EXCEPT ![p] = rest]
      /\ pc' = [pc EXCEPT ![p] = AfterLocking(p, others, rest)]
  BY DEF Reject, Goto
<1>6. AfterLocking(p, others, rest) \in Labels BY AfterLockingLabel
<1> HIDE DEF others, rest
<1> QED BY <1>3, <1>4, <1>5, <1>6 DEF TypeOK, TypeControl

\* The end of a locked read keeps the types.
LEMMA LockedReadType ==
  ASSUME NEW p \in Procs, NEW v \in OidOrNull, NEW ip \in BOOLEAN,
         TypeOK, LockedReadDone(p, v, ip)
  PROVE  /\ pc' \in [Procs -> Labels] /\ cur' \in [Procs -> Refs \cup {NULL}]
         /\ todo' \in [Procs -> SUBSET Refs] /\ tries' \in [Procs -> 0 .. MaxRetries]
         /\ old' \in [Procs -> [Refs -> OidOrNull]]
         /\ isPacked' \in [Procs -> [Refs -> BOOLEAN]]
         /\ tx' \in [Procs -> TxType]
         /\ refLock' \in [Refs -> Procs \cup {Nobody}]
<1> DEFINE rest == todo[p] \ {cur[p]}
<1>1. rest \in SUBSET Refs BY DEF TypeOK, TypeControl
<1>2. AfterLocking(p, tx[p], rest) \in Labels /\ "cleanup" \in Labels
  BY AfterLockingLabel DEF Labels
<1>3. \/ /\ pc' = [pc EXCEPT ![p] = AfterLocking(p, tx[p], rest)]
         /\ todo' = [todo EXCEPT ![p] = rest] /\ tx' = tx
      \/ pc' = [pc EXCEPT ![p] = "cleanup"] /\ todo' = todo /\ tx' = tx
      \/ Reject(p, cur[p])
  BY DEF LockedReadDone, Goto
<1>4. /\ pc' \in [Procs -> Labels] /\ todo' \in [Procs -> SUBSET Refs]
      /\ tx' \in [Procs -> TxType]
  <2>1. CASE Reject(p, cur[p]) BY <2>1, RejectType
  <2> HIDE DEF rest
  <2>2. CASE ~Reject(p, cur[p]) BY <1>1, <1>2, <1>3, <2>2, ZenonT(40) DEF TypeOK, TypeControl
  <2> QED BY <2>1, <2>2
<1>5. /\ refLock' = refLock \/ refLock' = [refLock EXCEPT ![cur[p]] = Nobody]
      /\ cur' = [cur EXCEPT ![p] = NULL] /\ tries' = [tries EXCEPT ![p] = 0]
  BY DEF LockedReadDone
<1>6. refLock' \in [Refs -> Procs \cup {Nobody}]
  BY <1>5 DEF TypeOK, TypeRepo
<1>7. cur' \in [Procs -> Refs \cup {NULL}] /\ tries' \in [Procs -> 0 .. MaxRetries]
  BY <1>5, SMTT(30) DEF TypeOK, TypeControl, MaxRetries
<1>8. old' \in [Procs -> [Refs -> OidOrNull]]
      /\ isPacked' \in [Procs -> [Refs -> BOOLEAN]]
  <2>1. \/ old' = old /\ isPacked' = isPacked
        \/ /\ old' = [old EXCEPT ![p][cur[p]] = v]
           /\ isPacked' = [isPacked EXCEPT ![p][cur[p]] = ip]
    BY DEF LockedReadDone
  <2>2. old' \in [Procs -> [Refs -> OidOrNull]]
    <3>1. [old[p] EXCEPT ![cur[p]] = v] \in [Refs -> OidOrNull]
      BY DEF TypeOK, TypeData
    <3>2. \/ old' = old
          \/ old' = [old EXCEPT ![p] = [old[p] EXCEPT ![cur[p]] = v]]
      BY <2>1
    <3> QED BY <3>1, <3>2 DEF TypeOK, TypeData
  <2>3. isPacked' \in [Procs -> [Refs -> BOOLEAN]]
    <3>1. [isPacked[p] EXCEPT ![cur[p]] = ip] \in [Refs -> BOOLEAN]
      BY DEF TypeOK, TypeData
    <3>2. \/ isPacked' = isPacked
          \/ isPacked' = [isPacked EXCEPT ![p] = [isPacked[p] EXCEPT ![cur[p]] = ip]]
      BY <2>1
    <3> QED BY <3>1, <3>2 DEF TypeOK, TypeData
  <2> QED BY <2>2, <2>3
<1> QED BY <1>4, <1>6, <1>7, <1>8

\* read_ref_internal() returns with well-typed results.
LEMMA ReadReturnType ==
  ASSUME NEW p \in Procs, NEW v \in OidOrNull, NEW ip \in BOOLEAN,
         TypeOK, ReadReturn(p, v, ip), cur[p] \in Refs
  PROVE  /\ pc' \in [Procs -> Labels] /\ cur' \in [Procs -> Refs \cup {NULL}]
         /\ todo' \in [Procs -> SUBSET Refs] /\ tries' \in [Procs -> 0 .. MaxRetries]
         /\ old' \in [Procs -> [Refs -> OidOrNull]]
         /\ isPacked' \in [Procs -> [Refs -> BOOLEAN]]
         /\ tx' \in [Procs -> TxType]
         /\ cache' \in [Procs -> [Refs -> OidOrNull]]
         /\ broken' \in [Procs -> SUBSET Refs]
         /\ refLock' \in [Refs -> Procs \cup {Nobody}]
<1> DEFINE read == [cache EXCEPT ![p] = [cache[p] EXCEPT ![cur[p]] = v]]
<1>1. read \in [Procs -> [Refs -> OidOrNull]]
  <2>1. [cache[p] EXCEPT ![cur[p]] = v] \in [Refs -> OidOrNull]
    BY DEF TypeOK, TypeData
  <2> QED BY <2>1 DEF TypeOK, TypeData
<1>2. /\ \A l \in Labels : [pc EXCEPT ![p] = l] \in [Procs -> Labels]
      /\ [tries EXCEPT ![p] = 0] \in [Procs -> 0 .. MaxRetries]
  <2>1. 0 \in 0 .. MaxRetries BY SMTT(30) DEF MaxRetries
  <2> QED BY <2>1 DEF TypeOK, TypeControl
<1>3. "returned" \in Labels /\ "scan" \in Labels BY DEF Labels
<1>4. CASE op[p] \in {"txn", "prune"}
  <2>1. LockedReadDone(p, v, ip) /\ cache' = cache /\ broken' = broken
    BY <1>4 DEF ReadReturn
  <2>2. /\ cache' \in [Procs -> [Refs -> OidOrNull]]
        /\ broken' \in [Procs -> SUBSET Refs]
    BY <2>1 DEF TypeOK, TypeData
  <2> QED BY <2>1, <2>2, LockedReadType
<1>5. CASE op[p] = "read"
  <2>1. /\ cache' = read /\ tries' = [tries EXCEPT ![p] = 0]
        /\ pc' = [pc EXCEPT ![p] = "returned"]
        /\ UNCHANGED <<refLock, todo, cur, tx, old, isPacked, broken>>
    BY <1>5 DEF ReadReturn, Goto
  <2> HIDE DEF read
  <2> QED BY <1>1, <1>2, <1>3, <2>1 DEF TypeOK, TypeControl, TypeData, TypeRepo
<1>6. CASE op[p] \in {"pack", "list"}
  <2> DEFINE bad == IF v = NULL THEN broken[p] \cup {cur[p]} ELSE broken[p]
             rest == todo[p] \ {cur[p]}
  <2>1. /\ cache' = read /\ tries' = [tries EXCEPT ![p] = 0]
        /\ pc' = [pc EXCEPT ![p] = "scan"]
        /\ broken' = [broken EXCEPT ![p] = bad]
        /\ todo' = [todo EXCEPT ![p] = rest]
        /\ cur' = [cur EXCEPT ![p] = NULL]
        /\ UNCHANGED <<refLock, tx, old, isPacked>>
    BY <1>6 DEF ReadReturn, ScanNext, Goto
  <2>2. bad \in SUBSET Refs /\ rest \in SUBSET Refs
    BY DEF TypeOK, TypeControl, TypeData
  <2> HIDE DEF read, bad, rest
  <2>3. broken' \in [Procs -> SUBSET Refs] BY <2>1, <2>2 DEF TypeOK, TypeData
  <2>4. /\ todo' \in [Procs -> SUBSET Refs]
        /\ cur' \in [Procs -> Refs \cup {NULL}]
    BY <2>1, <2>2 DEF TypeOK, TypeControl
  <2> QED BY <1>1, <1>2, <1>3, <2>1, <2>3, <2>4 DEF TypeOK, TypeData, TypeRepo
<1> QED BY <1>4, <1>5, <1>6 DEF ReadReturn

\* Loose over packed references are references.
LEMMA OverlayType ==
  ASSUME NEW f \in [Refs -> OidOrNull], NEW g \in [Refs -> OidOrNull]
  PROVE  Overlay(f, g) \in [Refs -> OidOrNull]
BY DEF Overlay

\* Every step keeps the types of the files.
LEMMA StepTypeRepo ==
  ASSUME NEW p \in Procs, IndInv, Step(p)
  PROVE  TypeRepo'
<1> USE ConstantsAssumption DEF IndInv, Invariant, TypeOK, TypeRepo
<1>1. CASE LockRef(p)
  BY <1>1, SMTT(30) DEF LockRef, TypeControl
<1>2. CASE PackedPrepare(p)
  <2> DEFINE left == [r \in Refs |-> IF r \in Deletes(p) THEN NULL ELSE snap[p][r]]
  <2>1. left \in [Refs -> OidOrNull] BY SMTT(30) DEF TypeData, OidOrNull
  <2>2. /\ \/ newBy' = p /\ packedNew' = left
           \/ newBy' = newBy /\ packedNew' = packedNew
        /\ UNCHANGED <<loose, packed, refLock, packedLock, logTip>>
    BY <1>2 DEF PackedPrepare, CreatePackedNew
  <2> HIDE DEF left
  <2> QED BY <2>1, <2>2
<1>3. CASE WriteReflog(p)
  <2>1. PICK r \in todo[p] : logTip' = [logTip EXCEPT ![r] = tx[p][r].new]
    BY <1>3 DEF WriteReflog
  <2>2. pc[p] = "commit" /\ UNCHANGED <<loose, packed, packedNew, newBy, refLock, packedLock>>
    BY <1>3 DEF WriteReflog
  <2>3. tx[p][r].new \in OidOrNull BY <2>2 DEF Control, OidOrNull
  <2> QED BY <2>1, <2>2, <2>3
<1>4. CASE CommitRef(p)
  BY <1>4 DEF CommitRef, Control, OidOrNull
<1>5. CASE DeleteReflog(p)
  BY <1>5 DEF DeleteReflog, OidOrNull
<1>6. CASE PackedFinish(p)
  BY <1>6 DEF PackedFinish, AllNull, OidOrNull
<1>7. CASE UnlinkLoose(p)
  BY <1>7 DEF UnlinkLoose, OidOrNull
<1>8. CASE UnlockRef(p)
  BY <1>8 DEF UnlockRef
<1>9. CASE CleanupPacked(p)
  BY <1>9 DEF CleanupPacked, AllNull, OidOrNull
<1>10. CASE PackedRefsLock(p)
  BY <1>10 DEF PackedRefsLock
<1>11. CASE PackWrite(p)
  <2>1. Overlay(cache[p], snap[p]) \in [Refs -> OidOrNull]
    BY OverlayType DEF TypeData
  <2> QED BY <1>11, <2>1 DEF PackWrite, CreatePackedNew
<1>12. CASE PackCommit(p)
  BY <1>12 DEF PackCommit, AllNull, OidOrNull
<1>13. CASE PackUnlock(p)
  BY <1>13 DEF PackUnlock
<1>14. CASE RemoveStale(p)
  BY <1>14, SMTT(30) DEF RemoveStale, AllNull, OidOrNull
<1>15. CASE TransactionBegin(p) \/ LockTimeout(p) \/ FinishBegin(p) \/
          ReadBegin(p) \/ ReadLstat(p) \/ ReadEnd(p) \/ ListBegin(p) \/
          ListPacked(p) \/ PackBegin(p) \/ PackedLockTimeout(p) \/ ScanLoose(p) \/
          PackDecided(p) \/ PackNotNeeded(p) \/ PruneRef(p) \/
          PruneDone(p) \/ Abort(p) \/ Crash(p) \/ Respawn(p)
  BY <1>15 DEF TransactionBegin, LockTimeout, FinishBegin, ReadBegin,
    ReadLstat, ReadEnd, ListBegin, ListPacked, PackBegin, PackedLockTimeout,
    ScanLoose, PackDecided, PackNotNeeded, PruneRef, PruneDone, Abort, Crash,
    Respawn, repo
<1>16. CASE ReadGiveUp(p)
  <2>1. NULL \in OidOrNull /\ cur[p] \in Refs BY <1>16 DEF ReadGiveUp, Control, OidOrNull
  <2> QED BY <1>16, <2>1, ReadReturnType DEF ReadGiveUp, readOnly
<1>17. CASE ReadOpen(p)
  <2>1. loose[cur[p]] \in OidOrNull /\ cur[p] \in Refs
    BY <1>17 DEF ReadOpen, Control
  <2> QED BY <1>17, <2>1, ReadReturnType DEF ReadOpen, readOnly
<1>18. CASE ReadPacked(p)
  <2>1. packed[cur[p]] \in OidOrNull /\ cur[p] \in Refs
    BY <1>18 DEF ReadPacked, Control
  <2> QED BY <1>18, <2>1, ReadReturnType DEF ReadPacked, readOnly
<1> QED BY <1>1, <1>2, <1>3, <1>4, <1>5, <1>6, <1>7, <1>8, <1>9, <1>10, <1>11,
    <1>12, <1>13, <1>14, <1>15, <1>16, <1>17, <1>18
    DEF Step, TxnStep, ReadStep, PackStep

\* Every step keeps the types of the control state.
LEMMA StepTypeControl ==
  ASSUME NEW p \in Procs, IndInv, Step(p)
  PROVE  TypeControl'
<1> USE ConstantsAssumption DEF IndInv, Invariant, TypeOK, TypeControl
<1>1. CASE FinishBegin(p)
  BY <1>1, AfterLabels, EnterType DEF FinishBegin, locals
<1>2. CASE CommitRef(p)
  BY <1>2, AfterLabels, VisitedType DEF CommitRef, locals
<1>3. CASE DeleteReflog(p)
  BY <1>3, AfterLabels, VisitedType DEF DeleteReflog, locals
<1>4. CASE PackedFinish(p)
  BY <1>4, AfterLabels, EnterType DEF PackedFinish, locals
<1>5. CASE UnlinkLoose(p)
  BY <1>5, AfterLabels, VisitedType DEF UnlinkLoose, locals
<1>6. CASE CleanupPacked(p)
  BY <1>6, FinishType DEF CleanupPacked, Goto, Labels, locals
<1>7. CASE ReadEnd(p) \/ PackNotNeeded(p) \/ PruneDone(p) \/ Crash(p)
  BY <1>7, FinishType DEF ReadEnd, PackNotNeeded, PruneDone, Crash
<1>8. CASE ReadGiveUp(p)
  <2>1. NULL \in OidOrNull /\ cur[p] \in Refs BY <1>8 DEF ReadGiveUp, Control, OidOrNull
  <2>2. ReadReturn(p, NULL, FALSE) /\ op' = op /\ toPrune' = toPrune
    BY <1>8 DEF ReadGiveUp
  <2> QED BY <2>1, <2>2, ReadReturnType
<1>9. CASE ReadOpen(p)
  <2>1. loose[cur[p]] \in OidOrNull /\ cur[p] \in Refs
    BY <1>9 DEF ReadOpen, Control, TypeRepo
  <2> QED BY <1>9, <2>1, ReadReturnType DEF ReadOpen, Goto, Labels
<1>10. CASE ReadPacked(p)
  <2>1. packed[cur[p]] \in OidOrNull /\ cur[p] \in Refs
    BY <1>10 DEF ReadPacked, Control, TypeRepo
  <2> QED BY <1>10, <2>1, ReadReturnType DEF ReadPacked, Goto, Labels
<1>11. CASE ReadLstat(p)
  <2>1. tries[p] - 1 \in 0 .. MaxRetries
    <3>1. tries[p] \in 0 .. MaxRetries OBVIOUS
    <3>2. tries[p] > 0 BY <1>11 DEF ReadLstat
    <3> QED BY ONLY <3>1, <3>2, SMTT(30) DEF MaxRetries
  <2>2. tries' = [tries EXCEPT ![p] = tries[p] - 1] BY <1>11 DEF ReadLstat
  <2>3. tries' \in [Procs -> 0 .. MaxRetries] BY <2>1, <2>2
  <2> QED BY <1>11, <2>3 DEF ReadLstat, Goto, Labels
<1>12. CASE TransactionBegin(p)
  <2>1. PICK S \in SUBSET Refs : todo' = [todo EXCEPT ![p] = S]
    BY <1>12 DEF TransactionBegin
  <2>2. /\ pc' = [pc EXCEPT ![p] = "lock"] /\ op' = [op EXCEPT ![p] = "txn"]
        /\ UNCHANGED <<cur, toPrune, tries>>
    BY <1>12 DEF TransactionBegin, Goto
  <2>3. "lock" \in Labels BY DEF Labels
  <2> QED BY <2>1, <2>2, <2>3
<1>13. CASE LockRef(p)
  BY <1>13, SMTT(30) DEF LockRef, Goto, Labels, MaxRetries, locals
<1>14. CASE PackedPrepare(p)
  BY <1>14 DEF PackedPrepare, Goto, Labels, MaxRetries, CreatePackedNew,
    locals
<1>15. CASE PackWrite(p)
  <2>1. PICK S \in SUBSET Refs : toPrune' = [toPrune EXCEPT ![p] = S]
    BY <1>15 DEF PackWrite
  <2>2. PICK l \in {"packcommit", "cleanup"} : pc' = [pc EXCEPT ![p] = l]
    BY <1>15 DEF PackWrite, CreatePackedNew, Goto
  <2>3. l \in Labels BY DEF Labels
  <2> QED BY <1>15, <2>1, <2>2, <2>3 DEF PackWrite
<1>16. CASE PruneRef(p)
  <2>1. PICK r \in toPrune[p] : /\ toPrune' = [toPrune EXCEPT ![p] = toPrune[p] \ {r}]
                                /\ todo' = [todo EXCEPT ![p] = {r}]
    BY <1>16 DEF PruneRef
  <2>2. /\ pc' = [pc EXCEPT ![p] = "lock"] /\ op' = [op EXCEPT ![p] = "prune"]
        /\ UNCHANGED <<cur, tries>>
    BY <1>16 DEF PruneRef, Goto
  <2>3. "lock" \in Labels /\ {r} \in SUBSET Refs /\ toPrune[p] \ {r} \in SUBSET Refs
    BY DEF Labels
  <2> QED BY <2>1, <2>2, <2>3
<1>17. CASE PackedRefsLock(p)
  BY <1>17 DEF PackedRefsLock, Goto, Labels, MaxRetries, locals
<1>18. CASE PackBegin(p)
  BY <1>18 DEF PackBegin, Goto, Labels, MaxRetries, locals
<1>19. CASE WriteReflog(p)
  <2>1. PICK r \in todo[p] : cur' = [cur EXCEPT ![p] = r] BY <1>19 DEF WriteReflog
  <2>2. UNCHANGED <<pc, op, todo, toPrune, tries>> BY <1>19 DEF WriteReflog, locals
  <2>3. r \in Refs OBVIOUS
  <2> QED BY <2>1, <2>2, <2>3
<1>20. CASE ReadBegin(p)
  BY <1>20, SMTT(30) DEF ReadBegin, Goto, Labels, MaxRetries, locals
<1>21. CASE ListBegin(p)
  BY <1>21 DEF ListBegin, Goto, Labels, MaxRetries, locals
<1>22. CASE Abort(p)
  BY <1>22, SMTT(30) DEF Abort, Goto, Labels, MaxRetries, locals
<1>23. CASE ScanLoose(p)
  <2>1. PICK r \in todo[p] :
             \/ /\ cur' = [cur EXCEPT ![p] = r]
                /\ tries' = [tries EXCEPT ![p] = MaxRetries]
                /\ Goto(p, "lstat") /\ UNCHANGED todo
             \/ /\ todo' = [todo EXCEPT ![p] = todo[p] \ {r}]
                /\ UNCHANGED <<pc, cur, tries>>
    BY <1>23 DEF ScanLoose
  <2>2. op' = op /\ toPrune' = toPrune BY <1>23 DEF ScanLoose
  <2>3. r \in Refs /\ todo[p] \ {r} \in SUBSET Refs OBVIOUS
  <2>4. "lstat" \in Labels /\ MaxRetries \in 0 .. MaxRetries
    BY SMTT(30) DEF Labels, MaxRetries
  <2>5. CASE todo' = [todo EXCEPT ![p] = todo[p] \ {r}] /\ UNCHANGED <<pc, cur, tries>>
    BY <2>2, <2>3, <2>5
  <2>6. CASE /\ cur' = [cur EXCEPT ![p] = r] /\ tries' = [tries EXCEPT ![p] = MaxRetries]
             /\ Goto(p, "lstat") /\ UNCHANGED todo
    <3>1. cur' \in [Procs -> Refs \cup {NULL}] BY <2>3, <2>6
    <3>2. tries' \in [Procs -> 0 .. MaxRetries] BY <2>4, <2>6
    <3>3. pc' \in [Procs -> Labels] BY <2>4, <2>6 DEF Goto
    <3> QED BY <2>2, <2>6, <3>1, <3>2, <3>3
  <2> QED BY <2>1, <2>5, <2>6
<1>24. CASE ListPacked(p)
  BY <1>24 DEF ListPacked, Goto, Labels, MaxRetries, locals
<1>25. CASE LockTimeout(p)
  <2>1. /\ cur' = [cur EXCEPT ![p] = NULL] /\ UNCHANGED <<op, toPrune, tries>>
        /\ \/ pc' = [pc EXCEPT ![p] = "cleanup"] /\ todo' = todo
           \/ \E r \in todo[p] : Reject(p, r)
    BY <1>25 DEF LockTimeout, Goto
  <2>2. "cleanup" \in Labels BY DEF Labels
  <2>3. pc' \in [Procs -> Labels] /\ todo' \in [Procs -> SUBSET Refs]
    <3>1. CASE \E r \in todo[p] : Reject(p, r)
      BY <3>1, RejectType DEF IndInv
    <3>2. CASE pc' = [pc EXCEPT ![p] = "cleanup"] /\ todo' = todo
      BY <2>2, <3>2
    <3> QED BY <2>1, <3>1, <3>2
  <2> QED BY <2>1, <2>3
<1>26. CASE PackedLockTimeout(p)
  BY <1>26 DEF PackedLockTimeout, Goto, Labels, MaxRetries, locals
<1>27. CASE PackDecided(p)
  BY <1>27 DEF PackDecided, Goto, Labels, MaxRetries, locals
<1>28. CASE PackCommit(p)
  BY <1>28 DEF PackCommit, Goto, Labels, MaxRetries, locals
<1>29. CASE PackUnlock(p)
  BY <1>29 DEF PackUnlock, Goto, Labels, MaxRetries, locals
<1>30. CASE UnlockRef(p) \/ RemoveStale(p) \/ Respawn(p)
  BY <1>30, SMTT(30) DEF UnlockRef, RemoveStale, Respawn, Goto, Labels, MaxRetries,
    locals
<1> QED BY <1>1, <1>2, <1>3, <1>4, <1>5, <1>6, <1>7, <1>8, <1>9, <1>10, <1>11,
    <1>12, <1>13, <1>14, <1>15, <1>16, <1>17, <1>18, <1>19, <1>20, <1>21, <1>22,
    <1>23, <1>24, <1>25, <1>26, <1>27, <1>28, <1>29, <1>30
    DEF Step, TxnStep, ReadStep, PackStep

\* Every step keeps the types of the values a process has read.
LEMMA StepTypeData ==
  ASSUME NEW p \in Procs, IndInv, Step(p)
  PROVE  TypeData'
<1> USE ConstantsAssumption DEF IndInv, Invariant, TypeOK, TypeData
<1>1. CASE ReadEnd(p) \/ PackNotNeeded(p) \/ PruneDone(p) \/ Crash(p) \/
          CleanupPacked(p)
  BY <1>1, FinishType DEF ReadEnd, PackNotNeeded, PruneDone, Crash,
    CleanupPacked, locals
<1>2. CASE ReadGiveUp(p)
  <2>1. NULL \in OidOrNull /\ cur[p] \in Refs BY <1>2 DEF ReadGiveUp, Control, OidOrNull
  <2> QED BY <1>2, <2>1, ReadReturnType DEF ReadGiveUp
<1>3. CASE ReadOpen(p)
  <2>1. loose[cur[p]] \in OidOrNull /\ cur[p] \in Refs
    BY <1>3 DEF ReadOpen, Control, TypeRepo
  <2> QED BY <1>3, <2>1, ReadReturnType DEF ReadOpen
<1>4. CASE ReadPacked(p)
  <2>1. packed[cur[p]] \in OidOrNull /\ cur[p] \in Refs
    BY <1>4 DEF ReadPacked, Control, TypeRepo
  <2> QED BY <1>4, <2>1, ReadReturnType DEF ReadPacked
<1>5. CASE PackedRefsLock(p)
  BY <1>5 DEF PackedRefsLock, TypeRepo, TypeControl, AllNull, OidOrNull
<1>6. CASE PackedPrepare(p)
  BY <1>6 DEF PackedPrepare, TypeRepo, TypeControl, AllNull, OidOrNull
<1>7. CASE ScanLoose(p)
  BY <1>7, SMTT(30) DEF ScanLoose, TypeRepo, TypeControl, AllNull, OidOrNull
<1>8. CASE PackWrite(p)
  BY <1>8 DEF PackWrite, TypeRepo, TypeControl, AllNull, OidOrNull
<1>9. CASE ListPacked(p)
  <2> DEFINE listed == [r \in Refs |-> IF r \in broken[p] THEN NULL
                                       ELSE Overlay(cache[p], packed)[r]]
  <2>1. Overlay(cache[p], packed) \in [Refs -> OidOrNull]
    BY OverlayType DEF TypeRepo
  <2>2. listed \in [Refs -> OidOrNull] BY <2>1 DEF OidOrNull
  <2>3. cache' = [cache EXCEPT ![p] = listed] BY <1>9 DEF ListPacked
  <2> HIDE DEF listed
  <2>4. cache' \in [Procs -> [Refs -> OidOrNull]] BY <2>2, <2>3
  <2>5. UNCHANGED <<old, isPacked, snap, broken>> BY <1>9 DEF ListPacked
  <2> QED BY <2>4, <2>5
<1>10. CASE TransactionBegin(p) \/ LockRef(p) \/ LockTimeout(p) \/
          FinishBegin(p) \/ WriteReflog(p) \/ CommitRef(p) \/
          DeleteReflog(p) \/ PackedFinish(p) \/ UnlinkLoose(p) \/
          UnlockRef(p) \/ ReadBegin(p) \/ ReadLstat(p) \/ ListBegin(p) \/
          PackBegin(p) \/ PackedLockTimeout(p) \/ PackDecided(p) \/
          PackCommit(p) \/ PackUnlock(p) \/ PruneRef(p) \/ Abort(p) \/
          RemoveStale(p) \/ Respawn(p)
  BY <1>10 DEF TransactionBegin, LockRef, LockTimeout, FinishBegin,
    WriteReflog, CommitRef, DeleteReflog, PackedFinish, UnlinkLoose,
    UnlockRef, ReadBegin, ReadLstat, ListBegin, PackBegin, PackedLockTimeout,
    PackDecided, PackCommit, PackUnlock, PruneRef, Abort, RemoveStale,
    Respawn, locals
<1> QED BY <1>1, <1>2, <1>3, <1>4, <1>5, <1>6, <1>7, <1>8, <1>9, <1>10
    DEF Step, TxnStep, ReadStep, PackStep

\* Every step keeps transactions well formed.
LEMMA StepTypeTx ==
  ASSUME NEW p \in Procs, IndInv, Step(p)
  PROVE  tx' \in [Procs -> TxType]
<1> USE ConstantsAssumption DEF IndInv, Invariant, TypeOK
<1>1. CASE TransactionBegin(p)
  BY <1>1, TxTypeElements, ZenonT(40) DEF TransactionBegin
<1>2. CASE PruneRef(p)
  <2>1. PICK r \in toPrune[p] : tx' = [tx EXCEPT ![p] =
               [x \in {r} |-> [old |-> cache[p][r], new |-> NULL]]]
    BY <1>2 DEF PruneRef
  <2>2. r \in Refs /\ cache[p][r] \in OidOrNull BY SMTT(30) DEF TypeControl, TypeData
  <2>3. [x \in {r} |-> [old |-> cache[p][r], new |-> NULL]] \in [{r} -> UpdateType]
    BY <2>2 DEF UpdateType, OidOrNull
  <2>4. {r} \in SUBSET Refs BY <2>2
  <2>5. [x \in {r} |-> [old |-> cache[p][r], new |-> NULL]] \in TxType
    BY <2>3, <2>4, TxTypeElements
  <2> QED BY <2>1, <2>5
<1>3. CASE ReadEnd(p) \/ PackNotNeeded(p) \/ PruneDone(p) \/ Crash(p) \/
          CleanupPacked(p)
  BY <1>3, FinishType DEF ReadEnd, PackNotNeeded, PruneDone, Crash,
    CleanupPacked, locals
<1>4. CASE ReadGiveUp(p)
  <2>1. NULL \in OidOrNull /\ cur[p] \in Refs BY <1>4 DEF ReadGiveUp, Control, OidOrNull
  <2> QED BY <1>4, <2>1, ReadReturnType DEF ReadGiveUp
<1>5. CASE ReadOpen(p)
  <2>1. loose[cur[p]] \in OidOrNull /\ cur[p] \in Refs
    BY <1>5 DEF ReadOpen, Control, TypeRepo
  <2> QED BY <1>5, <2>1, ReadReturnType DEF ReadOpen
<1>6. CASE ReadPacked(p)
  <2>1. packed[cur[p]] \in OidOrNull /\ cur[p] \in Refs
    BY <1>6 DEF ReadPacked, Control, TypeRepo
  <2> QED BY <1>6, <2>1, ReadReturnType DEF ReadPacked
<1>7. CASE LockTimeout(p)
  BY <1>7, RejectType DEF LockTimeout
<1>8. CASE LockRef(p) \/ PackedPrepare(p) \/
          FinishBegin(p) \/ WriteReflog(p) \/ CommitRef(p) \/
          DeleteReflog(p) \/ PackedFinish(p) \/ UnlinkLoose(p) \/
          UnlockRef(p) \/ ReadBegin(p) \/ ReadLstat(p) \/ ListBegin(p) \/
          ListPacked(p) \/ PackBegin(p) \/ PackedRefsLock(p) \/
          PackedLockTimeout(p) \/ ScanLoose(p) \/ PackDecided(p) \/
          PackWrite(p) \/ PackCommit(p) \/ PackUnlock(p) \/ Abort(p) \/
          RemoveStale(p) \/ Respawn(p)
  BY <1>8 DEF LockRef, PackedPrepare, FinishBegin, WriteReflog,
    CommitRef, DeleteReflog, PackedFinish, UnlinkLoose, UnlockRef, ReadBegin,
    ReadLstat, ListBegin, ListPacked, PackBegin, PackedRefsLock,
    PackedLockTimeout, ScanLoose, PackDecided, PackWrite, PackCommit,
    PackUnlock, Abort, RemoveStale, Respawn, locals
<1> QED BY <1>1, <1>2, <1>3, <1>4, <1>5, <1>6, <1>7, <1>8
    DEF Step, TxnStep, ReadStep, PackStep

\* Every step keeps the type invariant.
LEMMA StepType ==
  ASSUME NEW p \in Procs, IndInv, Step(p), Observe
  PROVE  TypeOK'
<1>1. TypeRepo' BY StepTypeRepo
<1>2. TypeControl' BY StepTypeControl
<1>3. TypeData' BY StepTypeData
<1>4. tx' \in [Procs -> TxType] BY StepTypeTx
<1>5. alive' \in [Procs -> BOOLEAN]
  BY DEF IndInv, TypeOK, Step, Crash, RemoveStale, Respawn
<1>6. seen' \in [Procs -> [Refs -> SUBSET OidOrNull]]
  <2>1. \A r \in Refs : Value(r) \in OidOrNull /\ Value(r)' \in OidOrNull
    BY <1>1 DEF Value, TypeRepo, IndInv, TypeOK
  <2>2. NULL \in OidOrNull BY DEF OidOrNull
  <2>3. \A q \in Procs, r \in Refs : seen[q][r] \in SUBSET OidOrNull
    BY DEF IndInv, TypeOK
  <2> DEFINE now(q, r) == IF op'[q] = "list" \/ (op'[q] = "read" /\ cur'[q] = r)
                          THEN seen[q][r] \cup {Value(r), Value(r)'}
                               \cup (IF Deleting(r)' \/ GivesUp(q, r) THEN {NULL} ELSE {})
                          ELSE {}
  <2>4. \A q \in Procs, r \in Refs : now(q, r) \in SUBSET OidOrNull
    BY <2>1, <2>2, <2>3
  <2>5. seen' = [q \in Procs |-> [r \in Refs |-> now(q, r)]]
    BY DEF Observe
  <2> HIDE DEF now
  <2> QED BY <2>4, <2>5
<1>7. warned' \subseteq Refs BY DEF Observe
<1> QED BY <1>1, <1>2, <1>3, <1>4, <1>5, <1>6, <1>7 DEF TypeOK

-----------------------------------------------------------------------------
(* The locks *)

\* What a step of p leaves alone of another process q.
Frame(p, q) ==
  /\ pc'[q] = pc[q] /\ op'[q] = op[q] /\ tx'[q] = tx[q] /\ todo'[q] = todo[q]
  /\ cur'[q] = cur[q] /\ tries'[q] = tries[q] /\ alive'[q] = alive[q]
  /\ \A r \in Refs : refLock'[r] = q <=> refLock[r] = q
  /\ packedLock' = q <=> packedLock = q
  /\ newBy' = q <=> newBy = q
  /\ \A r \in Refs : refLock[r] = q /\ loose[r] # NULL => loose'[r] # NULL

\* What nobody but its owner can change keeps the invariant of q.
LEMMA FramePreserves ==
  ASSUME NEW p \in Procs, NEW q \in Procs, IndInv, Frame(p, q)
  PROVE  Invariant(q)'
<1> USE DEF IndInv, Invariant, Frame
<1>1. Control(q)' BY SMTT(30) DEF Control
<1>2. OwnLocks(q)'
  <2>1. Held(q)' = Held(q) BY DEF Held, Deletes
  <2>2. Held(q) \subseteq Refs BY DEF Held
  <2>3. HoldsPacked(q)' <=> HoldsPacked(q) BY DEF HoldsPacked, Deletes
  <2> QED BY <2>1, <2>2, <2>3, SMTT(30) DEF OwnLocks
<1>3. LockedRead(q)' BY SMTT(30) DEF LockedRead, Control, OwnLocks, Held
<1> QED BY <1>1, <1>2, <1>3

\* The end of a read changes only the local variables of the reader.
LEMMA ReadReturnFrame ==
  ASSUME NEW p \in Procs, NEW q \in Procs, p # q, q # Nobody, IndInv, NEW v, NEW ip,
         ReadReturn(p, v, ip), pc[p] \in {"lstat", "open", "readpacked"}
  PROVE  /\ pc'[q] = pc[q] /\ tx'[q] = tx[q] /\ todo'[q] = todo[q]
         /\ cur'[q] = cur[q] /\ tries'[q] = tries[q]
         /\ \A r \in Refs : refLock'[r] = q <=> refLock[r] = q
<1> USE DEF IndInv, Invariant, TypeOK, TypeControl, Goto
<1>1. CASE op[p] \in {"txn", "prune"} /\ LockedReadDone(p, v, ip)
  <2>1. refLock[cur[p]] = p /\ cur[p] \in Refs
    BY <1>1 DEF Control, OwnLocks, Held
  <2>2. \A r \in Refs : refLock'[r] = q <=> refLock[r] = q
    <3>1. refLock' = refLock \/ refLock' = [refLock EXCEPT ![cur[p]] = Nobody]
      BY <1>1 DEF LockedReadDone
    <3> QED BY <2>1, <3>1 DEF TypeRepo
  <2> QED BY <1>1, <2>2, SMTT(30) DEF LockedReadDone, Reject
<1>2. CASE ScanNext(p, v) /\ UNCHANGED <<tx, refLock>> BY <1>2 DEF ScanNext
<1> QED BY <1>1, <1>2 DEF ReadReturn

\* A step of p does not touch the local variables of q, creates and removes no
\* lock of q, and unlinks no file that q has locked.
LEMMA StepFrame ==
  ASSUME NEW p \in Procs, NEW q \in Procs, p # q, IndInv, Step(p)
  PROVE  Frame(p, q)
<1> USE DEF IndInv, Invariant, TypeOK, TypeRepo, TypeControl, Frame, Goto, repo,
               readOnly, locals
<1>0. p # Nobody /\ q # Nobody BY ConstantsAssumption
<1>1. CASE TransactionBegin(p) /\ UNCHANGED alive
  BY <1>0, <1>1 DEF TransactionBegin
<1>2. CASE LockRef(p) /\ UNCHANGED alive
  BY <1>0, <1>2, SMTT(30) DEF LockRef
<1>3. CASE LockTimeout(p) /\ UNCHANGED alive
  BY <1>0, <1>3, SMTT(30) DEF LockTimeout, Reject
<1>4. CASE PackedPrepare(p) /\ UNCHANGED alive
  BY <1>0, <1>4 DEF PackedPrepare, CreatePackedNew
<1>5. CASE FinishBegin(p) /\ UNCHANGED alive
  BY <1>0, <1>5 DEF FinishBegin, Enter
<1>6. CASE WriteReflog(p) /\ UNCHANGED alive
  BY <1>0, <1>6 DEF WriteReflog
<1>7. CASE CommitRef(p) /\ UNCHANGED alive
  <2>1. pc[p] = "commit" /\ cur[p] # NULL BY <1>7 DEF CommitRef
  <2>2. cur[p] \in Refs /\ cur[p] \in todo[p] BY <2>1 DEF Control
  <2>3. refLock[cur[p]] = p BY <2>1, <2>2 DEF OwnLocks, Held
  <2>4. pc'[q] = pc[q] /\ todo'[q] = todo[q] /\ cur'[q] = cur[q]
    BY <1>7 DEF CommitRef, Visited, Enter
  <2>5. /\ refLock' = [refLock EXCEPT ![cur[p]] = Nobody]
        /\ loose' = [loose EXCEPT ![cur[p]] = tx[p][cur[p]].new]
        /\ UNCHANGED <<packed, packedNew, newBy, packedLock, op, tx, tries, alive>>
    BY <1>7 DEF CommitRef
  <2>6. \A r \in Refs : /\ refLock'[r] = q <=> refLock[r] = q
                        /\ refLock[r] = q => loose'[r] = loose[r]
    BY <1>0, <2>2, <2>3, <2>5
  <2> QED BY <2>4, <2>5, <2>6
<1>8. CASE DeleteReflog(p) /\ UNCHANGED alive
  BY <1>0, <1>8, SMTT(30) DEF DeleteReflog, Visited, Enter
<1>9. CASE PackedFinish(p) /\ UNCHANGED alive
  BY <1>0, <1>9 DEF PackedFinish, Enter, OwnLocks
<1>10. CASE UnlinkLoose(p) /\ UNCHANGED alive
  <2>1. PICK r \in todo[p] : /\ loose' = [loose EXCEPT ![r] = NULL]
                             /\ Visited(p, r, "cleanup")
    BY <1>10 DEF UnlinkLoose
  <2>2. /\ pc[p] = "unlink" /\ r \in Refs
        /\ UNCHANGED <<packed, packedNew, newBy, refLock, packedLock, op, cur, tx,
                       tries, alive>>
    BY <1>10 DEF UnlinkLoose
  <2>3. refLock[r] = p BY <2>2 DEF OwnLocks, Held
  <2>4. pc'[q] = pc[q] /\ todo'[q] = todo[q] BY <2>1 DEF Visited, Enter
  <2>5. \A x \in Refs : refLock[x] = q => loose'[x] = loose[x]
    BY <1>0, <2>1, <2>2, <2>3
  <2> QED BY <2>2, <2>4, <2>5
<1>11. CASE UnlockRef(p) /\ UNCHANGED alive
  BY <1>0, <1>11 DEF UnlockRef
<1>12. CASE CleanupPacked(p) /\ UNCHANGED alive
  BY <1>0, <1>12, SMTT(30) DEF CleanupPacked, Finish
<1>13. CASE ReadBegin(p) /\ UNCHANGED alive
  BY <1>0, <1>13 DEF ReadBegin
<1>14. CASE ReadLstat(p) /\ UNCHANGED alive
  BY <1>0, <1>14 DEF ReadLstat
<1>15. CASE ReadGiveUp(p) /\ UNCHANGED alive
  BY <1>0, <1>15, ReadReturnFrame DEF ReadGiveUp
<1>16. CASE ReadOpen(p) /\ UNCHANGED alive
  BY <1>0, <1>16, ReadReturnFrame DEF ReadOpen
<1>17. CASE ReadPacked(p) /\ UNCHANGED alive
  BY <1>0, <1>17, ReadReturnFrame DEF ReadPacked
<1>18. CASE ReadEnd(p) /\ UNCHANGED alive
  BY <1>0, <1>18 DEF ReadEnd, Finish
<1>19. CASE ListBegin(p) /\ UNCHANGED alive
  BY <1>0, <1>19 DEF ListBegin
<1>20. CASE ListPacked(p) /\ UNCHANGED alive
  BY <1>0, <1>20 DEF ListPacked
<1>21. CASE PackBegin(p) /\ UNCHANGED alive
  BY <1>0, <1>21 DEF PackBegin
<1>22. CASE PackedRefsLock(p) /\ UNCHANGED alive
  BY <1>0, <1>22 DEF PackedRefsLock
<1>23. CASE PackedLockTimeout(p) /\ UNCHANGED alive
  BY <1>0, <1>23 DEF PackedLockTimeout
<1>24. CASE ScanLoose(p) /\ UNCHANGED alive
  BY <1>0, <1>24 DEF ScanLoose
<1>25. CASE PackDecided(p) /\ UNCHANGED alive
  BY <1>0, <1>25 DEF PackDecided
<1>26. CASE PackNotNeeded(p) /\ UNCHANGED alive
  BY <1>0, <1>26 DEF PackNotNeeded, Finish
<1>27. CASE PackWrite(p) /\ UNCHANGED alive
  BY <1>0, <1>27 DEF PackWrite, CreatePackedNew
<1>28. CASE PackCommit(p) /\ UNCHANGED alive
  BY <1>0, <1>28 DEF PackCommit, OwnLocks
<1>29. CASE PackUnlock(p) /\ UNCHANGED alive
  BY <1>0, <1>29 DEF PackUnlock, OwnLocks, HoldsPacked
<1>30. CASE PruneRef(p) /\ UNCHANGED alive
  BY <1>0, <1>30, SMTT(30) DEF PruneRef
<1>31. CASE PruneDone(p) /\ UNCHANGED alive
  BY <1>0, <1>31 DEF PruneDone, Finish
<1>32. CASE Abort(p) /\ UNCHANGED alive
  BY <1>0, <1>32 DEF Abort
<1>33. CASE Crash(p)
  BY <1>0, <1>33 DEF Crash, Finish
<1>34. CASE RemoveStale(p)
  BY <1>0, <1>34, SMTT(30) DEF RemoveStale
<1>35. CASE Respawn(p)
  BY <1>0, <1>35 DEF Respawn
<1> QED
  BY <1>1, <1>2, <1>3, <1>4, <1>5, <1>6, <1>7, <1>8, <1>9, <1>10, <1>11, <1>12,
     <1>13, <1>14, <1>15, <1>16, <1>17, <1>18, <1>19, <1>20, <1>21, <1>22, <1>23,
     <1>24, <1>25, <1>26, <1>27, <1>28, <1>29, <1>30, <1>31, <1>32, <1>33, <1>34,
     <1>35
  DEF Step, TxnStep, ReadStep, PackStep

\* The loop over the updates goes on with the updates u, of which rest are left:
\* what is locked covers those that are not.
LEMMA LockingGoesOn ==
  ASSUME NEW p \in Procs, NEW u, NEW rest, tx'[p] = u, todo'[p] = rest,
         DOMAIN u \subseteq Refs, rest \subseteq DOMAIN u,
         pc'[p] = AfterLocking(p, u, rest), cur'[p] = NULL, op'[p] = op[p],
         op[p] \in {"txn", "prune"}, alive'[p], tries'[p] \in 0 .. MaxRetries,
         \A x \in DOMAIN u \ rest : refLock'[x] = p,
         packedLock' # p, newBy' # p
  PROVE  Invariant(p)'
<1>1. /\ pc'[p] \in {"lock", "packlock", "prepared"}
      /\ pc'[p] = "lock" \/ rest = {}
      /\ pc'[p] = "packlock" => op[p] = "txn"
      /\ pc'[p] = "prepared" /\ op[p] = "txn" => Deletes(p)' = {}
  BY DEF AfterLocking, Deletes
<1>2. Control(p)' BY <1>1 DEF Control
<1>3. OwnLocks(p)' BY <1>1 DEF OwnLocks, Held, HoldsPacked
<1> QED BY <1>1, <1>2, <1>3 DEF Invariant, LockedRead

\* The end of a locked read.
LEMMA LockedReadOwn ==
  ASSUME NEW p \in Procs, NEW v, NEW ip, IndInv, TypeOK',
         LockedReadDone(p, v, ip), alive[p], op[p] \in {"txn", "prune"},
         pc[p] \in {"lstat", "open", "readpacked"}, op' = op, alive' = alive,
         packedLock' = packedLock, newBy' = newBy
  PROVE  Invariant(p)'
<1> USE DEF IndInv, Invariant
<1> DEFINE r == cur[p]
           others == [x \in DOMAIN tx[p] \ {r} |-> tx[p][x]]
           rest == todo[p] \ {r}
<1>1. /\ r \in todo[p] /\ todo[p] \subseteq DOMAIN tx[p] /\ DOMAIN tx[p] \subseteq Refs
      /\ \A x \in (DOMAIN tx[p] \ todo[p]) \cup {r} : refLock[x] = p
      /\ packedLock # p /\ newBy # p
  <2>1. /\ r \in todo[p] /\ todo[p] \subseteq DOMAIN tx[p] /\ r \in Refs
        /\ DOMAIN tx[p] \subseteq Refs
    BY TxTypeElements DEF Control, TypeOK
  <2>2. \A x \in (DOMAIN tx[p] \ todo[p]) \cup {r} : x \in Held(p)
    BY <2>1 DEF Held
  <2>3. \A x \in Held(p) : refLock[x] = p BY DEF OwnLocks
  <2>4. packedLock # p /\ newBy # p
    <3>1. CASE op[p] = "txn" BY <3>1 DEF OwnLocks
    <3>2. CASE op[p] = "prune" BY <3>2 DEF OwnLocks
    <3> QED BY <3>1, <3>2
  <2> QED BY <2>1, <2>2, <2>3, <2>4
<1>2. cur'[p] = NULL /\ op'[p] = op[p] /\ alive'[p] /\ tries'[p] \in 0 .. MaxRetries
  BY DEF LockedReadDone, TypeOK, TypeControl
<1>3. \/ pc'[p] = "cleanup"
      \/ /\ tx'[p] = tx[p] /\ todo'[p] = rest /\ refLock' = refLock
         /\ pc'[p] = AfterLocking(p, tx[p], rest)
      \/ /\ tx'[p] = others /\ todo'[p] = rest
         /\ pc'[p] = AfterLocking(p, others, rest)
  BY ZenonT(40) DEF LockedReadDone, Reject, Goto, TypeOK, TypeControl
<1>4. refLock' = refLock \/ refLock' = [refLock EXCEPT ![r] = Nobody]
  BY DEF LockedReadDone
<1>5. CASE pc'[p] = "cleanup"
  BY <1>1, <1>2, <1>5 DEF Control, OwnLocks, Held, HoldsPacked, LockedRead
<1>6. CASE /\ tx'[p] = tx[p] /\ todo'[p] = rest /\ refLock' = refLock
           /\ pc'[p] = AfterLocking(p, tx[p], rest)
  <2>1. rest \subseteq DOMAIN tx[p] BY <1>1
  <2>2. \A x \in DOMAIN tx[p] \ rest : refLock'[x] = p BY <1>1, <1>6
  <2>3. packedLock' # p /\ newBy' # p BY <1>1
  <2> HIDE DEF rest
  <2> QED BY <1>1, <1>2, <1>6, <2>1, <2>2, <2>3, LockingGoesOn
<1>7. CASE tx'[p] = others /\ todo'[p] = rest /\ pc'[p] = AfterLocking(p, others, rest)
  <2>1. DOMAIN others = DOMAIN tx[p] \ {r} OBVIOUS
  <2>2. rest \subseteq DOMAIN others /\ DOMAIN others \subseteq Refs BY <1>1, <2>1
  <2>3. \A x \in DOMAIN others \ rest : refLock'[x] = p
    BY <1>1, <1>4, <2>1 DEF TypeOK, TypeRepo
  <2> HIDE DEF others, rest
  <2> QED BY <1>1, <1>2, <1>7, <2>2, <2>3, LockingGoesOn
<1> QED BY <1>3, <1>5, <1>6, <1>7

\* The end of any read: a reader and the scan of a packer hold no <ref>.lock.
LEMMA ReadReturnOwn ==
  ASSUME NEW p \in Procs, NEW v, NEW ip, IndInv, TypeOK', ReadReturn(p, v, ip),
         alive[p], pc[p] \in {"lstat", "open", "readpacked"}, op' = op,
         alive' = alive, packedLock' = packedLock, newBy' = newBy
  PROVE  Invariant(p)'
<1>1. CASE op[p] \in {"txn", "prune"}
  <2>1. LockedReadDone(p, v, ip) BY <1>1 DEF ReadReturn
  <2> QED BY <1>1, <2>1, LockedReadOwn
<1>2. CASE op[p] \in {"read", "pack", "list"}
  <2>1. /\ op'[p] = op[p] /\ alive'[p] /\ refLock' = refLock
        /\ op[p] = "read" => pc'[p] = "returned"
        /\ op[p] \in {"pack", "list"} => pc'[p] = "scan"
    BY <1>2 DEF ReadReturn, ScanNext, Goto, IndInv, TypeOK, TypeControl
  <2>2. OwnLocks(p) BY DEF IndInv, Invariant
  <2>3. Control(p)' BY <1>2, <2>1 DEF Control
  <2>4. OwnLocks(p)' BY <1>2, <2>1, <2>2 DEF OwnLocks, Held, HoldsPacked
  <2> QED BY <1>2, <2>1, <2>3, <2>4 DEF Invariant, LockedRead
<1> QED BY <1>1, <1>2 DEF ReadReturn

\* Every step of p re-establishes the invariant of p.
LEMMA StepOwn ==
  ASSUME NEW p \in Procs, IndInv, TypeOK', Step(p)
  PROVE  Invariant(p)'
<1> USE ConstantsAssumption DEF IndInv, Invariant
<1> DEFINE Locks == /\ refLock' = refLock /\ packedLock' = packedLock
                    /\ newBy' = newBy /\ alive' = alive
<1>0. /\ pc \in [Procs -> Labels] /\ todo \in [Procs -> SUBSET Refs]
      /\ op \in [Procs -> {"none", "txn", "prune", "pack", "read", "list"}]
      /\ cur \in [Procs -> Refs \cup {NULL}] /\ tries \in [Procs -> 0 .. MaxRetries]
      /\ tx \in [Procs -> TxType] /\ refLock \in [Refs -> Procs \cup {Nobody}]
      /\ alive \in [Procs -> BOOLEAN]
  BY DEF TypeOK, TypeControl, TypeRepo
<1>1. CASE alive[p] /\ TransactionBegin(p) /\ UNCHANGED alive
  <2>1. /\ pc'[p] = "lock" /\ op'[p] = "txn" /\ pc[p] = "idle"
        /\ DOMAIN tx'[p] = todo'[p] /\ Locks /\ alive[p]
    BY <1>1, ZenonT(40) DEF TransactionBegin, Goto, repo, locals, TypeOK, TypeControl
  <2>2. Control(p)' BY <2>1 DEF Control, TypeOK, TypeControl
  <2>3. OwnLocks(p)' BY <2>1 DEF OwnLocks, Held, HoldsPacked, Deletes
  <2>4. LockedRead(p)' BY <2>1 DEF LockedRead
  <2> QED BY <2>2, <2>3, <2>4
<1>2. CASE alive[p] /\ LockRef(p) /\ UNCHANGED alive
  <2>1. PICK r \in todo[p] : /\ refLock[r] = Nobody /\ cur'[p] = r
                             /\ refLock' = [refLock EXCEPT ![r] = p]
    BY <1>0, <1>2 DEF LockRef
  <2>2. /\ pc[p] = "lock" /\ pc'[p] = "lstat" /\ op'[p] = op[p] /\ tx' = tx
        /\ op[p] \in {"txn", "prune"} /\ tries'[p] = MaxRetries /\ todo' = todo
        /\ packedLock' = packedLock /\ newBy' = newBy /\ alive' = alive
    BY <1>0, <1>2 DEF LockRef, Goto, Control
  <2>3. /\ r \in Refs /\ refLock'[r] = p
        /\ \A x \in Refs : x # r => refLock'[x] = refLock[x]
    BY <1>0, <2>1
  <2>4. Control(p)' BY <1>2, <2>1, <2>2, <2>3 DEF Control
  <2>5. OwnLocks(p)' BY <1>2, <2>1, <2>2, <2>3, ZenonT(40) DEF OwnLocks, Held, HoldsPacked
  <2>6. LockedRead(p)' BY <2>2 DEF LockedRead
  <2> QED BY <2>4, <2>5, <2>6
<1>3. CASE alive[p] /\ LockTimeout(p) /\ UNCHANGED alive
  <2>1. /\ pc[p] = "lock" /\ op'[p] = op[p] /\ cur'[p] = NULL
        /\ op[p] \in {"txn", "prune"} /\ Locks /\ tries' = tries
    BY <1>0, <1>3 DEF LockTimeout, Control, repo
  <2>2. /\ DOMAIN tx[p] \subseteq Refs /\ todo[p] \subseteq DOMAIN tx[p]
        /\ \A x \in DOMAIN tx[p] \ todo[p] : refLock[x] = p
        /\ packedLock # p /\ newBy # p
    BY <1>0, <1>3, <2>1, TxTypeElements DEF Control, OwnLocks, Held
  <2>3. CASE pc'[p] = "cleanup"
    <3>1. Control(p)' BY <1>3, <2>1, <2>3 DEF Control
    <3>2. OwnLocks(p)' BY <1>3, <2>1, <2>3 DEF OwnLocks, Held, HoldsPacked
    <3> QED BY <2>1, <2>3, <3>1, <3>2 DEF LockedRead
  <2>4. ASSUME NEW r \in todo[p], Reject(p, r) PROVE Invariant(p)'
    <3> DEFINE others == [x \in DOMAIN tx[p] \ {r} |-> tx[p][x]]
               rest == todo[p] \ {r}
    <3>1. /\ tx'[p] = others /\ todo'[p] = rest
          /\ pc'[p] = AfterLocking(p, others, rest)
      BY <1>0, <2>4 DEF Reject, Goto
    <3>2. DOMAIN others = DOMAIN tx[p] \ {r} OBVIOUS
    <3>3. /\ rest \subseteq DOMAIN others /\ DOMAIN others \subseteq Refs
          /\ \A x \in DOMAIN others \ rest : refLock'[x] = p
      BY <2>1, <2>2, <3>2
    <3>4. tries'[p] \in 0 .. MaxRetries /\ alive'[p] /\ packedLock' # p /\ newBy' # p
      BY <1>0, <1>3, <2>1, <2>2
    <3> HIDE DEF others, rest
    <3> QED BY <2>1, <3>1, <3>3, <3>4, LockingGoesOn DEF Invariant
  <2> QED BY <1>0, <1>3, <2>3, <2>4 DEF LockTimeout, Goto
<1>4. CASE alive[p] /\ PackedPrepare(p) /\ UNCHANGED alive
  <2>1. /\ pc[p] = "packwrite" /\ op[p] = "txn" /\ op'[p] = "txn"
        /\ pc'[p] \in {"prepared", "cleanup"} /\ tx' = tx /\ cur' = cur
        /\ newBy' \in {newBy, p} /\ (pc'[p] = "cleanup" => newBy' = newBy)
        /\ refLock' = refLock /\ packedLock' = packedLock /\ alive' = alive
    BY <1>0, <1>4 DEF PackedPrepare, CreatePackedNew, Goto
  <2>2. packedLock = p /\ cur[p] = NULL /\ Deletes(p)' = Deletes(p)
    BY <2>1 DEF OwnLocks, HoldsPacked, Control, Deletes
  <2>3. Control(p)' BY <1>4, <2>1, <2>2 DEF Control
  <2>4. OwnLocks(p)' BY <1>4, <2>1, <2>2 DEF OwnLocks, Held, HoldsPacked
  <2> QED BY <2>1, <2>3, <2>4 DEF LockedRead
<1>5. CASE alive[p] /\ FinishBegin(p) /\ UNCHANGED alive
  <2>1. /\ pc'[p] \in {"commit", "dellog", "packfinish", "unlink", "cleanup"}
        /\ op'[p] = op[p] /\ op[p] \in {"txn", "prune"} /\ tx' = tx /\ Locks
        /\ cur' = cur /\ todo'[p] = Work(p, pc'[p])
        /\ pc'[p] = "packfinish" => newBy = p
        /\ pc'[p] = "unlink" => newBy # p
    <3> DEFINE l == IF NeedsCommit(p) # {} THEN "commit" ELSE AfterCommits(p)
    <3>1. /\ l \in {"commit", "dellog", "packfinish", "unlink", "cleanup"}
          /\ l = "packfinish" => newBy = p
          /\ l = "unlink" => newBy # p
      BY DEF AfterCommits, AfterReflogs, AfterPacked
    <3>2. /\ pc' = [pc EXCEPT ![p] = l] /\ todo' = [todo EXCEPT ![p] = Work(p, l)]
      BY <1>5 DEF FinishBegin, Enter, Goto
    <3> HIDE DEF l
    <3> QED BY <1>0, <1>5, <3>1, <3>2 DEF FinishBegin, Control, repo, locals
  <2>2. /\ \A r \in DOMAIN tx[p] : refLock[r] = p
        /\ op[p] = "txn" /\ Deletes(p) # {} => packedLock = p
    BY <1>5, TxTypeElements, ZenonT(40) DEF FinishBegin, OwnLocks, Held, HoldsPacked, TypeOK, Control
  <2>3. /\ todo'[p] \subseteq DOMAIN tx[p] /\ Deletes(p)' = Deletes(p)
        /\ Deletes(p) \subseteq DOMAIN tx[p]
        /\ pc'[p] = "commit" => \A r \in todo'[p] : tx[p][r].new \in Oids
    BY <2>1 DEF Work, Deletes, NeedsCommit
  <2>4. cur[p] = NULL BY <1>5 DEF FinishBegin, Control
  <2>5. Control(p)' BY <1>5, <2>1, <2>3, <2>4 DEF Control, FinishBegin
  <2>6. OwnLocks(p)'
    BY <1>5, <2>1, <2>2, <2>3 DEF OwnLocks, Held, HoldsPacked
  <2> QED BY <2>1, <2>5, <2>6 DEF LockedRead
<1>6. CASE alive[p] /\ WriteReflog(p) /\ UNCHANGED alive
  <2>1. /\ pc[p] = "commit" /\ pc' = pc /\ op' = op /\ tx' = tx /\ todo' = todo
        /\ cur'[p] \in todo[p] /\ Locks
    BY <1>0, <1>6 DEF WriteReflog, locals
  <2>2. Control(p)' BY <1>6, <2>1 DEF Control
  <2>3. OwnLocks(p)' BY <1>6, <2>1 DEF OwnLocks, Held, HoldsPacked, Deletes
  <2> QED BY <2>1, <2>2, <2>3 DEF LockedRead
<1>7. CASE alive[p] /\ CommitRef(p) /\ UNCHANGED alive
  <2>1. /\ pc[p] = "commit" /\ cur[p] \in todo[p] /\ todo[p] \subseteq Refs
        /\ pc'[p] \in {"commit", "dellog", "packfinish", "unlink", "cleanup"}
        /\ op'[p] = op[p] /\ op[p] \in {"txn", "prune"} /\ tx' = tx
        /\ refLock' = [refLock EXCEPT ![cur[p]] = Nobody]
        /\ packedLock' = packedLock /\ newBy' = newBy /\ alive' = alive
        /\ cur'[p] = NULL
        /\ pc'[p] = "commit" => todo'[p] = todo[p] \ {cur[p]}
        /\ pc'[p] = "unlink" => todo'[p] = Work(p, "unlink") /\ newBy # p
        /\ pc'[p] = "packfinish" => newBy = p
    <3> DEFINE l == AfterCommits(p)
    <3>1. /\ l \in {"dellog", "packfinish", "unlink", "cleanup"}
          /\ l = "packfinish" => newBy = p
          /\ l = "unlink" => newBy # p
      BY DEF AfterCommits, AfterReflogs, AfterPacked
    <3>2. \/ pc' = pc /\ todo' = [todo EXCEPT ![p] = todo[p] \ {cur[p]}]
          \/ pc' = [pc EXCEPT ![p] = l] /\ todo' = [todo EXCEPT ![p] = Work(p, l)]
      BY <1>7 DEF CommitRef, Visited, Enter, Goto
    <3> HIDE DEF l
    <3>3. /\ pc[p] = "commit" /\ cur[p] # NULL /\ op' = op /\ tx' = tx
          /\ refLock' = [refLock EXCEPT ![cur[p]] = Nobody] /\ cur'[p] = NULL
          /\ packedLock' = packedLock /\ newBy' = newBy /\ alive' = alive
      BY <1>0, <1>7 DEF CommitRef, locals
    <3>4. cur[p] \in todo[p] /\ todo[p] \subseteq Refs /\ op[p] \in {"txn", "prune"}
      BY <1>0, <3>3 DEF Control
    <3>5. \/ pc'[p] = "commit" /\ todo'[p] = todo[p] \ {cur[p]}
          \/ pc'[p] = l /\ todo'[p] = Work(p, l)
      BY <1>0, <3>2, <3>3
    <3> QED BY <3>1, <3>3, <3>4, <3>5
  <2>2. /\ \A r \in todo[p] \cup Deletes(p) : refLock[r] = p
        /\ op[p] = "txn" /\ Deletes(p) # {} => packedLock = p
    BY <2>1, TxTypeElements DEF OwnLocks, Held, HoldsPacked, Deletes, TypeOK
  <2>3. /\ Deletes(p)' = Deletes(p) /\ Work(p, "unlink") \subseteq Deletes(p)
        /\ cur[p] \notin Deletes(p) /\ Deletes(p) \subseteq Refs
    BY <2>1, TxTypeElements DEF Work, Deletes, Control, TypeOK
  <2>4. \A r \in Refs : r # cur[p] => refLock'[r] = refLock[r]
    BY <2>1 DEF TypeOK, TypeRepo
  <2>5. \A r \in Refs : refLock'[r] = p => refLock[r] = p
    BY <2>1 DEF TypeOK, TypeRepo
  <2>6. Control(p)' BY <1>7, <2>1 DEF Control
  <2>7. OwnLocks(p)'
    <3>1. \A r \in Held(p)' : r \in Deletes(p) \/ r \in todo[p] \ {cur[p]}
      BY <2>1, <2>3 DEF Held
    <3>2. \A r \in Held(p)' : refLock'[r] = p
      BY <2>1, <2>2, <2>3, <2>4, <3>1, ZenonT(40)
    <3>3. HoldsPacked(p)' => packedLock' = p
      BY <2>1, <2>2, <2>3, <1>7 DEF HoldsPacked, OwnLocks
    <3>4. newBy' = p => packedLock' = p /\ pc'[p] # "unlink"
      BY <1>7, <2>1 DEF OwnLocks
    <3> QED BY <2>1, <2>5, <3>2, <3>3, <3>4 DEF OwnLocks
  <2> QED BY <2>1, <2>6, <2>7 DEF LockedRead
<1>8. CASE alive[p] /\ DeleteReflog(p) /\ UNCHANGED alive
  <2>1. /\ pc'[p] \in {"dellog", "packfinish", "unlink", "cleanup"}
        /\ op'[p] = op[p] /\ op[p] \in {"txn", "prune"} /\ tx' = tx /\ Locks
        /\ pc'[p] = "unlink" => todo'[p] = Work(p, "unlink") /\ newBy # p
        /\ pc'[p] = "packfinish" => newBy = p
    <3> DEFINE l == AfterReflogs(p)
    <3>1. /\ l \in {"packfinish", "unlink", "cleanup"}
          /\ l = "packfinish" => newBy = p
          /\ l = "unlink" => newBy # p
      BY DEF AfterReflogs, AfterPacked
    <3>2. \/ pc' = pc
          \/ pc' = [pc EXCEPT ![p] = l] /\ todo' = [todo EXCEPT ![p] = Work(p, l)]
      BY <1>8 DEF DeleteReflog, Visited, Enter, Goto
    <3> HIDE DEF l
    <3>3. pc[p] = "dellog" /\ op' = op /\ tx' = tx /\ Locks
      BY <1>8 DEF DeleteReflog, locals
    <3>4. op[p] \in {"txn", "prune"} BY <3>3 DEF Control
    <3>5. \/ pc'[p] = "dellog"
          \/ pc'[p] = l /\ todo'[p] = Work(p, l)
      BY <1>0, <3>2, <3>3
    <3> QED BY <3>1, <3>3, <3>4, <3>5
  <2>2. /\ \A r \in Deletes(p) : refLock[r] = p
        /\ op[p] = "txn" /\ Deletes(p) # {} => packedLock = p
    BY <1>8, TxTypeElements DEF DeleteReflog, OwnLocks, Held, HoldsPacked, Deletes, TypeOK
  <2>3. /\ Deletes(p)' = Deletes(p) /\ Work(p, "unlink") \subseteq Deletes(p)
    BY <2>1 DEF Work, Deletes
  <2>4. Control(p)' BY <1>8, <2>1 DEF Control, DeleteReflog
  <2>5. OwnLocks(p)'
    BY <1>8, <2>1, <2>2, <2>3 DEF OwnLocks, Held, HoldsPacked
  <2> QED BY <2>1, <2>4, <2>5 DEF LockedRead
<1>9. CASE alive[p] /\ PackedFinish(p) /\ UNCHANGED alive
  <2>1. /\ pc'[p] \in {"unlink", "cleanup"} /\ pc[p] = "packfinish"
        /\ op'[p] = op[p] /\ op[p] \in {"txn", "prune"} /\ tx' = tx
        /\ refLock' = refLock /\ packedLock' = packedLock /\ alive' = alive
        /\ newBy' = Nobody /\ todo'[p] = Work(p, pc'[p])
    <3> DEFINE l == AfterPacked(p)
    <3>1. l \in {"unlink", "cleanup"} BY DEF AfterPacked
    <3>2. pc' = [pc EXCEPT ![p] = l] /\ todo' = [todo EXCEPT ![p] = Work(p, l)]
      BY <1>9 DEF PackedFinish, Enter, Goto
    <3> HIDE DEF l
    <3> QED BY <1>0, <1>9, <3>1, <3>2 DEF PackedFinish, Control, locals
  <2>2. (\A r \in Deletes(p) : refLock[r] = p) /\ packedLock = p
    BY <2>1, TxTypeElements DEF OwnLocks, Held, HoldsPacked, Deletes, TypeOK
  <2>3. todo'[p] \subseteq Deletes(p) BY <2>1 DEF Work, Deletes
  <2>4. Control(p)' BY <1>9, <2>1 DEF Control
  <2>5. OwnLocks(p)' BY <1>9, <2>1, <2>2, <2>3 DEF OwnLocks, Held, HoldsPacked
  <2> QED BY <2>1, <2>4, <2>5 DEF LockedRead
<1>10. CASE alive[p] /\ UnlinkLoose(p) /\ UNCHANGED alive
  <2>1. /\ \/ pc' = pc /\ todo'[p] \subseteq todo[p]
           \/ pc'[p] = "cleanup"
        /\ pc[p] = "unlink" /\ op' = op /\ op[p] \in {"txn", "prune"} /\ tx' = tx
        /\ Locks
    <3>1. /\ pc[p] = "unlink" /\ op' = op /\ tx' = tx /\ Locks
          /\ \E r \in todo[p] : Visited(p, r, "cleanup")
      BY <1>10 DEF UnlinkLoose, locals
    <3>2. op[p] \in {"txn", "prune"} BY <1>0, <3>1 DEF Control
    <3>3. ASSUME NEW r \in todo[p], Visited(p, r, "cleanup")
          PROVE  (pc' = pc /\ todo'[p] \subseteq todo[p]) \/ pc'[p] = "cleanup"
      BY <1>0, <3>3, SMTT(30) DEF Visited, Enter, Goto
    <3> QED BY <3>1, <3>2, <3>3
  <2>2. Control(p)' BY <1>10, <2>1 DEF Control
  <2>3. OwnLocks(p)' BY <1>10, <2>1 DEF OwnLocks, Held, HoldsPacked, Deletes
  <2> QED BY <2>1, <2>2, <2>3 DEF LockedRead
<1>11. CASE alive[p] /\ UnlockRef(p) /\ UNCHANGED alive
  BY <1>11, ZenonT(40) DEF UnlockRef, TypeOK, TypeRepo, TypeControl,
     Goto, repo, locals, Control, OwnLocks, Held, HoldsPacked, Deletes, LockedRead
<1>12. CASE alive[p] /\ CleanupPacked(p) /\ UNCHANGED alive
  <2>1. /\ \/ pc'[p] = "prunenext" /\ op'[p] = "prune"
           \/ pc'[p] = "idle" /\ op'[p] = "none"
        /\ refLock' = refLock /\ alive' = alive
        /\ packedLock' # p /\ newBy' # p
    BY <1>12, ZenonT(40) DEF CleanupPacked, Finish, Goto, locals, TypeOK, TypeControl
  <2>2. \A r \in Refs : refLock[r] # p BY <1>12 DEF CleanupPacked
  <2>3. Control(p)' BY <1>12, <2>1 DEF Control
  <2>4. OwnLocks(p)' BY <2>1, <2>2 DEF OwnLocks, Held, HoldsPacked
  <2> QED BY <2>1, <2>3, <2>4 DEF LockedRead
<1>13. CASE alive[p] /\ ReadBegin(p) /\ UNCHANGED alive
  <2>1. /\ pc'[p] = "lstat" /\ op'[p] = "read" /\ cur'[p] \in Refs
        /\ pc[p] = "idle" /\ Locks /\ alive[p]
    BY <1>13, ZenonT(40) DEF ReadBegin, Goto, repo, locals, TypeOK, TypeControl
  <2>2. Control(p)' BY <2>1 DEF Control, TypeOK, TypeControl
  <2>3. OwnLocks(p)' BY <2>1 DEF OwnLocks, Held, HoldsPacked, Deletes
  <2>4. LockedRead(p)' BY <2>1 DEF LockedRead
  <2> QED BY <2>2, <2>3, <2>4
<1>14. CASE alive[p] /\ ReadLstat(p) /\ UNCHANGED alive
  <2>1. /\ pc[p] = "lstat" /\ pc'[p] \in {"open", "readpacked"}
        /\ pc'[p] = "open" => loose[cur[p]] # NULL
        /\ op' = op /\ tx' = tx /\ todo' = todo /\ cur' = cur /\ Locks /\ loose' = loose
    BY <1>0, <1>14 DEF ReadLstat, Goto, repo
  <2>2. Control(p)' BY <1>14, <2>1 DEF Control
  <2>3. OwnLocks(p)' BY <1>14, <2>1 DEF OwnLocks, Held, HoldsPacked
  <2> QED BY <2>1, <2>2, <2>3 DEF LockedRead
<1>15. CASE alive[p] /\ ReadGiveUp(p) /\ UNCHANGED alive
  <2>1. /\ op' = op /\ ReadReturn(p, NULL, FALSE) /\ pc[p] = "lstat"
        /\ packedLock' = packedLock /\ newBy' = newBy /\ alive' = alive
    BY <1>15 DEF ReadGiveUp, readOnly
  <2> QED BY <1>15, <2>1, ReadReturnOwn
<1>16. CASE alive[p] /\ ReadOpen(p) /\ UNCHANGED alive
  <2>1. /\ op' = op /\ pc[p] = "open"
        /\ packedLock' = packedLock /\ newBy' = newBy /\ alive' = alive
    BY <1>16 DEF ReadOpen, readOnly
  <2>2. CASE loose[cur[p]] # NULL
    BY <1>16, <2>1, <2>2, ReadReturnOwn DEF ReadOpen
  <2>3. CASE loose[cur[p]] = NULL
    <3>1. /\ pc'[p] = "lstat" /\ op'[p] = op[p] /\ op[p] \notin {"txn", "prune"}
          /\ cur' = cur /\ todo' = todo /\ tx' = tx /\ refLock' = refLock
      BY <1>16, <2>3 DEF ReadOpen, LockedRead, Goto, TypeOK, TypeControl
    <3>2. Control(p)' BY <1>16, <2>1, <3>1 DEF Control
    <3>3. OwnLocks(p)' BY <1>16, <2>1, <3>1 DEF OwnLocks, Held, HoldsPacked
    <3> QED BY <3>1, <3>2, <3>3 DEF LockedRead
  <2> QED BY <2>2, <2>3
<1>17. CASE alive[p] /\ ReadPacked(p) /\ UNCHANGED alive
  <2>1. /\ op' = op /\ pc[p] = "readpacked"
        /\ packedLock' = packedLock /\ newBy' = newBy /\ alive' = alive
        /\ ReadReturn(p, packed[cur[p]], packed[cur[p]] # NULL)
    BY <1>17 DEF ReadPacked, readOnly
  <2> QED BY <1>17, <2>1, ReadReturnOwn
<1>18. CASE alive[p] /\ ReadEnd(p) /\ UNCHANGED alive
  <2>1. pc[p] = "returned" /\ op[p] \in {"read", "list"}
    BY <1>18 DEF ReadEnd, Control
  <2>2. pc'[p] = "idle" /\ op'[p] = "none" /\ Locks
    BY <1>18 DEF ReadEnd, Finish, repo, TypeOK, TypeControl
  <2>3. Control(p)' BY <2>2 DEF Control
  <2>4. OwnLocks(p)' BY <2>1, <2>2 DEF OwnLocks, Held, HoldsPacked
  <2> QED BY <2>2, <2>3, <2>4 DEF LockedRead
<1>19. CASE alive[p] /\ ListBegin(p) /\ UNCHANGED alive
  <2>1. pc'[p] = "scan" /\ op'[p] = "list" /\ pc[p] = "idle" /\ Locks /\ alive[p]
    BY <1>19 DEF ListBegin, Goto, repo, locals, TypeOK, TypeControl
  <2>2. Control(p)' BY <2>1 DEF Control, TypeOK, TypeControl
  <2>3. OwnLocks(p)' BY <2>1 DEF OwnLocks, Held, HoldsPacked, Deletes
  <2>4. LockedRead(p)' BY <2>1 DEF LockedRead
  <2> QED BY <2>2, <2>3, <2>4
<1>20. CASE alive[p] /\ ListPacked(p) /\ UNCHANGED alive
  <2>1. /\ pc'[p] = "returned" /\ op'[p] = "list" /\ op[p] = "list"
        /\ Locks /\ alive[p]
    BY <1>20 DEF ListPacked, Goto, repo, locals, TypeOK, TypeControl
  <2>2. Control(p)' BY <2>1 DEF Control, TypeOK, TypeControl
  <2>3. OwnLocks(p)' BY <2>1 DEF OwnLocks, Held, HoldsPacked, Deletes
  <2>4. LockedRead(p)' BY <2>1 DEF LockedRead
  <2> QED BY <2>2, <2>3, <2>4
<1>21. CASE alive[p] /\ PackBegin(p) /\ UNCHANGED alive
  <2>1. /\ pc'[p] \in {"scan", "packlock"} /\ op'[p] = "pack"
        /\ pc[p] = "idle" /\ Locks /\ alive[p]
    BY <1>21 DEF PackBegin, Goto, repo, locals, TypeOK, TypeControl
  <2>2. Control(p)' BY <2>1 DEF Control, TypeOK, TypeControl
  <2>3. OwnLocks(p)' BY <2>1 DEF OwnLocks, Held, HoldsPacked, Deletes
  <2>4. LockedRead(p)' BY <2>1 DEF LockedRead
  <2> QED BY <2>2, <2>3, <2>4
<1>22. CASE alive[p] /\ PackedRefsLock(p) /\ UNCHANGED alive
  <2>1. /\ pc'[p] = IF op[p] = "pack" THEN "scan" ELSE "packwrite"
        /\ op'[p] = op[p] /\ op[p] \in {"txn", "pack"} /\ pc[p] = "packlock"
        /\ packedLock' = p /\ refLock' = refLock /\ newBy' = newBy /\ alive' = alive
        /\ tx' = tx /\ todo' = todo /\ cur' = cur
    BY <1>22, ZenonT(40) DEF PackedRefsLock, Control, Goto, repo, locals, TypeOK, TypeControl
  <2>2. Control(p)' BY <2>1 DEF Control, TypeOK, TypeControl
  <2>3. OwnLocks(p)' BY <2>1 DEF OwnLocks, Held, HoldsPacked, Deletes
  <2>4. LockedRead(p)' BY <2>1 DEF LockedRead
  <2> QED BY <2>2, <2>3, <2>4
<1>23. CASE alive[p] /\ PackedLockTimeout(p) /\ UNCHANGED alive
  <2>1. /\ pc'[p] = "cleanup" /\ op'[p] = op[p] /\ op[p] \in {"txn", "pack"}
        /\ pc[p] = "packlock" /\ Locks
    BY <1>23, ZenonT(40) DEF PackedLockTimeout, Control, Goto, repo, locals, TypeOK, TypeControl
  <2>2. Control(p)' BY <2>1 DEF Control, TypeOK, TypeControl
  <2>3. OwnLocks(p)' BY <2>1 DEF OwnLocks, Held, HoldsPacked, Deletes
  <2>4. LockedRead(p)' BY <2>1 DEF LockedRead
  <2> QED BY <2>2, <2>3, <2>4
<1>24. CASE alive[p] /\ ScanLoose(p) /\ UNCHANGED alive
  <2>1. /\ pc[p] = "scan" /\ op[p] \in {"pack", "list"} /\ op'[p] = op[p] /\ Locks
        /\ \/ pc'[p] = "lstat" /\ cur'[p] \in todo'[p] /\ todo'[p] \subseteq Refs
           \/ pc'[p] = "scan"
    BY <1>24, ZenonT(40) DEF ScanLoose, Control, Goto, repo, TypeOK, TypeControl
  <2>2. Control(p)' BY <1>24, <2>1 DEF Control
  <2>3. OwnLocks(p)' BY <1>24, <2>1 DEF OwnLocks, Held, HoldsPacked
  <2>4. LockedRead(p)' BY <2>1 DEF LockedRead
  <2> QED BY <2>2, <2>3, <2>4
<1>25. CASE alive[p] /\ PackDecided(p) /\ UNCHANGED alive
  <2>1. /\ pc'[p] = "packlock" /\ op'[p] = "pack" /\ pc[p] = "scan"
        /\ op[p] = "pack" /\ packedLock # p /\ Locks
    BY <1>25 DEF PackDecided, Goto, repo, locals, TypeOK, TypeControl
  <2>2. Control(p)' BY <2>1 DEF Control, TypeOK, TypeControl
  <2>3. OwnLocks(p)' BY <2>1 DEF OwnLocks, Held, HoldsPacked, Deletes
  <2>4. LockedRead(p)' BY <2>1 DEF LockedRead
  <2> QED BY <2>2, <2>3, <2>4
<1>26. CASE alive[p] /\ PackNotNeeded(p) /\ UNCHANGED alive
  <2>1. pc'[p] = "idle" /\ op'[p] = "none" /\ pc[p] = "scan" /\ op[p] = "pack"
        /\ packedLock # p /\ Locks
    BY <1>26 DEF PackNotNeeded, Finish, Goto, repo, locals, TypeOK, TypeControl
  <2>2. Control(p)' BY <2>1 DEF Control, TypeOK, TypeControl
  <2>3. OwnLocks(p)' BY <2>1 DEF OwnLocks, Held, HoldsPacked, Deletes
  <2>4. LockedRead(p)' BY <2>1 DEF LockedRead
  <2> QED BY <2>2, <2>3, <2>4
<1>27. CASE alive[p] /\ PackWrite(p) /\ UNCHANGED alive
  <2>1. /\ pc'[p] \in {"packcommit", "cleanup"} /\ op'[p] = "pack" /\ op[p] = "pack"
        /\ pc[p] = "scan" /\ packedLock = p /\ packedLock' = p /\ refLock' = refLock
        /\ (newBy' = newBy \/ newBy' = p) /\ alive' = alive
        /\ pc'[p] = "packcommit" => newBy' = p
        /\ pc'[p] = "cleanup" => newBy' = newBy
    BY <1>27 DEF PackWrite, CreatePackedNew, Goto, repo, locals, TypeOK, TypeControl
  <2>2. Control(p)' BY <2>1 DEF Control, TypeOK, TypeControl
  <2>3. OwnLocks(p)' BY <2>1 DEF OwnLocks, Held, HoldsPacked, Deletes
  <2>4. LockedRead(p)' BY <2>1 DEF LockedRead
  <2> QED BY <2>2, <2>3, <2>4
<1>28. CASE alive[p] /\ PackCommit(p) /\ UNCHANGED alive
  <2>1. /\ pc'[p] = "packunlock" /\ op'[p] = "pack" /\ op[p] = "pack"
        /\ pc[p] = "packcommit" /\ packedLock' = packedLock
        /\ refLock' = refLock /\ newBy' = Nobody /\ alive' = alive
    BY <1>28, ZenonT(40) DEF PackCommit, Control, Goto, repo, locals, TypeOK, TypeControl
  <2>2. Control(p)' BY <2>1 DEF Control, TypeOK, TypeControl
  <2>3. OwnLocks(p)' BY <2>1 DEF OwnLocks, Held, HoldsPacked, Deletes
  <2>4. LockedRead(p)' BY <2>1 DEF LockedRead
  <2> QED BY <2>2, <2>3, <2>4
<1>29. CASE alive[p] /\ PackUnlock(p) /\ UNCHANGED alive
  <2>1. /\ pc'[p] = "prunenext" /\ op'[p] = "pack" /\ op[p] = "pack"
        /\ pc[p] = "packunlock" /\ packedLock' = Nobody
        /\ refLock' = refLock /\ newBy' = newBy /\ alive' = alive
    BY <1>29, ZenonT(40) DEF PackUnlock, Control, Goto, repo, locals, TypeOK, TypeControl
  <2>2. Control(p)' BY <2>1 DEF Control, TypeOK, TypeControl
  <2>3. OwnLocks(p)' BY <2>1 DEF OwnLocks, Held, HoldsPacked, Deletes
  <2>4. LockedRead(p)' BY <2>1 DEF LockedRead
  <2> QED BY <2>2, <2>3, <2>4
<1>30. CASE alive[p] /\ PruneRef(p) /\ UNCHANGED alive
  <2>1. /\ pc'[p] = "lock" /\ op'[p] = "prune" /\ pc[p] = "prunenext"
        /\ DOMAIN tx'[p] = todo'[p] /\ Locks
    BY <1>0, <1>30, ZenonT(40) DEF PruneRef, Goto, repo
  <2>2. Control(p)' BY <2>1 DEF Control, TypeOK, TypeControl
  <2>3. OwnLocks(p)' BY <2>1 DEF OwnLocks, Held, HoldsPacked, Deletes
  <2>4. LockedRead(p)' BY <2>1 DEF LockedRead
  <2> QED BY <2>2, <2>3, <2>4
<1>31. CASE alive[p] /\ PruneDone(p) /\ UNCHANGED alive
  <2>1. pc'[p] = "idle" /\ op'[p] = "none" /\ pc[p] = "prunenext" /\ Locks
    BY <1>31 DEF PruneDone, Finish, Goto, repo, locals, TypeOK, TypeControl
  <2>2. Control(p)' BY <2>1 DEF Control, TypeOK, TypeControl
  <2>3. OwnLocks(p)' BY <2>1 DEF OwnLocks, Held, HoldsPacked, Deletes
  <2>4. LockedRead(p)' BY <2>1 DEF LockedRead
  <2> QED BY <2>2, <2>3, <2>4
<1>32. CASE alive[p] /\ Abort(p) /\ UNCHANGED alive
  <2>1. /\ pc'[p] = "cleanup" /\ op'[p] = op[p] /\ pc[p] # "idle"
        /\ pc[p] # "returned" /\ Locks
    BY <1>32 DEF Abort, Goto, repo, locals, TypeOK, TypeControl
  <2>2. Control(p)' BY <2>1 DEF Control, TypeOK, TypeControl
  <2>3. OwnLocks(p)' BY <2>1 DEF OwnLocks, Held, HoldsPacked, Deletes
  <2>4. LockedRead(p)' BY <2>1 DEF LockedRead
  <2> QED BY <2>2, <2>3, <2>4
<1>33. CASE alive[p] /\ Crash(p)
  <2>1. pc'[p] = "idle" /\ op'[p] = "none" /\ ~alive'[p]
    BY <1>0, <1>33 DEF Crash, Finish
  <2>2. Control(p)' BY <2>1 DEF Control
  <2>3. OwnLocks(p)' BY <2>1 DEF OwnLocks, Held, HoldsPacked, Deletes
  <2>4. LockedRead(p)' BY <2>1 DEF LockedRead
  <2> QED BY <2>2, <2>3, <2>4
<1>34. CASE RemoveStale(p)
  BY <1>34 DEF RemoveStale, TypeOK, TypeRepo, TypeControl,
     Goto, repo, locals, Control, OwnLocks, Held, HoldsPacked, Deletes, LockedRead
<1>35. CASE Respawn(p)
  BY <1>35 DEF Respawn, TypeOK, TypeRepo, TypeControl,
     Goto, repo, locals, Control, OwnLocks, Held, HoldsPacked, Deletes, LockedRead
<1> QED BY <1>1, <1>2, <1>3, <1>4, <1>5, <1>6, <1>7, <1>8, <1>9, <1>10,
    <1>11, <1>12, <1>13, <1>14, <1>15, <1>16, <1>17, <1>18, <1>19, <1>20,
    <1>21, <1>22, <1>23, <1>24, <1>25, <1>26, <1>27, <1>28, <1>29, <1>30,
    <1>31, <1>32, <1>33, <1>34, <1>35
    DEF Step, TxnStep, ReadStep, PackStep

\* The invariant holds initially.
LEMMA Initially == ASSUME Init PROVE IndInv
<1> USE ConstantsAssumption DEF Init
<1>1. NoTx \in TxType
  <2>1. NoTx \in [{} -> UpdateType] BY DEF NoTx
  <2> QED BY <2>1, TxTypeElements
<1>2. AllNull \in [Refs -> OidOrNull] BY DEF AllNull, OidOrNull
<1>3. TypeRepo BY <1>2 DEF TypeRepo, Value
<1>4. TypeControl BY SMTT(30) DEF TypeControl, Labels, MaxRetries
<1>5. TypeData BY <1>2 DEF TypeData
<1>6. TypeOK BY <1>1, <1>3, <1>4, <1>5 DEF TypeOK
<1>7. ASSUME NEW p \in Procs PROVE Invariant(p)
  <2>1. pc[p] = "idle" /\ op[p] = "none" /\ alive[p] BY <1>7
  <2>2. /\ \A r \in Refs : refLock[r] # p
        /\ packedLock # p /\ newBy # p
    BY <1>7
  <2>3. Control(p) BY <2>1 DEF Control
  <2>4. OwnLocks(p) BY <2>1, <2>2 DEF OwnLocks, Held, HoldsPacked
  <2> QED BY <2>1, <2>3, <2>4 DEF Invariant, LockedRead
<1> QED BY <1>6, <1>7 DEF IndInv

\* The invariant is inductive: a step of p by StepOwn for p, by StepFrame for the
\* others.
LEMMA Inductive == IndInv /\ [Next]_vars => IndInv'
<1> SUFFICES ASSUME IndInv, [Next]_vars PROVE IndInv'
  OBVIOUS
<1>1. ASSUME NEW p \in Procs, Step(p), Observe PROVE IndInv'
  <2>1. TypeOK' BY <1>1, StepType
  <2>2. Invariant(p)' BY <1>1, <2>1, StepOwn
  <2>3. ASSUME NEW q \in Procs, q # p PROVE Invariant(q)'
    BY <1>1, <2>3, StepFrame, FramePreserves
  <2> QED BY <2>1, <2>2, <2>3 DEF IndInv
<1>2. CASE UNCHANGED vars
  <2>1. TypeOK'
    BY <1>2 DEF vars, repo, IndInv, TypeOK, TypeRepo, TypeControl, TypeData
  <2>2. ASSUME NEW p \in Procs PROVE Invariant(p)'
    <3>1. Frame(p, p) BY <1>2 DEF vars, repo, Frame
    <3> QED BY <3>1, FramePreserves
  <2> QED BY <2>1, <2>2 DEF IndInv
<1> QED BY <1>1, <1>2 DEF Next

\* The lock and control invariant holds in every reachable state, for any number
\* of writers, packers, readers and references, with crashes and failed calls.
THEOREM InvariantHolds == Spec => []IndInv
<1> QED BY Initially, Inductive, PTL DEF Spec

\* Every variable keeps its type.
THEOREM TypeCorrect == Spec => []TypeOK
<1>1. IndInv => TypeOK BY DEF IndInv
<1> QED BY <1>1, InvariantHolds, PTL

\* A process acts on a reference or on packed-refs only under its own lock.
THEOREM LocksAreHeld == Spec => []LockDiscipline
<1>1. IndInv => LockDiscipline BY DEF IndInv, Invariant, LockDiscipline
<1> QED BY <1>1, InvariantHolds, PTL

\* No call of a live process returns with a lock or packed-refs.new left behind.
THEOREM LocksAreReleased == Spec => []NothingLeaked
<1>1. IndInv => NothingLeaked BY DEF IndInv, Invariant, OwnLocks, NothingLeaked
<1> QED BY <1>1, InvariantHolds, PTL

\* The retries of read_ref_internal() are never needed under the lock.
THEOREM LockedReadsSucceed == Spec => []LockedReadNeverRetries
<1>1. IndInv => LockedReadNeverRetries
  BY DEF IndInv, Invariant, LockedRead, LockedReadNeverRetries
<1> QED BY <1>1, InvariantHolds, PTL

\* Loose files and packed-refs change only under the lock of a live process.
THEOREM ChangesUnderLock == Spec => ChangesAreLocked
<1> DEFINE Locked == /\ \A r \in Refs : loose'[r] # loose[r] =>
                          \E p \in Procs : alive[p] /\ refLock[r] = p
                     /\ packed' # packed =>
                          \E p \in Procs : alive[p] /\ packedLock = p
<1>1. IndInv /\ [Next]_vars => [Locked]_vars
  <2> SUFFICES ASSUME IndInv, NEW p \in Procs, Step(p) PROVE Locked
    BY DEF Next
  <2> USE DEF IndInv, Invariant
  <2>1. CASE alive[p] /\ CommitRef(p)
    <3>1. cur[p] \in Refs /\ refLock[cur[p]] = p
      BY <2>1 DEF CommitRef, Control, OwnLocks, Held, TypeOK, TypeControl
    <3> QED BY <2>1, <3>1 DEF CommitRef, TypeOK, TypeRepo
  <2>2. CASE alive[p] /\ UnlinkLoose(p)
    <3>1. \A r \in todo[p] : r \in Refs /\ refLock[r] = p
      BY <2>2 DEF UnlinkLoose, OwnLocks, Held, TypeOK, TypeControl
    <3> QED BY <2>2, <3>1 DEF UnlinkLoose, TypeOK, TypeRepo
  <2>3. CASE alive[p] /\ (PackedFinish(p) \/ PackCommit(p))
    BY <2>3 DEF PackedFinish, PackCommit, OwnLocks, HoldsPacked
  <2>4. CASE loose' = loose /\ packed' = packed
    BY <2>4
  <2> QED
    BY <2>1, <2>2, <2>3, <2>4
    DEF Step, TxnStep, ReadStep, PackStep, TransactionBegin, LockRef, LockTimeout,
        PackedPrepare, FinishBegin, WriteReflog, DeleteReflog, UnlockRef,
        CleanupPacked, ReadBegin, ReadLstat, ReadGiveUp, ReadOpen, ReadPacked,
        ReadEnd, ListBegin, ListPacked, PackBegin, PackedRefsLock,
        PackedLockTimeout, ScanLoose, PackDecided, PackNotNeeded, PackWrite,
        PackUnlock, PruneRef, PruneDone, Abort, Crash, RemoveStale, Respawn, repo,
        readOnly
<1> QED BY <1>1, InvariantHolds, PTL DEF Spec, ChangesAreLocked

=============================================================================
