------------------------ MODULE ReftableStackProofs ------------------------
(***************************************************************************)
(* The safety properties of ReftableStack, and that it implements RefStore: *)
(* a table that is about to be listed says what its writer prepared, or    *)
(* what the range it replaces said, so a new list changes exactly what its *)
(* transaction says, and a compacted one changes nothing.                  *)
(***************************************************************************)
EXTENDS ReftableStackInv, ReftableStackViews

\* Most leaves are first-order; SMT is named where numbers, sequences or function
\* updates need it.
USE ZenonT(30)

\* A step writes at most one table.
LEMMA StepTab ==
  ASSUME TypeOK, NEW p \in Procs, Step(p), InRange(p)
  PROVE  UNCHANGED tab \/ \E t \in Table : AddTable(p, t)
<1> USE DEF TypeOK
<1>1. CASE AdditionAdd(p)
  <2> DEFINE n == NextUpdateIndex(st[p])
             recs == Written(tx[p], View(st[p]))
  <2>1. st[p] \in Seq(1 .. Len(tab)) /\ tx[p] \in TxType /\ tab \in Seq(Table)
    BY DEF TypeData, TypeRepo
  <2>2. n \in Nat /\ recs \in Records
    BY <2>1, NextUpdateIndexType, WrittenType
  <2>3. UNCHANGED tab \/ AddTable(p, [min |-> n, max |-> n, recs |-> recs])
    BY <1>1 DEF AdditionAdd
  <2> HIDE DEF n, recs
  <2>4. [min |-> n, max |-> n, recs |-> recs] \in Table
    BY <2>2 DEF Table
  <2> QED BY <2>3, <2>4
<1>2. CASE CompactRename(p)
  <2>1. Compacting(p) /\ tab \in Seq(Table)
    BY <1>2 DEF CompactRename, Compacting, TypeRepo
  <2>2. Merged(p) \in Table
    BY <2>1, MergedType
  <2>3. UNCHANGED tab \/ AddTable(p, Merged(p))
    BY <1>2 DEF CompactRename
  <2> QED BY <2>2, <2>3
<1> QED BY <1>1, <1>2, StepRepo

\* The invariant holds in every state of every behaviour.
LEMMA InvariantHolds == Spec => []IInv
<1>1. ASSUME IInv, Next PROVE IInv'
  <2>1. PICK p \in Procs : Step(p) /\ Observe
    BY <1>1 DEF Next
  <2>2. TypeOK /\ InRange(p) /\ TypeRepo
    BY <1>1 DEF IInv, Local, TypeOK
  <2>3. tab' \in Seq(Table)
    BY <2>1, <2>2, StepTab, SMTT(30) DEF AddTable, TypeRepo
  <2> QED BY <1>1, <2>1, <2>3, StepIInv
<1>2. IInv /\ [Next]_vars => IInv'
  BY <1>1, StutterIInv
<1> QED BY <1>2, InitIInv, PTL DEF Spec

\* A step leaves the tables there are.
LEMMA StepGrows ==
  ASSUME IInv, NEW p \in Procs, Step(p)
  PROVE  Grows
<1>1. TypeOK /\ TypeRepo /\ InRange(p) /\ tab \in Seq(Table)
  BY DEF IInv, Local, TypeOK, TypeRepo
<1>2. tab' \in Seq(Table)
  BY <1>1, StepTab, SMTT(30) DEF AddTable
<1> QED BY <1>1, <1>2, TabGrows DEF Grows

\* p is about to list what it should list.
LEMMA StepWrote ==
  ASSUME IInv, NEW p \in Procs, Step(p)
  PROVE  Wrote(p)'
<1>1. /\ TypeControl /\ TypeData /\ Control(p) /\ InRange(p) /\ Grows
      /\ pc \in [Procs -> Labels] /\ tab \in Seq(Table) /\ st[p] \in Seq(1 .. Len(tab))
      /\ new \in [Procs -> 0 .. Len(tab)]
  BY StepGrows DEF IInv, Local, TypeOK, TypeRepo, TypeControl, TypeData
<1>2. ASSUME NEW t, AddTable(p, t) PROVE tab'[new'[p]] = t /\ new'[p] # 0
  BY <1>1, <1>2, SMTT(30) DEF AddTable
<1>3. ASSUME pc'[p] = "commit"
      PROVE  tab'[new'[p]] = [min |-> NextUpdateIndex(st[p])', max |-> NextUpdateIndex(st[p])',
                              recs |-> Written(tx[p], View(st[p]))']
  <2>1. AdditionAdd(p)
    BY <1>1, <1>3, StepArrives DEF Arrives
  <2>2. ~Fail(p, "release") /\ UNCHANGED <<st, tx>>
    BY <1>1, <1>3, <2>1, SMTT(30) DEF AdditionAdd, Fail, Goto
  <2>3. AddTable(p, [min |-> NextUpdateIndex(st[p]), max |-> NextUpdateIndex(st[p]),
                     recs |-> Written(tx[p], View(st[p]))])
    BY <2>1, <2>2 DEF AdditionAdd
  <2>4. tab'[new'[p]] = [min |-> NextUpdateIndex(st[p]), max |-> NextUpdateIndex(st[p]),
                         recs |-> Written(tx[p], View(st[p]))]
    BY <1>2, <2>3
  <2>5. View(st[p])' = View(st[p]) /\ NextUpdateIndex(st[p])' = NextUpdateIndex(st[p])
    <3>1. /\ \A s \in Seq(1 .. Len(tab)) : View(s)' = View(s)
          /\ \A s \in Seq(1 .. Len(tab)) : NextUpdateIndex(s)' = NextUpdateIndex(s)
      BY <1>1, StableMeaning
    <3> QED BY <1>1, <2>2, <3>1
  <2>6. Written(tx[p], View(st[p]))' = Written(tx[p], View(st[p]))
    BY <2>2, <2>5 DEF Written
  <2> QED BY <2>4, <2>5, <2>6
<1>4. ASSUME pc'[p] = "replace"
      PROVE  IF new'[p] = 0 THEN DOMAIN Merged(p)'.recs = {} ELSE tab'[new'[p]] = Merged(p)'
  <2>1. CompactRename(p)
    BY <1>1, <1>4, StepArrives DEF Arrives
  <2>2. /\ ~Fail(p, "release") /\ UNCHANGED <<st, first, last>> /\ Compacting(p)
        /\ pc[p] = "rename"
    BY <1>1, <1>4, <2>1 DEF CompactRename, Fail, Goto, compacting, Compacting
  <2>3. Merged(p)' = Merged(p)
    BY <1>1, <2>2, StableMerged
  <2>4. new[p] = 0
    BY <1>1, <2>2 DEF Control
  <2>5. \/ AddTable(p, Merged(p))
        \/ DOMAIN Merged(p).recs = {} /\ UNCHANGED new
    BY <2>1, <2>2 DEF CompactRename
  <2> QED BY <1>2, <2>3, <2>4, <2>5
<1> QED BY <1>3, <1>4 DEF Wrote

\* What another process is about to list stays what it should be.
LEMMA OthersWrote ==
  ASSUME IInv, NEW p \in Procs, Step(p), NEW q \in Procs, q # p, Wrote(q)
  PROVE  Wrote(q)'
<1>1. /\ TypeControl /\ TypeData /\ Control(q) /\ InRange(q) /\ Grows
      /\ st[q] \in Seq(1 .. Len(tab)) /\ new[q] \in 0 .. Len(tab) /\ Len(tab) \in Nat
  <2>1. Grows
    BY StepGrows
  <2>2. TypeControl /\ TypeData /\ Control(q) /\ InRange(q)
    BY DEF IInv, Local, TypeOK
  <2> QED BY <2>1, <2>2 DEF TypeData, Grows
<1>2. /\ pc'[q] = pc[q] /\ st'[q] = st[q] /\ tx'[q] = tx[q] /\ new'[q] = new[q]
      /\ first'[q] = first[q] /\ last'[q] = last[q]
  BY <1>1, StepFrame
<1>3. new[q] # 0 => tab'[new[q]] = tab[new[q]]
  BY <1>1, SMTT(30) DEF Grows
<1>4. CASE pc[q] = "commit"
  <2>1. View(st[q])' = View(st[q]) /\ NextUpdateIndex(st[q])' = NextUpdateIndex(st[q])
    <3>1. /\ \A s \in Seq(1 .. Len(tab)) : View(s)' = View(s)
          /\ \A s \in Seq(1 .. Len(tab)) : NextUpdateIndex(s)' = NextUpdateIndex(s)
      BY <1>1, StableMeaning
    <3> QED BY <1>1, <1>2, <3>1
  <2>2. Written(tx[q], View(st[q]))' = Written(tx[q], View(st[q]))
    BY <1>2, <2>1 DEF Written
  <2>3. new[q] # 0
    BY <1>1, <1>4 DEF Control
  <2> QED BY <1>2, <1>3, <1>4, <2>1, <2>2, <2>3, SMTT(30) DEF Wrote
<1>5. CASE pc[q] = "replace"
  <2>1. Compacting(q)
    BY <1>5 DEF Compacting
  <2>2. Merged(q)' = Merged(q)
    BY <1>1, <1>2, <2>1, StableMerged
  <2> QED BY <1>2, <1>3, <1>5, <2>2 DEF Wrote
<1> QED BY <1>2, <1>4, <1>5 DEF Wrote

\* What is written has its indices in order.
LEMMA StepTabIndexed ==
  ASSUME IInv, Indexed, NEW p \in Procs, Step(p)
  PROVE  \A t \in 1 .. Len(tab') : tab'[t].min <= tab'[t].max
<1>1. /\ tab \in Seq(Table) /\ \A t \in 1 .. Len(tab) : tab[t].min <= tab[t].max
      /\ TypeData /\ st[p] \in Seq(1 .. Len(tab)) /\ Len(tab) \in Nat
  BY Positions DEF IInv, TypeOK, TypeRepo, TypeData, Indexed
<1>2. ASSUME NEW x, AddTable(p, x), x.min <= x.max
      PROVE  \A t \in 1 .. Len(tab') : tab'[t].min <= tab'[t].max
  <2>1. tab' = Append(tab, x)
    BY <1>2 DEF AddTable
  <2>2. Len(tab') = Len(tab) + 1 /\ tab'[Len(tab) + 1] = x
        /\ \A t \in 1 .. Len(tab) : tab'[t] = tab[t]
    BY <1>1, <2>1, SMTT(30)
  <2>3. ASSUME NEW t \in 1 .. Len(tab') PROVE t = Len(tab) + 1 \/ t \in 1 .. Len(tab)
    BY <1>1, <2>2, SMTT(30)
  <2> QED BY <1>1, <1>2, <2>2, <2>3, SMTT(30)
<1>3. CASE AdditionAdd(p)
  <2> DEFINE n == NextUpdateIndex(st[p])
             recs == Written(tx[p], View(st[p]))
  <2>1. n \in Nat
    BY <1>1, NextUpdateIndexType
  <2>2. UNCHANGED tab \/ AddTable(p, [min |-> n, max |-> n, recs |-> recs])
    BY <1>3 DEF AdditionAdd
  <2> HIDE DEF n, recs
  <2>3. [min |-> n, max |-> n, recs |-> recs].min <= [min |-> n, max |-> n, recs |-> recs].max
    BY <2>1, SMTT(30)
  <2> QED BY <1>1, <1>2, <2>2, <2>3
<1>4. CASE CompactRename(p)
  <2>1. pc[p] = "rename" /\ (UNCHANGED tab \/ AddTable(p, Merged(p)))
    BY <1>4 DEF CompactRename
  <2>2. RangeKept(p)
    BY DEF IInv, Local
  <2>3. PICK o \in Offsets(p, list) : TRUE
    BY <2>1, <2>2 DEF RangeKept
  <2>4. Merged(p).min <= Merged(p).max
    BY <2>1, MergedSpans
  <2> QED BY <1>1, <1>2, <2>1, <2>4
<1> QED BY <1>1, <1>3, <1>4, StepRepo

\* The list stays in order, when it grows and when a range of it is replaced.
LEMMA StepIndexed ==
  ASSUME IInv, Indexed, NEW p \in Procs, Step(p), Wrote(p)
  PROVE  Indexed'
<1> DEFINE T == 1 .. Len(tab)
<1>1. /\ TypeControl /\ TypeData /\ TypeRepo /\ Directory /\ Grows
      /\ tab \in Seq(Table) /\ list \in Seq(T) /\ st[p] \in Seq(T)
      /\ new[p] \in 0 .. Len(tab) /\ Len(tab) \in Nat /\ Increasing(list)
      /\ \A t \in T : tab[t].min <= tab[t].max
  BY StepGrows, Positions DEF IInv, TypeOK, TypeRepo, TypeData, Indexed, IndicesIncrease,
     Increasing
<1>2. Control(p) /\ InRange(p) /\ Loaded(p) /\ Pending(p) /\ RangeKept(p)
  BY DEF IInv, Local
<1>3. \A t \in 1 .. Len(tab') : tab'[t].min <= tab'[t].max
  BY StepTabIndexed
<1>4. CASE UNCHANGED list
  <2>1. \A i \in DOMAIN list : list[i] \in T
    BY <1>1, SMTT(30)
  <2>2. \A i, j \in DOMAIN list : i < j => tab'[list[i]].max < tab'[list[j]].min
    BY <1>1, <2>1 DEF Grows, Increasing
  <2> QED BY <1>3, <1>4, <2>2 DEF Indexed, IndicesIncrease
<1>5. CASE AdditionCommit(p)
  <2>1. /\ pc[p] = "commit" /\ st[p] = list /\ list' = Append(list, new[p])
        /\ new[p] # 0 /\ UNCHANGED tab
    BY <1>2, <1>5 DEF AdditionCommit, Loaded, Control
  <2>2. tab[new[p]].min = NextUpdateIndex(list)
    BY <2>1, SMTT(30) DEF Wrote
  <2>3. ASSUME NEW i \in DOMAIN list PROVE tab[list[i]].max < NextUpdateIndex(list)
    <3> DEFINE n == Len(list)
    <3>1. n \in DOMAIN list /\ i <= n /\ i \in Nat /\ n \in Nat /\ list # <<>>
      BY <1>1, SMTT(30)
    <3> HIDE DEF n
    <3>2. list[i] \in T /\ list[n] \in T
      BY <1>1, <3>1, SMTT(30)
    <3>3. tab[list[i]] \in Table /\ tab[list[n]] \in Table
      BY <1>1, <3>2, SMTT(30)
    <3>4. tab[list[i]].max \in Nat /\ tab[list[n]].min \in Nat /\ tab[list[n]].max \in Nat
      BY <3>3 DEF Table
    <3>5. NextUpdateIndex(list) \in Nat /\ tab[list[n]].max < NextUpdateIndex(list)
      BY <1>1, <3>1, NextUpdateIndexType DEF n
    <3>6. i = n \/ tab[list[i]].max < tab[list[n]].min
      <4>1. i = n \/ i < n
        BY <3>1, SMTT(30)
      <4> QED BY <1>1, <3>1, <4>1 DEF Increasing
    <3>7. tab[list[n]].min <= tab[list[n]].max
      BY <1>1, <3>2
    <3> QED BY <3>4, <3>5, <3>6, <3>7, SMTT(30)
  <2> DEFINE n == Len(list) + 1
  <2>4. /\ DOMAIN list' = 1 .. n /\ list'[n] = new[p] /\ n \in Nat
        /\ \A i \in 1 .. n : i # n => i \in DOMAIN list /\ list'[i] = list[i]
    BY <1>1, <2>1, SMTT(30)
  <2> HIDE DEF n
  <2>5. ASSUME NEW i \in DOMAIN list', NEW j \in DOMAIN list', i < j
        PROVE  tab[list'[i]].max < tab[list'[j]].min
    <3>1. i # n /\ i \in DOMAIN list /\ list'[i] = list[i]
      BY <2>4, <2>5, SMTT(30)
    <3>2. CASE j = n
      BY <2>2, <2>3, <2>4, <3>1, <3>2
    <3>3. CASE j # n
      BY <1>1, <2>4, <2>5, <3>1, <3>3 DEF Increasing
    <3> QED BY <3>2, <3>3
  <2> QED BY <1>3, <2>1, <2>5 DEF Indexed, IndicesIncrease
<1>6. CASE CompactCommit(p)
  <2>1. /\ pc[p] = "replace" /\ names[p] = list /\ list' = Replaced(p) /\ UNCHANGED tab
    BY <1>2, <1>6 DEF CompactCommit, Loaded
  <2>2. PICK o \in Offsets(p, list) :
          /\ o \in DOMAIN list /\ o + last[p] - first[p] \in o .. Len(list)
          /\ Replaced(p) \in Seq(T)
          /\ IsSplice(Replaced(p), list, o, o + last[p] - first[p], Mid(p))
    BY <1>1, <1>2, <2>1, ReplacedIs
  <2> DEFINE e == o + last[p] - first[p]
             R == Replaced(p)
             M == Mid(p)
  <2>3. M \in Seq(T) /\ Short(M) /\ (1 \in DOMAIN M => new[p] # 0 /\ M[1] = new[p])
    <3>1. CASE new[p] = 0
      BY <3>1, SMTT(30) DEF Mid, Short
    <3>2. CASE new[p] # 0
      <4>1. M = <<new[p]>> /\ new[p] \in T
        BY <1>1, <3>2, SMTT(30) DEF Mid
      <4> QED BY <3>2, <4>1, SMTT(30) DEF Short
    <3> QED BY <3>1, <3>2
  <2>4. new[p] # 0 => tab[new[p]].min = tab[list[o]].min /\ tab[new[p]].max = tab[list[e]].max
    BY <2>1, MergedSpans, SMTT(30) DEF Wrote
  <2>5. o \in 1 .. Len(list) /\ e \in o .. Len(list) /\ R \in Seq(T)
        /\ IsSplice(R, list, o, e, M)
    BY <1>1, <2>2, SMTT(30)
  <2>6. R = list'
    BY <2>1
  <2> HIDE DEF e, R, M, T
  <2>7. 1 \in DOMAIN M => tab[M[1]].min = tab[list[o]].min /\ tab[M[1]].max = tab[list[e]].max
    BY <2>3, <2>4
  <2>8. Increasing(R)
    BY <1>1, <2>3, <2>5, <2>7, SpliceIncreasing
  <2>9. \A i, j \in DOMAIN list' : i < j => tab[list'[i]].max < tab[list'[j]].min
    BY <2>6, <2>8 DEF Increasing
  <2> QED BY <1>3, <2>1, <2>9 DEF Indexed, IndicesIncrease
<1> QED BY <1>4, <1>5, <1>6, StepRepo

-----------------------------------------------------------------------------
(* What a read has loaded *)

\* A list p has read, and the stack it loads from it, was the list of tables at
\* some moment since p began to read.
Snapshot(p) ==
  op[p] = "read" =>
    /\ pc[p] = "opentables" => names[p] \in lists[p]
    /\ pc[p] = "unlinkold" => st[p] \in lists[p]
    /\ pc[p] = "read" => st[p] \in lists[p] \/ tries[p] = MaxTries

\* What q has loaded stays a list that was current since q began to read.
LEMMA StepSnapshot ==
  ASSUME IInv, NEW p \in Procs, Step(p), Observe, NEW q \in Procs, Snapshot(q)
  PROVE  Snapshot(q)'
<1>1. /\ TypeControl /\ TypeData /\ Control(p)
  BY DEF IInv, Local, TypeOK
<1>2. op'[q] = "read" => lists'[q] = lists[q] \cup {list, list'}
  BY DEF Observe
<1>3. CASE q # p
  BY <1>1, <1>2, <1>3, StepFrame DEF Snapshot
<1>4. CASE q = p
  <2> SUFFICES ASSUME op'[p] = "read" PROVE Snapshot(p)'
    BY <1>4 DEF Snapshot
  <2>1. lists'[p] = lists[p] \cup {list, list'}
    BY <1>2, <1>4
  <2>2. ASSUME pc'[p] = "opentables" PROVE names'[p] \in lists'[p]
    <3>1. ReadList(p)
      BY <1>1, <2>2, StepArrives DEF Arrives
    <3>2. names'[p] = list
      BY <1>1, <3>1 DEF ReadList, TypeData
    <3> QED BY <2>1, <3>2
  <2>3. ASSUME ReloadOnce(p), pc'[p] # "recheck" PROVE st'[p] \in lists'[p]
    <3>1. pc[p] = "opentables" /\ op[p] = "read"
      BY <2>3 DEF ReloadOnce
    <3>2. st'[p] = names[p]
      BY <1>1, <2>3 DEF ReloadOnce, TypeData, TypeControl, Goto
    <3> QED BY <1>4, <2>1, <3>1, <3>2 DEF Snapshot
  <2>4. ASSUME UnlinkOld(p) PROVE st'[p] \in lists'[p]
    <3>1. pc[p] = "unlinkold" /\ op[p] = "read" /\ UNCHANGED st
      BY <2>4 DEF UnlinkOld
    <3> QED BY <1>4, <2>1, <3>1 DEF Snapshot
  <2>5. ASSUME pc'[p] = "unlinkold" PROVE st'[p] \in lists'[p]
    <3>1. ~Close(p)
      BY <1>1 DEF Close, TypeControl
    <3> QED BY <1>1, <2>3, <2>4, <2>5, <3>1, StepArrives DEF Arrives
  <2>6. ASSUME pc'[p] = "read" PROVE st'[p] \in lists'[p] \/ tries'[p] = MaxTries
    <3>1. CASE ReadBegin(p)
      <4>1. ~Reload(p, "read")
        BY <1>1, <2>6 DEF Reload, Goto, TypeControl
      <4>2. st[p] = list /\ UNCHANGED st
        BY <3>1, <4>1 DEF ReadBegin
      <4> QED BY <2>1, <4>2
    <3>2. CASE ReadList(p) \/ Recheck(p)
      BY <1>1, <2>6, <3>2 DEF ReadList, Recheck, Fail, Goto, TypeControl
    <3>3. CASE ReloadDeadline(p)
      <4>1. tries[p] = MaxTries /\ ~Finish(p)
        BY <1>1, <2>6, <3>3 DEF ReloadDeadline, Finish, TypeControl
      <4>2. UNCHANGED tries
        BY <3>3, <4>1 DEF ReloadDeadline
      <4> QED BY <4>1, <4>2
    <3> QED BY <1>1, <2>3, <2>4, <2>6, <3>1, <3>2, <3>3, StepArrives DEF Arrives, ReloadStep
  <2> QED BY <2>2, <2>5, <2>6 DEF Snapshot
<1> QED BY <1>3, <1>4

-----------------------------------------------------------------------------
(* The theorems *)

\* The stack is well formed, and what is about to be listed is right.
Meaning == Indexed /\ \A p \in Procs : Wrote(p) /\ Snapshot(p)

\* The tables there are initially are in order.
LEMMA InitMeaning == Init => Meaning
<1> SUFFICES ASSUME Init PROVE Meaning
  OBVIOUS
<1>1. /\ \A t \in DOMAIN InitTables : InitTables[t].min <= InitTables[t].max
      /\ \A i, j \in DOMAIN InitTables : i < j => InitTables[i].max < InitTables[j].min
      /\ DOMAIN InitTables = 1 .. Len(InitTables)
  BY ConstantsAssumption, SMTT(30)
<1>2. /\ tab = InitTables /\ DOMAIN list = DOMAIN InitTables
      /\ \A i \in DOMAIN list : list[i] = i
      /\ \A p \in Procs : pc[p] = "idle"
  BY DEF Init
<1> QED BY <1>1, <1>2 DEF Meaning, Indexed, IndicesIncrease, Wrote, Snapshot

\* A step keeps the order of the tables.
LEMMA StepMeaning ==
  ASSUME IInv, Meaning, Next
  PROVE  Meaning'
<1>1. PICK p \in Procs : Step(p) /\ Observe
  BY DEF Next
<1>2. Indexed' /\ Wrote(p)'
  BY <1>1, StepIndexed, StepWrote DEF Meaning
<1>3. ASSUME NEW q \in Procs PROVE Snapshot(q)' /\ Wrote(q)'
  <2>1. Snapshot(q)'
    BY <1>1, StepSnapshot DEF Meaning
  <2>2. q # p => Wrote(q)'
    BY <1>1, OthersWrote DEF Meaning
  <2> QED BY <1>2, <2>1, <2>2
<1> QED BY <1>2, <1>3 DEF Meaning

\* The order does not depend on anything but the variables.
LEMMA StutterMeaning ==
  ASSUME Meaning, UNCHANGED vars
  PROVE  Meaning'
<1> USE DEF vars, repo, reloading, compacting
<1>1. Indexed'
  BY DEF Meaning, Indexed, IndicesIncrease
<1>2. ASSUME NEW p \in Procs PROVE Wrote(p)' /\ Snapshot(p)'
  <2>1. Wrote(p) /\ Snapshot(p)
    BY DEF Meaning
  <2>2. \A s : View(s)' = View(s) /\ NextUpdateIndex(s)' = NextUpdateIndex(s)
    BY SMTT(30) DEF View, Holders, Newest, NextUpdateIndex
  <2>3. Merged(p)' = Merged(p)
    BY SMTT(30) DEF Merged, View, Holders, Newest, Segment
  <2>4. Wrote(p)'
    BY <2>1, <2>2, <2>3 DEF Wrote, Written
  <2> QED BY <2>1, <2>4 DEF Snapshot
<1> QED BY <1>1, <1>2 DEF Meaning

\* The tables are in order in every state of every behaviour.
LEMMA MeaningHolds == Spec => []Meaning
<1>1. Init => IInv /\ Meaning
  BY InitIInv, InitMeaning
<1>2. IInv /\ Meaning /\ [Next]_vars => Meaning'
  BY StepMeaning, StutterMeaning
<1> QED BY <1>1, <1>2, InvariantHolds, PTL DEF Spec

\* Every variable keeps its type: in particular the list names only tables that were
\* written, whatever reloads, additions and compactions do to it.
THEOREM TypeCorrect == Spec => []TypeOK
<1>1. IInv => TypeOK
  BY DEF IInv
<1> QED BY <1>1, InvariantHolds, PTL

\* Every table named in tables.list is in the directory, once, and its update
\* indices are above those of the tables below it: reftable_addition_add() and
\* stack_compact_range() write tables that fit where they are put, and nobody
\* unlinks a table that is still listed.
THEOREM StackIsWellFormed == Spec => []StackWellFormed
<1>1. IInv /\ Meaning => StackWellFormed
  BY DEF IInv, Directory, Meaning, Indexed, StackWellFormed
<1> QED BY <1>1, InvariantHolds, MeaningHolds, PTL

\* A reload that misses a table finds tables.list changed, a reload under
\* tables.list.lock misses none, and the range stack_compact_range() has locked is
\* found again after it locks the list for the second time.
THEOREM NothingGoesMissing == Spec => []NothingMissing
<1>1. ASSUME IInv, NEW p \in Procs
      PROVE  /\ pc[p] = "recheck" => names[p] # list /\ listLock # p
             /\ pc[p] \in {"relock", "rename", "replace"} => Offsets(p, list) # {}
  <2>1. Control(p) /\ OwnLocks(p) /\ Loaded(p) /\ Unlisted(p) /\ RangeKept(p) /\ Directory
    BY <1>1 DEF IInv, Local
  <2>2. pc[p] = "recheck" => names[p] # list
    BY <2>1 DEF Unlisted, Directory, ListedTablesExist
  <2>3. pc[p] = "recheck" => listLock # p
    BY <2>1 DEF Control, OwnLocks, HoldsList, Loaded, Reloading
  <2> QED BY <2>1, <2>2, <2>3 DEF RangeKept
<1>2. IInv => NothingMissing
  BY <1>1 DEF NothingMissing, MissingMeansChanged, LockedReloadSucceeds, LockedRangeStays
<1> QED BY <1>2, InvariantHolds, PTL

\* A call that has returned holds neither tables.list.lock nor the lock of a table,
\* on every error path of stack_compact_range() and reftable_addition_commit().
THEOREM NothingStaysLocked == Spec => []NothingLeaked
<1>1. ASSUME IInv, NEW p \in Procs, alive[p], pc[p] = "idle"
      PROVE  listLock # p /\ \A t \in 1 .. MaxTables : tabLock[t] # p
  <2>1. OwnLocks(p)
    BY <1>1 DEF IInv, Local
  <2> QED BY <1>1, <2>1 DEF OwnLocks, HoldsList, Replacing, Compacting, Reloading
<1>2. IInv => NothingLeaked
  BY <1>1 DEF NothingLeaked
<1> QED BY <1>2, InvariantHolds, PTL

\* What reftable_stack_reload_maybe_reuse() has loaded for a read is a list of
\* tables that was current, as a whole, at some moment since the read began, unless
\* the deadline passed.
THEOREM ReadsAreSnapshots == Spec => []ReadIsSnapshot
<1>1. ASSUME IInv, Meaning, NEW p \in Procs, pc[p] = "read"
      PROVE  st[p] \in lists[p] \/ tries[p] = MaxTries
  <2>1. Control(p) /\ Snapshot(p)
    BY <1>1 DEF IInv, Local, Meaning
  <2> QED BY <1>1, <2>1 DEF Control, Snapshot
<1>2. IInv /\ Meaning => ReadIsSnapshot
  BY <1>1 DEF ReadIsSnapshot
<1> QED BY <1>2, InvariantHolds, MeaningHolds, PTL

-----------------------------------------------------------------------------
(* The refinement *)

Txn == [p \in Procs |-> Prepared(p)]

\* The list is only changed by an addition, which applies what it has prepared,
\* and by a compaction, which changes nothing.
LEMMA StepView ==
  ASSUME IInv, Meaning, NEW p \in Procs, Step(p)
  PROVE  \/ View(list)' = View(list)
         \/ /\ pc[p] = "commit" /\ tx[p] \in TxType
            /\ View(list)' = [r \in Refs |-> IF r \in DOMAIN Written(tx[p], View(list))
                                             THEN tx[p][r].new ELSE View(list)[r]]
<1> DEFINE T == 1 .. Len(tab)
<1>1. /\ TypeData /\ tab \in Seq(Table) /\ list \in Seq(T) /\ Len(tab) \in Nat
      /\ new[p] \in 0 .. Len(tab) /\ tx[p] \in TxType
      /\ Control(p) /\ Loaded(p) /\ Wrote(p) /\ Grows
  BY StepGrows, Positions DEF IInv, Meaning, Local, TypeOK, TypeRepo, TypeData
<1>2. CASE UNCHANGED list
  <2>1. \A s \in Seq(T) : View(s)' = View(s)
    BY <1>1, StableMeaning
  <2> QED BY <1>1, <1>2, <2>1, SMTT(30)
<1>3. CASE AdditionCommit(p)
  <2>1. /\ pc[p] = "commit" /\ st[p] = list /\ list' = Append(list, new[p])
        /\ new[p] # 0 /\ UNCHANGED tab
    BY <1>1, <1>3 DEF AdditionCommit, Loaded, Control
  <2> DEFINE W == Written(tx[p], View(list))
  <2>2. tab[new[p]].recs = W /\ new[p] \in T
    BY <1>1, <2>1, SMTT(30) DEF Wrote
  <2>3. \A r \in DOMAIN W : W[r] = tx[p][r].new
    BY DEF Written
  <2>4. \A s : View(s)' = View(s)
    BY <2>1 DEF View, Holders
  <2>5. View(list)' = View(Append(list, new[p]))
    BY <2>1, <2>4, SMTT(30)
  <2> HIDE DEF W
  <2>6. ASSUME NEW r \in Refs
        PROVE  View(Append(list, new[p]))[r] = IF r \in DOMAIN W THEN tx[p][r].new ELSE View(list)[r]
    BY <1>1, <2>2, <2>3, AppendView, SMTT(30)
  <2>7. View(Append(list, new[p])) = [r \in Refs |-> View(Append(list, new[p]))[r]]
    BY DEF View
  <2> QED BY <1>1, <2>1, <2>5, <2>6, <2>7, SMTT(30) DEF W
<1>4. CASE CompactCommit(p)
  <2>1. pc[p] = "replace" /\ list' = Replaced(p) /\ UNCHANGED tab
    BY <1>4 DEF CompactCommit
  <2>2. View(Replaced(p)) = View(list)
    BY <1>1, <2>1, ReplacedView
  <2>3. \A s : View(s)' = View(s)
    BY <2>1 DEF View, Holders
  <2> QED BY <2>1, <2>2, <2>3
<1> QED BY <1>2, <1>3, <1>4, StepRepo, SMTT(30)

\* A call that does not go on with what it had prepared gives it up.
LEMMA GivesUp ==
  ASSUME NEW p \in Procs, View(list)' = View(list), Txn' = [Txn EXCEPT ![p] = NoTx]
  PROVE  Store!Apply(p)
<1> DEFINE S == {}
           D == DOMAIN Txn[p]
<1>1. S \in SUBSET DOMAIN Txn[p] /\ D \in SUBSET DOMAIN Txn[p]
  OBVIOUS
<1>2. \A r \in S : Txn[p][r].new # KEEP
  OBVIOUS
<1>3. View(list)' = [r \in Refs |-> IF r \in S THEN Txn[p][r].new ELSE View(list)[r]]
  BY DEF View
<1>4. [r \in DOMAIN Txn[p] \ (S \cup D) |-> Txn[p][r]] = NoTx
  BY DEF NoTx
<1> HIDE DEF S, D
<1> QED BY <1>1, <1>2, <1>3, <1>4 DEF Store!Apply, Txn

\* The rename of an addition applies what was prepared, all at once.
LEMMA Applies ==
  ASSUME NEW p \in Procs, pc[p] = "commit", tx[p] \in TxType,
         View(list)' = [r \in Refs |-> IF r \in DOMAIN Written(tx[p], View(list))
                                       THEN tx[p][r].new ELSE View(list)[r]],
         Txn' = [Txn EXCEPT ![p] = NoTx]
  PROVE  Store!Apply(p)
<1> DEFINE S == DOMAIN Written(tx[p], View(list))
           D == DOMAIN Txn[p]
<1>1. Txn[p] = tx[p]
  BY DEF Txn, Prepared
<1>2. S \in SUBSET DOMAIN Txn[p] /\ D \in SUBSET DOMAIN Txn[p]
  BY <1>1, SMTT(30) DEF Written
<1>3. \A r \in S : Txn[p][r].new # KEEP
  BY <1>1 DEF Written
<1>4. View(list)' = [r \in Refs |-> IF r \in S THEN Txn[p][r].new ELSE View(list)[r]]
  BY <1>1
<1>5. [r \in DOMAIN Txn[p] \ (S \cup D) |-> Txn[p][r]] = NoTx
  BY DEF NoTx
<1> HIDE DEF S, D
<1> QED BY <1>2, <1>3, <1>4, <1>5 DEF Store!Apply, Txn

\* A transaction is prepared under the lock of the list, on the values there are.
LEMMA Prepares ==
  ASSUME IInv, NEW p \in Procs, PrepareUpdates(p), pc'[p] = "prepared",
         View(list)' = View(list), Txn' = [Txn EXCEPT ![p] = Prepared(p)']
  PROVE  Store!Prepare(p)
<1>1. /\ TypeControl /\ TypeData /\ tx \in [Procs -> TxType] /\ pc \in [Procs -> Labels]
      /\ Loaded(p) /\ OwnLocks(p)
  BY DEF IInv, Local, TypeOK, TypeData, TypeControl
<1> DEFINE S == {r \in DOMAIN tx[p] : OldMatches(tx[p][r], View(st[p])[r])}
           u == [r \in S |-> tx[p][r]]
<1>2. pc[p] = "locked" /\ st[p] = list /\ listLock = p
  BY <1>1 DEF PrepareUpdates, Loaded, OwnLocks, HoldsList
<1>3. tx' = [tx EXCEPT ![p] = u]
  <2>1. ~Fail(p, "release")
    BY <1>1 DEF Fail, Goto
  <2> QED BY <2>1 DEF PrepareUpdates
<1>4. Prepared(p)' = u
  <2>1. tx'[p] = u
    BY <1>1, <1>3
  <2> QED BY <2>1 DEF Prepared
<1>5. tx[p] \in TxType /\ DOMAIN tx[p] \subseteq Refs /\ tx[p] \in [DOMAIN tx[p] -> UpdateType]
  <2>1. tx[p] \in TxType
    BY <1>1
  <2> QED BY <2>1, TxElements
<1>6. S \in SUBSET Refs /\ u \in [S -> UpdateType]
  BY <1>5
<1>7. \A r \in S : u[r].old \in {ANY, View(list)[r]}
  BY <1>2 DEF OldMatches
<1>8. ASSUME NEW q \in Procs PROVE Txn[q] = NoTx
  <2>1. OwnLocks(q)
    BY DEF IInv, Local
  <2>2. pc[q] \notin {"prepared", "commit"}
    <3>1. pc[q] \in {"prepared", "commit"} => listLock = q
      BY <2>1 DEF OwnLocks, HoldsList
    <3> QED BY <1>2, <3>1
  <2> QED BY <2>2 DEF Txn, Prepared
<1>9. \A q \in Procs : DOMAIN Txn[q] \cap S = {}
  BY <1>8 DEF NoTx
<1>10. Txn[p] = NoTx /\ Txn' = [Txn EXCEPT ![p] = u]
  BY <1>4, <1>8, SMTT(30)
<1>11. UpdateType = Store!Update
  BY DEF UpdateType, Store!Update, OidOrNull, Store!OidOrNull
<1> HIDE DEF S, u
<1> QED BY <1>6, <1>7, <1>9, <1>10, <1>11 DEF Store!Prepare, Txn, Store!NoTx, NoTx

\* Every step is a step of the abstract store, or none.
LEMMA StepStore ==
  ASSUME IInv, Meaning, NEW p \in Procs, Step(p)
  PROVE  Store!Next \/ (View(list)' = View(list) /\ Txn' = Txn)
<1>1. TypeControl /\ TypeData /\ Control(p)
  BY DEF IInv, Local, TypeOK
<1>2. \A q \in Procs : q # p => Prepared(q)' = Prepared(q)
  BY <1>1, StepFrame, SMTT(30) DEF Prepared
<1>3. Txn' = [Txn EXCEPT ![p] = Prepared(p)']
  BY <1>2 DEF Txn
<1>4. CASE pc'[p] = "prepared"
  <2>1. PrepareUpdates(p)
    BY <1>1, <1>4, StepArrives DEF Arrives
  <2>2. View(list)' = View(list)
    BY <2>1, StepView DEF PrepareUpdates
  <2>3. Store!Prepare(p)
    BY <1>3, <1>4, <2>1, <2>2, Prepares
  <2> QED BY <2>3 DEF Store!Next
<1>5. CASE pc'[p] = "commit"
  <2>1. AdditionAdd(p)
    BY <1>1, <1>5, StepArrives DEF Arrives
  <2>2. pc[p] = "prepared" /\ UNCHANGED tx
    BY <2>1 DEF AdditionAdd
  <2>3. View(list)' = View(list)
    BY <2>2, StepView
  <2>4. Prepared(p)' = Prepared(p)
    BY <1>5, <2>2 DEF Prepared
  <2>5. Txn' = Txn
    BY <1>3, <2>4 DEF Txn
  <2> QED BY <2>3, <2>5
<1>6. CASE pc'[p] \notin {"prepared", "commit"}
  <2>1. Txn' = [Txn EXCEPT ![p] = NoTx]
    BY <1>3, <1>6 DEF Prepared
  <2>2. Store!Apply(p)
    BY <2>1, StepView, GivesUp, Applies
  <2> QED BY <2>2 DEF Store!Next
<1> QED BY <1>4, <1>5, <1>6

\* The stack implements the abstract store of references: committing an addition is
\* the only step that changes a value, changes all values of the transaction at
\* once and on the values it has verified; compacting, reloading, cleaning, failing
\* and crashing change none.
THEOREM StackImplementsStore == Spec => ImplementsRefStore
<1>1. Init => Store!Init
  <2> SUFFICES ASSUME Init PROVE Store!Init
    OBVIOUS
  <2>1. IInv
    BY InitIInv
  <2>2. View(list) \in [Refs -> OidOrNull]
    BY <2>1, ViewType DEF IInv, TypeOK, TypeRepo
  <2>3. \A p \in Procs : Prepared(p) = NoTx
    BY DEF Init, Prepared
  <2> QED BY <2>2, <2>3 DEF Store!Init, Store!OidOrNull, OidOrNull, Store!NoTx, NoTx
<1>2. ASSUME IInv, Meaning, [Next]_vars
      PROVE  [Store!Next]_<<View(list), [p \in Procs |-> Prepared(p)]>>
  <2>1. CASE Next
    <3>1. PICK p \in Procs : Step(p)
      BY <2>1 DEF Next
    <3> QED BY <1>2, <3>1, StepStore DEF Txn
  <2>2. CASE UNCHANGED vars
    <3>1. View(list)' = View(list)
      BY <2>2 DEF vars, repo, View, Holders
    <3>2. \A p \in Procs : Prepared(p)' = Prepared(p)
      BY <2>2 DEF vars, Prepared
    <3> QED BY <3>1, <3>2
  <2> QED BY <1>2, <2>1, <2>2
<1> QED BY <1>1, <1>2, InvariantHolds, MeaningHolds, PTL
       DEF Spec, ImplementsRefStore, Store!Spec

=============================================================================
