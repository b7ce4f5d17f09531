------------------------- MODULE ReftableStackInv --------------------------
(***************************************************************************)
(* Every step preserves the invariant: a step of p changes p's own part    *)
(* (the Step lemmas), and what the others know of the repository survives  *)
(* it (the Others lemmas), because nobody unlinks a listed table and the   *)
(* list is written only under its lock.                                    *)
(***************************************************************************)
EXTENDS ReftableStackSteps, ReftableStackRange

\* Most leaves are first-order; SMT is named where numbers, sequences or function
\* updates need it.
USE ZenonT(30)

\* What is listed are tables.
LEMMA StepListType ==
  ASSUME IInv, NEW p \in Procs, Step(p)
  PROVE  list' \in Seq(1 .. Len(tab))
<1>1. /\ TypeRepo /\ TypeControl /\ TypeData /\ Directory /\ list \in Seq(1 .. Len(tab))
      /\ Control(p) /\ Loaded(p) /\ InRange(p) /\ RangeKept(p)
  BY DEF IInv, TypeOK, TypeRepo, Local
<1>2. CASE AdditionCommit(p)
  <2>1. st[p] \in Seq(1 .. Len(tab)) /\ new[p] \in 1 .. Len(tab)
    BY <1>1, <1>2, SMTT(30) DEF AdditionCommit, Control, TypeData
  <2>2. list' = Append(st[p], new[p])
    BY <1>2 DEF AdditionCommit
  <2> QED BY <2>1, <2>2, SMTT(30)
<1>3. CASE CompactCommit(p)
  <2>1. pc[p] = "replace" /\ names[p] = list /\ list' = Replaced(p)
    BY <1>1, <1>3 DEF CompactCommit, Loaded
  <2> QED BY <1>1, <2>1, ReplacedIs
<1> QED BY <1>1, <1>2, <1>3, StepRepo

\* The repository keeps its type.
LEMMA StepTypeRepo ==
  ASSUME IInv, NEW p \in Procs, Step(p), tab' \in Seq(Table)
  PROVE  TypeRepo'
<1>1. /\ Len(tab') <= MaxTables /\ Len(tab') \in Nat /\ Len(tab) \in Nat
      /\ Len(tab) <= Len(tab') /\ files \subseteq 1 .. Len(tab)
      /\ listLock \in Procs \cup {Nobody} /\ tabLock \in [1 .. MaxTables -> Procs \cup {Nobody}]
  BY TabGrows DEF IInv, TypeOK, TypeRepo
<1>2. files' \subseteq 1 .. Len(tab')
  <2>1. CASE files' \subseteq files
    BY <1>1, <2>1, SMTT(30)
  <2>2. ASSUME NEW t, AddTable(p, t) PROVE files' \subseteq 1 .. Len(tab')
    <3>1. Len(tab') = Len(tab) + 1 /\ files' = files \cup {Len(tab) + 1}
      BY <2>2, SMTT(30) DEF AddTable, IInv, TypeOK, TypeRepo
    <3>2. \A x \in files : x \in 1 .. Len(tab)
      BY <1>1
    <3>3. \A x \in files \cup {Len(tab) + 1} : x \in 1 .. Len(tab) + 1
      BY <1>1, <3>2, SMTT(30)
    <3> QED BY <3>1, <3>3
  <2>3. files' \subseteq files \/ \E t : AddTable(p, t)
    <3>1. ASSUME UnlinkOld(p) \/ UndoTable(p) \/ CompactUnlink(p) \/ CleanUnlink(p)
          PROVE  files' \subseteq files
      BY <3>1 DEF UnlinkOld, UndoTable, CompactUnlink, CleanUnlink
    <3>2. ASSUME AdditionAdd(p) \/ CompactRename(p)
          PROVE  UNCHANGED files \/ \E t : AddTable(p, t)
      BY <3>2 DEF AdditionAdd, CompactRename
    <3> QED BY <3>1, <3>2, StepRepo
  <2> QED BY <2>1, <2>2, <2>3
<1>3. list' \in Seq(1 .. Len(tab'))
  BY <1>1, StepListType, SeqGrows, SMTT(30)
<1>4. listLock' \in Procs \cup {Nobody}
  <2>1. listLock' \in {listLock, p, Nobody}
    BY StepRepo DEF InitAddition, AdditionCommit, ReleaseList, CompactLock,
       CompactUnlock, CompactRelock, CompactCommit, CleanLock, RemoveStale
  <2> QED BY <1>1, <2>1
<1>5. tabLock' \in [1 .. MaxTables -> Procs \cup {Nobody}]
  <2>1. UNCHANGED tabLock \/ \E t, q : tabLock' = [tabLock EXCEPT ![t] = q] /\ q \in {p, Nobody}
    BY StepRepo DEF ReleaseTable, LockTable, RemoveStale
  <2> QED BY <1>1, <2>1
<1> QED BY <1>1, <1>2, <1>3, <1>4, <1>5, SMTT(30) DEF TypeRepo

\* Every variable keeps its type.
LEMMA StepTypeOK ==
  ASSUME IInv, NEW p \in Procs, Step(p), Observe, tab' \in Seq(Table)
  PROVE  TypeOK'
<1>1. TypeOK /\ Control(p) /\ InRange(p)
  BY DEF IInv, Local
<1>2. TypeRepo' /\ TypeControl' /\ TypeData'
  BY <1>1, StepTypeRepo, StepTypeControl, StepTypeData, SMTT(30)
<1>3. Seq(1 .. Len(tab)) \subseteq Seq(1 .. Len(tab'))
  BY <1>1, TabGrows, SeqGrows
<1>4. list \in Seq(1 .. Len(tab)) /\ list' \in Seq(1 .. Len(tab'))
  BY <1>1, <1>2 DEF TypeOK, TypeRepo
<1>5. ASSUME NEW q \in Procs PROVE lists'[q] \subseteq Seq(1 .. Len(tab'))
  BY <1>1, <1>3, <1>4, SMTT(30) DEF Observe, TypeOK
<1> QED BY <1>2, <1>5 DEF TypeOK

\* The list changes when its lock is held, by the table that was written.
LEMMA StepList ==
  ASSUME IInv, NEW p \in Procs, Step(p)
  PROVE  \/ UNCHANGED list /\ ~AdditionCommit(p) /\ ~CompactCommit(p)
         \/ /\ pc[p] \in {"commit", "replace"} /\ listLock = p
            /\ pc'[p] = "readlist" /\ ret'[p] \in {"compact", "compacted"} /\ new'[p] = 0
            /\ ret'[p] = "compacted" => pc[p] = "replace"
            /\ UNCHANGED <<tab, files, tabLock, st, names, dead>>
            /\ Listed(list') \subseteq Listed(list) \cup ({new[p]} \ {0})
            /\ \A i, j \in DOMAIN list' : list'[i] = list'[j] => i = j
            /\ pc[p] = "replace" =>
                 \A t \in 1 .. MaxTables : tabLock[t] = p => t \notin Listed(list')
<1> DEFINE T == 1 .. Len(tab)
<1>0. TypeControl /\ TypeData /\ TypeRepo /\ Directory
  BY DEF IInv, TypeOK
<1>1. /\ TypeControl /\ TypeData /\ TypeRepo /\ Directory
      /\ tab \in Seq(Table) /\ list \in Seq(T) /\ names[p] \in Seq(T)
      /\ st[p] \in Seq(T) /\ new[p] \in 0 .. Len(tab) /\ Len(tab) \in Nat
      /\ \A i, j \in DOMAIN list : list[i] = list[j] => i = j
  <2>1. \A i, j \in DOMAIN list : list[i] = list[j] => i = j
    BY <1>0 DEF Directory
  <2>2. /\ tab \in Seq(Table) /\ list \in Seq(T) /\ names[p] \in Seq(T)
        /\ st[p] \in Seq(T) /\ new[p] \in 0 .. Len(tab) /\ Len(tab) \in Nat
    BY <1>0, SMTT(30) DEF TypeRepo, TypeData
  <2> QED BY <1>0, <2>1, <2>2
<1>2. /\ Control(p) /\ InRange(p) /\ OwnLocks(p) /\ Loaded(p) /\ Pending(p) /\ RangeKept(p)
  BY DEF IInv, Local
<1>3. CASE AdditionCommit(p)
  <2>1. /\ pc[p] = "commit" /\ st[p] = list /\ list' = Append(list, new[p])
        /\ listLock = p /\ new[p] # 0 /\ new[p] \notin Listed(list)
    BY <1>2, <1>3 DEF AdditionCommit, Loaded, OwnLocks, HoldsList, Control, Pending
  <2>2. /\ pc'[p] = "readlist" /\ ret'[p] = "compact" /\ new'[p] = 0
        /\ UNCHANGED <<tab, files, tabLock, st, names, dead>>
    BY <1>1, <1>3 DEF AdditionCommit, Reload, Goto, TypeControl, TypeData
  <2>3. /\ Listed(list') \subseteq Listed(list) \cup ({new[p]} \ {0})
        /\ \A i, j \in DOMAIN list' : list'[i] = list'[j] => i = j
    <3> DEFINE n == Len(list) + 1
    <3>1. /\ DOMAIN list' = 1 .. n /\ list'[n] = new[p] /\ n \in Nat
          /\ \A i \in 1 .. n : i # n => i \in DOMAIN list /\ list'[i] = list[i]
      BY <2>1, SMTT(30)
    <3>2. \A i \in DOMAIN list : list[i] # new[p]
      BY <2>1 DEF Listed
    <3> HIDE DEF n
    <3>3. \A i, j \in DOMAIN list' : list'[i] = list'[j] => i = j
      BY <1>1, <3>1, <3>2
    <3>4. \A i \in DOMAIN list' : list'[i] \in Listed(list) \cup ({new[p]} \ {0})
      BY <2>1, SMTT(30) DEF Listed
    <3> QED BY <3>3, <3>4 DEF Listed
  <2> QED BY <2>1, <2>2, <2>3
<1>4. CASE CompactCommit(p)
  <2>1. /\ pc[p] = "replace" /\ names[p] = list /\ listLock = p /\ Compacting(p)
        /\ list' = Replaced(p)
    BY <1>2, <1>4 DEF CompactCommit, Loaded, OwnLocks, HoldsList, Compacting
  <2>2. /\ pc'[p] = "readlist" /\ ret'[p] = "compacted" /\ new'[p] = 0
        /\ UNCHANGED <<tab, files, tabLock, st, names, dead>>
    BY <1>1, <1>4 DEF CompactCommit, Reload, Goto, TypeControl, TypeData
  <2>3. PICK o \in Offsets(p, list) :
          /\ o \in DOMAIN list /\ o + last[p] - first[p] \in o .. Len(list)
          /\ Replaced(p) \in Seq(T)
          /\ IsSplice(Replaced(p), list, o, o + last[p] - first[p], Mid(p))
    BY <1>1, <1>2, <2>1, ReplacedIs
  <2> DEFINE e == o + last[p] - first[p]
             R == Replaced(p)
             M == Mid(p)
  <2>4. M \in Seq(T) /\ Len(M) <= 1 /\ Listed(M) = {new[p]} \ {0}
    <3>1. CASE new[p] = 0
      BY <3>1, SMTT(30) DEF Mid, Listed
    <3>2. CASE new[p] # 0
      <4>1. M = <<new[p]>> /\ new[p] \in T
        BY <1>1, <3>2, SMTT(30) DEF Mid
      <4> QED BY <4>1, SMTT(30) DEF Listed
    <3> QED BY <3>1, <3>2
  <2>5. Listed(M) \cap Listed(list) = {}
    BY <1>2, <2>4 DEF Pending
  <2>6. o \in 1 .. Len(list) /\ e \in o .. Len(list) /\ R \in Seq(T)
        /\ IsSplice(R, list, o, e, M)
    BY <2>3, SMTT(30)
  <2>7. \A t \in 1 .. MaxTables : tabLock[t] = p => \E k \in o .. e : list[k] = t
    <3>1. /\ first[p] \in Nat /\ last[p] \in Nat /\ first[p] <= last[p]
          /\ idx[p] + 1 = first[p]
      BY <1>1, <1>2, <2>1 DEF TypeControl, InRange
    <3>2. ASSUME NEW t \in 1 .. MaxTables, tabLock[t] = p
          PROVE  \E k \in o .. e : list[k] = t
      <4>1. PICK i \in first[p] .. last[p] : st[p][i] = t
        BY <1>2, <2>1, <3>1, <3>2 DEF OwnLocks
      <4>2. \A k \in 0 .. last[p] - first[p] : list[o + k] = st[p][first[p] + k]
        BY <1>1, <1>2, <2>1, <2>3, OffsetsAre
      <4> DEFINE k == i - first[p]
      <4>3. k \in 0 .. last[p] - first[p] /\ first[p] + k = i /\ o + k \in o .. e
        <5>1. o \in Nat
          BY <2>6, SMTT(30)
        <5> QED BY <3>1, <5>1, SMTT(30)
      <4> HIDE DEF k
      <4> QED BY <4>1, <4>2, <4>3
    <3> QED BY <3>2
  <2> HIDE DEF e, R, M, T
  <2>8. /\ \A i, j \in DOMAIN R : R[i] = R[j] => i = j
        /\ Listed(R) \subseteq Listed(list) \cup Listed(M)
        /\ \A k \in o .. e : list[k] \notin Listed(R)
    BY <1>1, <2>4, <2>5, <2>6, SpliceDistinct
  <2>9. R = list'
    BY <2>1 DEF R
  <2> QED BY <2>1, <2>2, <2>4, <2>7, <2>8, <2>9, SMTT(30)
<1> QED BY <1>3, <1>4, StepRepo

\* The listed tables stay in the directory, each listed once.
LEMMA StepDirectory ==
  ASSUME IInv, NEW p \in Procs, Step(p)
  PROVE  Directory'
<1>1. ListedTablesExist'
  <2>1. CASE UNCHANGED list
    BY <2>1, UnlinkedNotListed DEF IInv, Directory, ListedTablesExist
  <2>2. CASE ~UNCHANGED list
    <3>1. /\ UNCHANGED files /\ Listed(list') \subseteq Listed(list) \cup ({new[p]} \ {0})
      BY <2>2, StepList
    <3>2. new[p] # 0 => new[p] \in files
      BY DEF IInv, Local, Pending
    <3> QED BY <3>1, <3>2 DEF IInv, Directory, ListedTablesExist
  <2> QED BY <2>1, <2>2
<1>2. \A i, j \in DOMAIN list' : list'[i] = list'[j] => i = j
  BY StepList DEF IInv, Directory
<1>3. ASSUME NEW t \in 1 .. MaxTables, t > Len(tab') PROVE tabLock'[t] = Nobody
  <2>1. Len(tab) \in Nat /\ Len(tab') \in Nat /\ Len(tab) <= Len(tab') /\ MaxTables \in Nat
    BY TabGrows, Bounds DEF IInv
  <2>2. tabLock[t] = Nobody
    BY <1>3, <2>1, SMTT(30) DEF IInv, Directory
  <2>3. CASE UNCHANGED tabLock
    BY <2>2, <2>3
  <2>4. CASE ReleaseTable(p) \/ RemoveStale(p)
    <3>1. UNCHANGED tabLock \/ \E x \in 1 .. MaxTables : tabLock' = [tabLock EXCEPT ![x] = Nobody]
      BY <2>4 DEF ReleaseTable, RemoveStale
    <3> QED BY <2>2, <3>1 DEF IInv, TypeOK, TypeRepo
  <2>5. CASE LockTable(p)
    <3>1. idx[p] \in DOMAIN st[p] /\ st[p] \in Seq(1 .. Len(tab))
      <4>1. /\ idx[p] \in Nat /\ last[p] \in Nat /\ st[p] \in Seq(1 .. Len(tab))
            /\ idx[p] >= first[p] /\ first[p] \in Nat /\ 1 <= first[p]
            /\ last[p] <= Len(st[p]) /\ idx[p] <= last[p]
        BY <2>5 DEF LockTable, IInv, Local, InRange, Compacting, TypeOK, TypeControl, TypeData
      <4> QED BY <4>1, SMTT(30)
    <3>2. st[p][idx[p]] \in 1 .. Len(tab)
      BY <3>1, SMTT(30)
    <3>3. st[p][idx[p]] # t
      BY <1>3, <2>1, <3>2, SMTT(30)
    <3> QED BY <2>2, <2>5, <3>3, SMTT(30) DEF LockTable
  <2> QED BY <2>3, <2>4, <2>5, StepRepo
<1> QED BY <1>1, <1>2, <1>3 DEF Directory

\* A step of p does not disturb what q knows of the list.
LEMMA OthersKnow ==
  ASSUME IInv, NEW p \in Procs, Step(p), NEW q \in Procs, q # p
  PROVE  Loaded(q)' /\ Unlisted(q)' /\ Pending(q)'
<1>1. /\ alive'[q] = alive[q] /\ pc'[q] = pc[q] /\ ret'[q] = ret[q] /\ st'[q] = st[q]
      /\ names'[q] = names[q] /\ tries'[q] = tries[q] /\ dead'[q] = dead[q]
      /\ new'[q] = new[q]
  BY StepFrame DEF IInv, TypeOK
<1>2. /\ Control(q) /\ Loaded(q) /\ Unlisted(q) /\ Pending(q) /\ OwnLocks(q)
      /\ Pending(p) /\ OwnLocks(p) /\ InRange(p) /\ TypeOK /\ q # Nobody /\ p # Nobody
  BY ConstantsAssumption DEF IInv, Local
<1>3. (Reloading(q)' <=> Reloading(q)) /\ (Replacing(q)' <=> Replacing(q))
  BY <1>1 DEF Reloading, Replacing
<1>4. ASSUME HoldsList(q) PROVE UNCHANGED list /\ listLock # p /\ ~HoldsList(p)
  BY <1>2, <1>4, StepList DEF OwnLocks
<1>5. /\ Listed(list') \subseteq Listed(list) \cup ({new[p]} \ {0})
  BY StepList
<1>6. \A t \in 1 .. MaxTables : tabLock'[t] = q <=> tabLock[t] = q
  <2>1. p # Nobody /\ DOMAIN tabLock = 1 .. MaxTables
    BY ConstantsAssumption DEF IInv, TypeOK, TypeRepo
  <2>2. ASSUME NEW x \in 1 .. MaxTables,
               \/ tabLock[x] = Nobody /\ tabLock' = [tabLock EXCEPT ![x] = p]
               \/ tabLock[x] = p /\ tabLock' = [tabLock EXCEPT ![x] = Nobody]
        PROVE  \A t \in 1 .. MaxTables : tabLock'[t] = q <=> tabLock[t] = q
    BY <1>2, <2>1, <2>2
  <2> QED BY <1>2, <2>2, StepLocks
<1>7. Loaded(q)'
  <2>1. CASE HoldsList(q)
    BY <1>1, <1>2, <1>3, <1>4, <2>1 DEF Loaded
  <2>2. CASE ~HoldsList(q)
    <3>1. new[p] # 0 => new[p] \notin Listed(st[q])
      BY <1>2 DEF Pending
    <3>2. pc[q] = "opentables" =>
            Listed(st'[q]) \cap Listed(list') \subseteq Listed(names'[q])
      BY <1>1, <1>2, <1>5, <3>1 DEF Loaded
    <3> QED BY <1>1, <2>2, <3>2 DEF Loaded, HoldsList, Reloading
  <2> QED BY <2>1, <2>2
<1>8. Unlisted(q)'
  <2>1. new[p] # 0 => new[p] \notin dead[q] /\ tabLock[new[p]] = Nobody
    BY <1>2 DEF Pending
  <2>2. dead'[q] \cap Listed(list') = {}
    BY <1>1, <1>2, <1>5, <2>1 DEF Unlisted
  <2>3. Replacing(q) => \A t \in 1 .. MaxTables : tabLock'[t] = q => t \notin Listed(list')
    BY <1>2, <1>5, <1>6, <2>1 DEF Unlisted
  <2>4. pc[q] = "recheck" => ~(Listed(names'[q]) \subseteq files')
    <3>1. Listed(names[q]) \subseteq 1 .. Len(tab) /\ Len(tab) \in Nat
      BY <1>2, ListedType, SMTT(30) DEF TypeOK, TypeData
    <3>2. files' \subseteq files \cup {Len(tab) + 1} /\ Len(tab) + 1 \notin 1 .. Len(tab)
      BY StepFiles, SMTT(30)
    <3> QED BY <1>1, <1>2, <3>1, <3>2 DEF Unlisted
  <2> QED BY <1>1, <1>3, <2>2, <2>3, <2>4 DEF Unlisted
<1>9. Pending(q)'
  <2> SUFFICES ASSUME new[q] # 0 PROVE Pending(q)'
    BY <1>1 DEF Pending
  <2>1. HoldsList(q)
    BY <1>2 DEF Control, HoldsList
  <2>2. UNCHANGED list /\ ~HoldsList(p)
    BY <1>4, <2>1
  <2>3. /\ new[q] \in files \ Listed(list) /\ tabLock[new[q]] = Nobody
        /\ \A r \in Procs : new[q] \notin Listed(st[r]) \cup Listed(names[r]) \cup dead[r]
    BY <1>2 DEF Pending
  <2>4. new[q] \in files'
    BY <1>2, <2>2, <2>3, StepFiles DEF HoldsList
  <2>5. \A r \in Procs : new[q] \notin Listed(st'[r]) \cup Listed(names'[r]) \cup dead'[r]
    BY <1>2, <2>3, KnownTables
  <2>6. tabLock'[new[q]] = Nobody
    <3>1. new[q] \in 1 .. MaxTables /\ DOMAIN tabLock = 1 .. MaxTables
      <4>1. new[q] \in 1 .. Len(tab) /\ Len(tab) \in Nat /\ Len(tab) <= MaxTables
        <5>1. files \subseteq 1 .. Len(tab) /\ Len(tab) \in Nat /\ Len(tab) <= MaxTables
          BY <1>2, SMTT(30) DEF TypeOK, TypeRepo
        <5>2. new[q] \in files
          BY <2>3
        <5> QED BY <5>1, <5>2
      <4> QED BY <1>2, <4>1, Bounds, SMTT(30) DEF TypeOK, TypeRepo
    <3>2. ~LockTable(p)
      BY <2>2 DEF LockTable, HoldsList
    <3>3. UNCHANGED tabLock \/ \E x \in 1 .. MaxTables : tabLock' = [tabLock EXCEPT ![x] = Nobody]
      BY <3>2, StepRepo DEF ReleaseTable, RemoveStale
    <3> QED BY <2>3, <3>1, <3>3
  <2> QED BY <1>1, <2>2, <2>3, <2>4, <2>5, <2>6, SMTT(30) DEF Pending
<1> QED BY <1>7, <1>8, <1>9

\* What p will unlink is not listed after its step either.
LEMMA StepUnlisted ==
  ASSUME IInv, NEW p \in Procs, Step(p)
  PROVE  Unlisted(p)'
<1>1. /\ TypeControl /\ TypeData /\ Control(p) /\ Loaded(p) /\ Unlisted(p) /\ OwnLocks(p)
      /\ TypeOK
  BY DEF IInv, Local, TypeOK
<1>2. dead'[p] \cap Listed(list') = {}
  <2> SUFFICES ASSUME dead'[p] # {} PROVE dead'[p] \cap Listed(list') = {}
    OBVIOUS
  <2>1. pc'[p] = "unlinkold"
    BY <1>1, StepControl DEF Control
  <2>2. CASE ReloadOnce(p)
    <3>1. Unlinking(p, Listed(st[p]) \ Listed(names[p])) /\ UNCHANGED list
      BY <1>1, <2>1, <2>2 DEF ReloadOnce, repo, Goto, TypeControl
    <3>2. dead'[p] = Listed(st[p]) \ Listed(names[p])
      BY <1>1, <3>1 DEF Unlinking, TypeData
    <3>3. Listed(st[p]) \cap Listed(list) \subseteq Listed(names[p])
      BY <1>1, <2>2 DEF ReloadOnce, Loaded
    <3> QED BY <3>1, <3>2, <3>3
  <2>3. CASE UnlinkOld(p)
    <3>1. dead'[p] \subseteq dead[p] /\ UNCHANGED list
      BY <1>1, <2>3 DEF UnlinkOld, Unlinking, TypeData
    <3> QED BY <1>1, <3>1 DEF Unlisted
  <2>4. CASE Close(p)
    BY <1>1, <2>4 DEF Close, repo, TypeData
  <2> QED BY <1>1, <2>1, <2>2, <2>3, <2>4, StepArrives DEF Arrives
<1>3. Replacing(p)' => \A t \in 1 .. MaxTables : tabLock'[t] = p => t \notin Listed(list')
  <2>1. CASE CompactCommit(p)
    <3>1. pc[p] = "replace" /\ UNCHANGED tabLock
      BY <2>1 DEF CompactCommit
    <3> QED BY <2>1, <3>1, StepList
  <2>2. CASE Replacing(p) /\ ReloadStep(p)
    <3>1. UNCHANGED <<list, tabLock>>
      BY <2>2 DEF ReloadStep, ReadList, ReloadDeadline, ReloadOnce, UnlinkOld,
         Recheck, repo
    <3> QED BY <1>1, <2>2, <3>1 DEF Unlisted
  <2> QED BY <1>1, <2>1, <2>2, StepArrives DEF Arrives
<1>4. pc'[p] = "recheck" => ~(Listed(names'[p]) \subseteq files')
  <2>1. ASSUME pc'[p] = "recheck" PROVE ~(Listed(names'[p]) \subseteq files')
    <3>1. ReloadOnce(p) /\ ret[p] # "recheck"
      BY <1>1, <2>1, StepArrives DEF Arrives, TypeControl
    <3>2. /\ ~(Listed(names[p]) \subseteq files \cup Listed(st[p]))
          /\ UNCHANGED <<names, files>>
      BY <1>1, <2>1, <3>1 DEF ReloadOnce, Unlinking, Goto, TypeControl, repo
    <3> QED BY <3>2
  <2> QED BY <2>1
<1> QED BY <1>2, <1>3, <1>4 DEF Unlisted

\* The table p has written stays its own until p lists it.
LEMMA StepPending ==
  ASSUME IInv, NEW p \in Procs, Step(p)
  PROVE  Pending(p)'
<1>1. /\ TypeControl /\ TypeData /\ Control(p) /\ Pending(p) /\ TypeOK /\ TypeRepo
      /\ InRange(p)
  BY DEF IInv, Local, TypeOK
<1> SUFFICES ASSUME new'[p] # 0 PROVE Pending(p)'
  BY DEF Pending
<1>2. pc'[p] \in {"commit", "replace", "undo"}
  BY <1>1, StepControl DEF Control
<1>3. CASE Abort(p)
  <2>1. UNCHANGED <<files, list, tabLock, st, names, dead, new>>
    BY <1>3 DEF Abort, repo
  <2> QED BY <1>1, <2>1 DEF Pending
<1>4. CASE AdditionAdd(p) \/ CompactRename(p)
  <2>1. new[p] = 0
    BY <1>1, <1>4 DEF AdditionAdd, CompactRename, Control
  <2>2. (\E t : AddTable(p, t)) /\ UNCHANGED <<list, tabLock, st, names, dead>>
    BY <1>4, <2>1 DEF AdditionAdd, CompactRename
  <2> DEFINE n == Len(tab) + 1
  <2>3. new'[p] = n /\ n \in files' /\ Len(tab) \in Nat /\ Len(tab) < MaxTables
    BY <1>1, <2>2, SMTT(30) DEF AddTable, TypeData
  <2>4. n \notin 1 .. Len(tab) /\ n \in 1 .. MaxTables /\ n > Len(tab)
    BY <2>3, Bounds, SMTT(30)
  <2>5. n \notin Listed(list)
    BY <1>1, ListedType, SMTT(30) DEF TypeRepo
  <2>6. tabLock[n] = Nobody
    BY <2>4 DEF IInv, Directory
  <2>7. ASSUME NEW q \in Procs
        PROVE  n \notin Listed(st[q]) \cup Listed(names[q]) \cup dead[q]
    <3>1. Listed(st[q]) \subseteq 1 .. Len(tab) /\ Listed(names[q]) \subseteq 1 .. Len(tab)
          /\ dead[q] \subseteq 1 .. Len(tab)
      BY <1>1, ListedType DEF TypeData
    <3> QED BY <2>4, <3>1
  <2> HIDE DEF n
  <2> QED BY <2>2, <2>3, <2>5, <2>6, <2>7 DEF Pending
<1> QED BY <1>1, <1>2, <1>3, <1>4, StepArrives DEF Arrives

\* The list p writes still has the range of q.
LEMMA OthersRange ==
  ASSUME IInv, NEW p \in Procs, Step(p), NEW q \in Procs, q # p
  PROVE  RangeKept(q)'
<1> DEFINE T == 1 .. Len(tab)
           n == last[q] - first[q]
<1>1. /\ pc'[q] = pc[q] /\ st'[q] = st[q] /\ first'[q] = first[q] /\ last'[q] = last[q]
  BY StepFrame DEF IInv, TypeOK
<1> SUFFICES ASSUME pc[q] \in {"relock", "rename", "replace"}, ~UNCHANGED list
             PROVE  \E y \in Offsets(q, list)' : first[q] = 1 => y = 1
  <2>1. \A s : Offsets(q, s)' = {i \in DOMAIN s' : /\ i + last'[q] - first'[q] <= Len(s')
                                 /\ SubSeq(s', i, i + last'[q] - first'[q]) = Segment(q)'}
    BY DEF Offsets
  <2>2. Segment(q)' = Segment(q)
    BY <1>1 DEF Segment
  <2>3. ASSUME UNCHANGED list PROVE Offsets(q, list)' = Offsets(q, list)
    BY <1>1, <2>2, <2>3 DEF Offsets
  <2>4. RangeKept(q)
    BY DEF IInv, Local
  <2> QED BY <1>1, <2>3, <2>4 DEF RangeKept
<1>2. /\ TypeControl /\ TypeData /\ TypeRepo /\ Directory /\ TypeOK
      /\ tab \in Seq(Table) /\ list \in Seq(T) /\ names[p] \in Seq(T)
      /\ st[p] \in Seq(T) /\ new[p] \in 0 .. Len(tab) /\ Len(tab) \in Nat
      /\ \A i, j \in DOMAIN list : list[i] = list[j] => i = j
  BY Positions DEF IInv, TypeOK, TypeRepo, TypeData, Directory
<1>3. /\ Control(p) /\ InRange(p) /\ OwnLocks(p) /\ Loaded(p) /\ Pending(p) /\ RangeKept(p)
      /\ InRange(q) /\ OwnLocks(q) /\ RangeKept(q) /\ Compacting(q)
  BY DEF IInv, Local, Compacting
<1>4. /\ first[q] \in Nat /\ last[q] \in Nat /\ first[q] <= last[q] /\ n \in Nat
      /\ idx[q] + 1 = first[q]
  <2>1. /\ first[q] \in Nat /\ last[q] \in Nat /\ first[q] <= last[q]
        /\ idx[q] + 1 = first[q]
    BY <1>2, <1>3 DEF TypeControl, InRange
  <2> QED BY <2>1, SMTT(30)
<1>5. PICK x \in DOMAIN list : /\ x + n <= Len(list) /\ (first[q] = 1 => x = 1)
                               /\ \A k \in 0 .. n : list[x + k] = st[q][first[q] + k]
  <2>1. PICK x \in Offsets(q, list) : first[q] = 1 => x = 1
    BY <1>3 DEF RangeKept
  <2>2. x \in DOMAIN list
    BY DEF Offsets
  <2>3. /\ x + last[q] - first[q] <= Len(list)
        /\ \A k \in 0 .. last[q] - first[q] : list[x + k] = st[q][first[q] + k]
    BY <1>2, <1>3, <2>2, OffsetsAre, SMTT(30)
  <2>4. x + n = x + last[q] - first[q]
    OBVIOUS
  <2> QED BY <2>1, <2>2, <2>3
<1>a. /\ x \in Nat /\ 1 <= x /\ Len(list) \in Nat /\ DOMAIN list = 1 .. Len(list)
      /\ n \in Nat /\ x + n <= Len(list)
  <2>1. list \in Seq(T)
    BY <1>2
  <2>2. Len(list) \in Nat /\ DOMAIN list = 1 .. Len(list)
    BY SMTT(30)
  <2>3. x \in DOMAIN list /\ x + n <= Len(list) /\ n \in Nat
    BY <1>4, <1>5
  <2> HIDE DEF n
  <2> QED BY <2>3, SMTT(30)
<1>6. list' \in Seq(T)
  BY StepListType
<1>7. ASSUME NEW y \in DOMAIN list', y + n <= Len(list'), first[q] = 1 => y = 1,
             \A k \in 0 .. n : list'[y + k] = list[x + k]
      PROVE  \E z \in Offsets(q, list)' : first[q] = 1 => z = 1
  <2>1. y + last[q] - first[q] <= Len(list') /\ list' \in Seq(T)
    BY <1>6, <1>7
  <2>2. \A k \in 0 .. last[q] - first[q] : list'[y + k] = st[q][first[q] + k]
    BY <1>5, <1>7
  <2>3. y \in Offsets(q, list')
    BY <1>2, <1>3, <2>1, <2>2, OffsetsAre
  <2>4. Offsets(q, list)' = Offsets(q, list')
    BY <1>1 DEF Offsets, Segment
  <2> QED BY <1>7, <2>3, <2>4
<1> HIDE DEF n
<1>8. CASE AdditionCommit(p)
  <2>1. list' = Append(list, new[p])
    BY <1>3, <1>8 DEF AdditionCommit, Loaded
  <2>2. x \in DOMAIN list' /\ x + n <= Len(list')
    <3>1. list \in Seq(T)
      BY <1>2
    <3>2. Len(list') = Len(list) + 1 /\ DOMAIN list' = 1 .. Len(list) + 1
      BY <2>1, SMTT(30)
    <3> QED BY <1>a, <3>2, SMTT(30)
  <2>3. ASSUME NEW k \in 0 .. n PROVE list'[x + k] = list[x + k]
    <3>1. x + k \in 1 .. Len(list)
      BY <1>a, SMTT(30)
    <3> QED BY <2>1, <3>1, SMTT(30)
  <2> QED BY <1>5, <1>7, <2>2, <2>3
<1>9. CASE CompactCommit(p)
  <2>1. /\ pc[p] = "replace" /\ names[p] = list /\ Compacting(p) /\ list' = Replaced(p)
    BY <1>3, <1>9 DEF CompactCommit, Loaded, Compacting
  <2>2. PICK o \in Offsets(p, list) :
          /\ o \in DOMAIN list /\ o + last[p] - first[p] \in o .. Len(list)
          /\ Replaced(p) \in Seq(T)
          /\ IsSplice(Replaced(p), list, o, o + last[p] - first[p], Mid(p))
    BY <1>2, <1>3, <2>1, ReplacedIs
  <2> DEFINE e == o + last[p] - first[p]
             M == Mid(p)
  <2>3. M \in Seq(T)
    <3>1. CASE new[p] = 0
      BY <3>1, SMTT(30) DEF Mid
    <3>2. CASE new[p] # 0
      <4>1. M = <<new[p]>> /\ new[p] \in T
        BY <1>2, <3>2, SMTT(30) DEF Mid
      <4> QED BY <4>1, SMTT(30)
    <3> QED BY <3>1, <3>2
  <2>4. /\ first[p] \in Nat /\ last[p] \in Nat /\ first[p] <= last[p]
        /\ idx[p] + 1 = first[p]
    BY <1>2, <1>3, <2>1 DEF TypeControl, InRange
  <2>5. ASSUME NEW k \in o .. e PROVE list[k] \in 1 .. MaxTables /\ tabLock[list[k]] = p
    <3>1. \A j \in 0 .. last[p] - first[p] : list[o + j] = st[p][first[p] + j]
      BY <1>2, <1>3, <2>1, <2>2, OffsetsAre
    <3> DEFINE j == k - o
    <3>2. o \in Nat /\ 1 <= o /\ o + (last[p] - first[p]) = e /\ e \in o .. Len(list)
      BY <2>2, SMTT(30)
    <3>3. j \in 0 .. last[p] - first[p] /\ o + j = k /\ first[p] + j \in first[p] .. last[p]
      BY <2>4, <3>2, SMTT(30)
    <3> HIDE DEF j
    <3>4. list[k] = st[p][first[p] + j] /\ k \in DOMAIN list
      <4>1. list[k] = st[p][first[p] + j]
        BY <3>1, <3>3
      <4>2. k \in 1 .. Len(list)
        <5> HIDE DEF e
        <5> QED BY <3>2, SMTT(30)
      <4> QED BY <4>1, <4>2, SMTT(30)
    <3>5. list[k] \in 1 .. MaxTables
      <4>1. list \in Seq(1 .. Len(tab)) /\ k \in DOMAIN list
        BY <1>2, <3>4
      <4>2. list[k] \in 1 .. Len(tab) /\ Len(tab) <= MaxTables
        BY <1>2, <4>1, SMTT(30) DEF TypeRepo
      <4> QED BY <4>2, Bounds, SMTT(30)
    <3> QED BY <1>3, <2>1, <2>4, <3>3, <3>4, <3>5 DEF OwnLocks
  <2>6. ASSUME NEW k \in 0 .. n PROVE tabLock[list[x + k]] = q
    <3>1. list[x + k] = st[q][first[q] + k] /\ first[q] + k \in first[q] .. last[q]
      BY <1>4, <1>5, SMTT(30) DEF n
    <3>2. x + k \in DOMAIN list
      BY <1>a, SMTT(30)
    <3>3. list[x + k] \in 1 .. MaxTables
      BY <1>2, <3>2, Bounds, SMTT(30) DEF TypeRepo
    <3> QED BY <1>3, <1>4, <3>1, <3>3 DEF OwnLocks
  <2>7. x + n < o \/ x > e
    <3> SUFFICES ASSUME x + n >= o, x <= e PROVE FALSE
      BY <1>a, <2>2, SMTT(30)
    <3> DEFINE z == IF x >= o THEN x ELSE o
    <3>1. x \in Nat /\ o \in Nat /\ e \in Nat /\ o <= e
      BY <2>2, SMTT(30)
    <3>2. z \in o .. e /\ z - x \in 0 .. n /\ x + (z - x) = z
      BY <1>a, <3>1, SMTT(30)
    <3> HIDE DEF z
    <3> QED BY <2>5, <2>6, <3>2, SMTT(30)
  <2>8. /\ o \in 1 .. Len(list) /\ e \in o .. Len(list) /\ x \in 1 .. Len(list)
        /\ IsSplice(list', list, o, e, M) /\ list' \in Seq(T)
    BY <1>5, <2>1, <2>2, SMTT(30)
  <2> HIDE DEF e, M, T, n
  <2>9. Keeps(list', list, x, n)
    <3>1. list \in Seq(T) /\ n \in Nat /\ x + n <= Len(list)
      BY <1>2, <1>a
    <3> QED BY <3>1, <2>3, <2>7, <2>8, SpliceKeeps
  <2> QED BY <1>5, <1>7, <2>9 DEF Keeps
<1> QED BY <1>8, <1>9, StepRepo

\* The range p compacts stays in the list while the list is unlocked.
LEMMA StepRange ==
  ASSUME IInv, NEW p \in Procs, Step(p)
  PROVE  RangeKept(p)'
<1>1. /\ TypeControl /\ TypeData /\ TypeRepo /\ Control(p) /\ InRange(p) /\ Loaded(p)
      /\ RangeKept(p) /\ tab \in Seq(Table)
  BY DEF IInv, Local, TypeOK, TypeRepo
<1>2. CASE CompactUnlock(p)
  <2>1. /\ pc[p] = "locktables" /\ Compacting(p) /\ st[p] = list
        /\ UNCHANGED <<list, st, first, last>>
    BY <1>1, <1>2 DEF CompactUnlock, Loaded, Compacting, compacting
  <2>2. first[p] \in DOMAIN list /\ first[p] + last[p] - first[p] <= Len(list)
    BY <1>1, <2>1, SMTT(30) DEF InRange, TypeControl
  <2>3. list \in Seq(1 .. Len(tab))
    BY <1>1 DEF TypeRepo
  <2>4. first[p] \in Offsets(p, list)
    BY <1>1, <2>1, <2>2, <2>3, OffsetsAre
  <2> QED BY <2>1, <2>4 DEF RangeKept, Offsets, Segment
<1>3. CASE CompactRelock(p) \/ CompactRename(p)
  <2>1. UNCHANGED <<list, st, first, last>> /\ pc[p] \in {"relock", "rename"}
    BY <1>3 DEF CompactRelock, CompactRename, compacting
  <2> QED BY <1>1, <2>1 DEF RangeKept, Offsets, Segment
<1> QED BY <1>1, <1>2, <1>3, StepArrives DEF Arrives, RangeKept

-----------------------------------------------------------------------------
(* The invariant *)

\* A step preserves the invariant, if what it writes is a table.
LEMMA StepIInv ==
  ASSUME IInv, NEW p \in Procs, Step(p), Observe, tab' \in Seq(Table)
  PROVE  IInv'
<1>2. /\ TypeOK /\ TypeControl /\ TypeData /\ Directory
      /\ Control(p) /\ InRange(p) /\ Loaded(p) /\ RangeKept(p)
  BY DEF IInv, Local, TypeOK
<1>3. TypeOK' /\ Directory'
  BY StepTypeOK, StepDirectory
<1>4. Local(p)'
  BY <1>2, StepControl, StepInRange, StepOwnLocks, StepLoaded, StepUnlisted,
     StepPending, StepRange DEF Local, IInv
<1>5. ASSUME NEW q \in Procs, q # p PROVE Local(q)'
  <2>1. Control(q) /\ InRange(q)
    BY DEF IInv, Local
  <2>2. /\ alive'[q] = alive[q] /\ pc'[q] = pc[q] /\ op'[q] = op[q] /\ open'[q] = open[q]
        /\ ret'[q] = ret[q] /\ dead'[q] = dead[q] /\ new'[q] = new[q] /\ st'[q] = st[q]
        /\ first'[q] = first[q] /\ last'[q] = last[q] /\ idx'[q] = idx[q]
    BY <1>2, <1>5, StepFrame
  <2>3. Control(q)' /\ InRange(q)'
    BY <2>1, <2>2 DEF Control, InRange, Compacting, Reloading
  <2>4. OwnLocks(q)' /\ Loaded(q)' /\ Unlisted(q)' /\ Pending(q)' /\ RangeKept(q)'
    BY <1>5, OthersKnow, OthersRange, StepOwnLocks DEF IInv, Local
  <2> QED BY <2>3, <2>4 DEF Local
<1> QED BY <1>3, <1>4, <1>5 DEF IInv

\* The invariant holds initially.
LEMMA InitIInv == Init => IInv
<1> SUFFICES ASSUME Init PROVE IInv
  OBVIOUS
<1> USE DEF Init
<1>1. /\ InitTables \in Seq(Table) /\ Len(InitTables) \in Nat /\ Len(InitTables) <= MaxTables
      /\ DOMAIN InitTables = 1 .. Len(InitTables) /\ Nobody \notin Procs
  BY ConstantsAssumption, SMTT(30)
<1>2. /\ list \in Seq(1 .. Len(tab)) /\ Listed(list) = 1 .. Len(tab)
      /\ DOMAIN list = 1 .. Len(tab) /\ \A i \in DOMAIN list : list[i] = i
  BY SMTT(30) DEF Listed
<1>3. TypeRepo
  BY <1>1, SMTT(30) DEF TypeRepo
<1>4. TypeControl
  BY Bounds DEF TypeControl, Labels
<1>5. TypeData
  BY TxElements, SMTT(30) DEF TypeData
<1>6. \A p \in Procs : lists[p] \subseteq Seq(1 .. Len(tab))
  OBVIOUS
<1>7. Directory
  BY <1>1, <1>2 DEF Directory, ListedTablesExist
<1>8. ASSUME NEW p \in Procs PROVE Local(p)
  <2>1. /\ pc[p] = "idle" /\ alive[p] /\ dead[p] = {} /\ new[p] = 0 /\ op[p] = "none"
        /\ listLock = Nobody /\ \A t \in 1 .. MaxTables : tabLock[t] = Nobody
    OBVIOUS
  <2>2. p # Nobody
    BY <1>1
  <2> HIDE DEF Init
  <2>3. Control(p) /\ InRange(p) /\ Loaded(p) /\ Pending(p) /\ RangeKept(p)
    BY <2>1 DEF Control, InRange, Loaded, Pending, RangeKept, Reloading, Compacting
  <2>4. OwnLocks(p) /\ Unlisted(p)
    BY <2>1, <2>2, SMTT(30) DEF OwnLocks, HoldsList, Unlisted, Reloading, Compacting
  <2> QED BY <2>3, <2>4 DEF Local
<1> QED BY <1>3, <1>4, <1>5, <1>7, <1>8, SMTT(30) DEF IInv, TypeOK

\* The invariant does not depend on anything but the variables.
LEMMA StutterIInv ==
  ASSUME IInv, UNCHANGED vars
  PROVE  IInv'
<1>1. /\ UNCHANGED <<tab, files, list, listLock, tabLock, alive, pc, op, open, st>>
      /\ UNCHANGED <<names, tries, ret, dead, tx, new, first, last, idx, lists>>
  BY DEF vars, repo, reloading, compacting
<1>2. TypeOK'
  BY <1>1 DEF IInv, TypeOK, TypeRepo, TypeControl, TypeData
<1>3. Directory'
  BY <1>1 DEF IInv, Directory, ListedTablesExist, Listed
<1>4. ASSUME NEW p \in Procs PROVE Local(p)'
  <2>1. /\ Control(p) /\ InRange(p) /\ OwnLocks(p) /\ Loaded(p) /\ Unlisted(p) /\ Pending(p)
        /\ RangeKept(p)
    BY DEF IInv, Local
  <2>2. Control(p)'
    BY <1>1, <2>1 DEF Control, Reloading, Compacting
  <2>3. InRange(p)' /\ OwnLocks(p)'
    BY <1>1, <2>1 DEF InRange, OwnLocks, HoldsList, Replacing, Reloading, Compacting
  <2>4. Loaded(p)'
    BY <1>1, <2>1 DEF Loaded, Reloading
  <2>5. Unlisted(p)'
    BY <1>1, <2>1 DEF Unlisted, Replacing, Reloading
  <2>6. Pending(p)'
    BY <1>1, <2>1 DEF Pending
  <2>7. RangeKept(p)'
    BY <1>1, <2>1 DEF RangeKept, Offsets, Segment
  <2> QED BY <2>2, <2>3, <2>4, <2>5, <2>6, <2>7 DEF Local
<1> QED BY <1>2, <1>3, <1>4 DEF IInv

=============================================================================
