------------------------ MODULE ReftableStackViews -------------------------
(***************************************************************************)
(* What the tables of a list say, whatever step is taken: the newest record *)
(* of a reference, the order of the update indices, and that replacing a   *)
(* range by what stack_compact_range() has merged keeps both.              *)
(***************************************************************************)
EXTENDS ReftableStackRange, WellFoundedInduction

\* Most leaves are first-order; SMT is named where numbers, sequences or function
\* updates need it.
USE ZenonT(30)

\* A nonempty set of natural numbers has a smallest element.
LEMMA NatMin ==
  ASSUME NEW T, T \subseteq Nat, T # {}
  PROVE  \E x \in T : \A y \in T : x <= y
<1> DEFINE R == OpToRel(<, Nat)
<1>1. \A x, y \in Nat : <<y, x>> \in R <=> y < x
  BY DEF OpToRel
<1>2. IsWellFoundedOn(R, Nat)
  BY NatLessThanWellFounded
<1> HIDE DEF R
<1>3. PICK x \in T : \A y \in T : ~ (<<y, x>> \in R)
  BY <1>2, WFMin
<1>4. ASSUME NEW y \in T PROVE x <= y
  <2>1. ~(y < x)
    BY <1>1, <1>3
  <2>2. x \in Nat /\ y \in Nat
    OBVIOUS
  <2> QED BY <2>1, <2>2, SMTT(30)
<1> QED BY <1>4

\* A nonempty set of positions has a last element.
LEMMA NatMax ==
  ASSUME NEW T, NEW n \in Nat, T \subseteq 0 .. n, T # {}
  PROVE  \E x \in T : \A y \in T : y <= x
<1> DEFINE U == {n - x : x \in T}
<1>1. \A x \in T : n - x \in Nat
  BY SMTT(30)
<1>2. U \subseteq Nat /\ U # {}
  BY <1>1
<1>3. PICK u \in U : \A v \in U : u <= v
  <2> HIDE DEF U
  <2> QED BY <1>2, NatMin
<1>4. PICK x \in T : u = n - x
  BY <1>3
<1>5. ASSUME NEW y \in T PROVE y <= x
  <2>1. n - y \in U
    OBVIOUS
  <2> QED BY <2>1, <1>3, <1>4, SMTT(30)
<1> QED BY <1>5

\* The tables with a record for r, by their position
LEMMA HoldersNat ==
  ASSUME NEW S, NEW s \in Seq(S), NEW r
  PROVE  /\ Holders(s, r) \subseteq 1 .. Len(s) /\ Holders(s, r) \subseteq Nat
         /\ Len(s) \in Nat
BY Positions DEF Holders

\* The newest table with a record for r
LEMMA NewestIs ==
  ASSUME NEW s \in Seq(1 .. Len(tab)), NEW r, Holders(s, r) # {}
  PROVE  /\ Newest(Holders(s, r)) \in Holders(s, r)
         /\ \A j \in Holders(s, r) : j <= Newest(Holders(s, r))
<1>1. Holders(s, r) \subseteq 0 .. Len(s) /\ Len(s) \in Nat
  BY SMTT(30) DEF Holders
<1>2. \E i \in Holders(s, r) : \A j \in Holders(s, r) : j <= i
  BY <1>1, NatMax
<1> QED BY <1>2 DEF Newest

\* A record is the value if no newer table has one.
LEMMA ViewAt ==
  ASSUME NEW s \in Seq(1 .. Len(tab)), NEW r \in Refs, NEW i \in Holders(s, r),
         \A j \in Holders(s, r) : j <= i
  PROVE  View(s)[r] = tab[s[i]].recs[r]
<1>1. /\ Newest(Holders(s, r)) \in Holders(s, r)
      /\ i <= Newest(Holders(s, r))
  BY NewestIs
<1>2. Newest(Holders(s, r)) = i
  BY <1>1, SMTT(30) DEF Holders
<1> QED BY <1>2 DEF View

\* A table has records for references, with values.
LEMMA RecordsElements ==
  /\ \A S \in SUBSET Refs : \A f \in [S -> OidOrNull] : f \in Records
  /\ \A f \in Records : DOMAIN f \subseteq Refs /\ f \in [DOMAIN f -> OidOrNull]
BY DEF Records

\* Every reference has a value, perhaps none.
LEMMA ViewType ==
  ASSUME tab \in Seq(Table), NEW s \in Seq(1 .. Len(tab))
  PROVE  View(s) \in [Refs -> OidOrNull]
<1> SUFFICES ASSUME NEW r \in Refs, Holders(s, r) # {}
             PROVE  tab[s[Newest(Holders(s, r))]].recs[r] \in OidOrNull
  BY DEF View, OidOrNull
<1>1. PICK i \in Holders(s, r) : i = Newest(Holders(s, r))
  BY NewestIs
<1>2. s[i] \in 1 .. Len(tab) /\ r \in DOMAIN tab[s[i]].recs
  BY SMTT(30) DEF Holders
<1>3. tab[s[i]] \in Table
  BY <1>2, SMTT(30)
<1>4. tab[s[i]].recs \in Records
  BY <1>3 DEF Table
<1> QED BY <1>1, <1>2, <1>4, RecordsElements

\* The next update index is a number, above the last table of the stack.
LEMMA NextUpdateIndexType ==
  ASSUME tab \in Seq(Table), NEW s \in Seq(1 .. Len(tab))
  PROVE  /\ NextUpdateIndex(s) \in Nat
         /\ s # <<>> => tab[s[Len(s)]] \in Table /\ tab[s[Len(s)]].max < NextUpdateIndex(s)
<1>1. CASE s = <<>>
  BY <1>1 DEF NextUpdateIndex
<1>2. CASE s # <<>>
  <2>1. Len(s) \in DOMAIN s
    BY <1>2, SMTT(30)
  <2>2. tab[s[Len(s)]] \in Table
    BY <2>1, SMTT(30)
  <2> QED BY <1>2, <2>2, SMTT(30) DEF NextUpdateIndex, Table
<1> QED BY <1>1, <1>2

\* What an addition writes is a table.
LEMMA WrittenType ==
  ASSUME NEW u \in TxType, NEW v
  PROVE  /\ Written(u, v) \in Records
         /\ DOMAIN Written(u, v) \subseteq DOMAIN u
<1> DEFINE S == {x \in DOMAIN u : u[x].new # KEEP /\ u[x].new # v[x]}
<1>1. DOMAIN u \subseteq Refs /\ u \in [DOMAIN u -> UpdateType]
  BY DEF TxType
<1>2. ASSUME NEW r \in S PROVE u[r].new \in OidOrNull
  <2>1. u[r] \in UpdateType /\ u[r].new # KEEP
    BY <1>1
  <2> QED BY <2>1 DEF UpdateType
<1>3. Written(u, v) \in [S -> OidOrNull] /\ S \subseteq Refs
  BY <1>1, <1>2 DEF Written
<1> HIDE DEF S
<1>4. S \in SUBSET Refs
  BY <1>3
<1>5. Written(u, v) \in Records
  BY <1>3, <1>4, RecordsElements
<1>6. DOMAIN Written(u, v) = S
  BY <1>3
<1> QED BY <1>5, <1>6 DEF S

\* A record of update indices and records is a table.
LEMMA TableIs ==
  ASSUME NEW a \in Nat, NEW b \in Nat, NEW f \in Records
  PROVE  [min |-> a, max |-> b, recs |-> f] \in Table
BY DEF Table

\* What a compaction writes is a table.
LEMMA MergedType ==
  ASSUME TypeControl, TypeData, tab \in Seq(Table), NEW p \in Procs, Compacting(p),
         InRange(p)
  PROVE  Merged(p) \in Table
<1> DEFINE s == Segment(p)
           keep == {r \in Refs : /\ Holders(s, r) # {}
                                 /\ first[p] = 1 => View(s)[r] # NULL}
           f == [r \in keep |-> View(s)[r]]
<1>1. s \in Seq(1 .. Len(tab))
  BY SegmentIs
<1>2. View(s) \in [Refs -> OidOrNull]
  BY <1>1, ViewType
<1>3. keep \in SUBSET Refs /\ f \in [keep -> OidOrNull]
  BY <1>2
<1>4. f \in Records
  <2> HIDE DEF f, keep
  <2> QED BY <1>3, RecordsElements
<1>5. st[p] \in Seq(1 .. Len(tab)) /\ first[p] \in DOMAIN st[p] /\ last[p] \in DOMAIN st[p]
  BY SMTT(30) DEF TypeControl, TypeData, InRange
<1>6. tab[st[p][first[p]]] \in Table /\ tab[st[p][last[p]]] \in Table
  BY <1>5, SMTT(30)
<1>7. tab[st[p][first[p]]].min \in Nat /\ tab[st[p][last[p]]].max \in Nat
  BY <1>6 DEF Table
<1>8. Merged(p) = [min |-> tab[st[p][first[p]]].min, max |-> tab[st[p][last[p]]].max, recs |-> f]
  BY DEF Merged
<1> HIDE DEF f
<1> QED BY <1>4, <1>7, <1>8, TableIs

\* The tables of the list are in the order of their updates, and what a process is
\* about to list is what it should be.
Indexed ==
  /\ \A t \in 1 .. Len(tab) : tab[t].min <= tab[t].max
  /\ IndicesIncrease

\* The tables there are stay, whatever is written.
Grows ==
  /\ tab \in Seq(Table) /\ tab' \in Seq(Table) /\ Len(tab) \in Nat /\ Len(tab') \in Nat
  /\ Len(tab) <= Len(tab')
  /\ \A t \in 1 .. Len(tab) : tab'[t] = tab[t] /\ t \in 1 .. Len(tab')

Wrote(p) ==
  /\ pc[p] = "commit" =>
       tab[new[p]] = [min |-> NextUpdateIndex(st[p]), max |-> NextUpdateIndex(st[p]),
                      recs |-> Written(tx[p], View(st[p]))]
  /\ pc[p] = "replace" =>
       IF new[p] = 0 THEN DOMAIN Merged(p).recs = {} ELSE tab[new[p]] = Merged(p)

\* What a list of tables means does not change when tables are added.
LEMMA StableMeaning ==
  ASSUME Grows, NEW s \in Seq(1 .. Len(tab))
  PROVE  /\ View(s)' = View(s) /\ NextUpdateIndex(s)' = NextUpdateIndex(s)
         /\ \A r : Holders(s, r)' = Holders(s, r)
<1>1. \A i \in DOMAIN s : s[i] \in 1 .. Len(tab) /\ tab'[s[i]] = tab[s[i]]
  BY SMTT(30) DEF Grows
<1>2. \A r : Holders(s, r)' = Holders(s, r)
  BY <1>1 DEF Holders
<1>3. ASSUME NEW r \in Refs PROVE View(s)'[r] = View(s)[r]
  <2>1. CASE Holders(s, r) = {}
    BY <1>2, <2>1 DEF View
  <2>2. CASE Holders(s, r) # {}
    <3> DEFINE n == Newest(Holders(s, r))
    <3>1. n \in Holders(s, r)
      BY <2>2, NewestIs
    <3>2. n \in DOMAIN s
      BY <3>1 DEF Holders
    <3>3. Newest(Holders(s, r))' = n
      BY <1>2, SMTT(30) DEF Newest
    <3>4. tab'[s[n]] = tab[s[n]]
      BY <1>1, <3>2
    <3> QED BY <1>2, <2>2, <3>3, <3>4 DEF View
  <2> QED BY <2>1, <2>2
<1>4. View(s)' = View(s)
  <2>1. View(s) = [r \in Refs |-> View(s)[r]]
    BY DEF View
  <2>2. View(s)' = [r \in Refs |-> View(s)'[r]]
    BY DEF View
  <2> QED BY <1>3, <2>1, <2>2
<1>5. NextUpdateIndex(s)' = NextUpdateIndex(s)
  <2>1. s # <<>> => Len(s) \in DOMAIN s
    BY SMTT(30)
  <2> QED BY <1>1, <2>1 DEF NextUpdateIndex
<1> QED BY <1>2, <1>4, <1>5

\* What a compaction writes does not change when tables are added.
LEMMA StableMerged ==
  ASSUME Grows, TypeControl, TypeData, NEW q \in Procs, Compacting(q), InRange(q),
         st'[q] = st[q], first'[q] = first[q], last'[q] = last[q]
  PROVE  Merged(q)' = Merged(q)
<1>1. /\ Segment(q) \in Seq(1 .. Len(tab)) /\ Segment(q)' = Segment(q)
  BY SegmentIs DEF Segment, Grows
<1>2. /\ View(Segment(q))' = View(Segment(q))
      /\ \A r : Holders(Segment(q), r)' = Holders(Segment(q), r)
  BY <1>1, StableMeaning
<1>3. st[q] \in Seq(1 .. Len(tab)) /\ first[q] \in DOMAIN st[q] /\ last[q] \in DOMAIN st[q]
  BY SMTT(30) DEF TypeControl, TypeData, InRange
<1>4. tab'[st[q][first[q]]] = tab[st[q][first[q]]] /\ tab'[st[q][last[q]]] = tab[st[q][last[q]]]
  <2>1. st[q][first[q]] \in 1 .. Len(tab) /\ st[q][last[q]] \in 1 .. Len(tab)
    BY <1>3, SMTT(30)
  <2> QED BY <2>1 DEF Grows
<1> DEFINE keep == {r \in Refs : /\ Holders(Segment(q), r) # {}
                                 /\ first[q] = 1 => View(Segment(q))[r] # NULL}
<1>5. keep' = keep
  BY <1>2, SMTT(30)
<1>6. [r \in keep |-> View(Segment(q))[r]]' = [r \in keep |-> View(Segment(q))[r]]
  <2> HIDE DEF keep
  <2> QED BY <1>2, <1>5
<1> QED BY <1>4, <1>6 DEF Merged

\* The table that takes the place of a range spans it.
LEMMA MergedSpans ==
  ASSUME IInv, Indexed, NEW p \in Procs, pc[p] \in {"rename", "replace"},
         NEW o \in Offsets(p, list)
  PROVE  /\ Merged(p).min = tab[list[o]].min
         /\ Merged(p).max = tab[list[o + last[p] - first[p]]].max
         /\ Merged(p).min <= Merged(p).max
<1>1. /\ TypeControl /\ TypeData /\ tab \in Seq(Table) /\ Compacting(p) /\ InRange(p)
      /\ list \in Seq(1 .. Len(tab)) /\ o \in DOMAIN list
  BY DEF IInv, Local, TypeOK, TypeRepo, Compacting, Offsets
<1>2. /\ o + last[p] - first[p] <= Len(list)
      /\ \A k \in 0 .. last[p] - first[p] : list[o + k] = st[p][first[p] + k]
  BY <1>1, OffsetsAre
<1>3. first[p] \in Nat /\ last[p] \in Nat /\ first[p] <= last[p] /\ o \in Nat /\ 1 <= o
  BY <1>1, SMTT(30) DEF TypeControl, InRange
<1> DEFINE e == o + last[p] - first[p]
<1>4. /\ 0 \in 0 .. last[p] - first[p] /\ last[p] - first[p] \in 0 .. last[p] - first[p]
      /\ o + 0 = o /\ o + (last[p] - first[p]) = e /\ first[p] + 0 = first[p]
      /\ first[p] + (last[p] - first[p]) = last[p]
  BY <1>3, SMTT(30)
<1>5. list[o] = st[p][first[p]] /\ list[e] = st[p][last[p]]
  <2> HIDE DEF e
  <2> QED BY <1>2, <1>4
<1>6. o <= e /\ e \in DOMAIN list
  BY <1>1, <1>2, <1>3, SMTT(30)
<1> HIDE DEF e
<1>7. Merged(p).min = tab[list[o]].min /\ Merged(p).max = tab[list[e]].max
  BY <1>5 DEF Merged
<1>8. /\ list[o] \in 1 .. Len(tab) /\ list[e] \in 1 .. Len(tab)
  BY <1>1, <1>6, SMTT(30)
<1>9. tab[list[o]] \in Table /\ tab[list[e]] \in Table
  BY <1>1, <1>8, SMTT(30)
<1>10. /\ tab[list[o]].min \in Nat /\ tab[list[o]].max \in Nat
       /\ tab[list[e]].min \in Nat /\ tab[list[e]].max \in Nat
  BY <1>9 DEF Table
<1>11. /\ tab[list[o]].min <= tab[list[o]].max /\ tab[list[e]].min <= tab[list[e]].max
       /\ o < e => tab[list[o]].max < tab[list[e]].min
  BY <1>1, <1>6, <1>8 DEF Indexed, IndicesIncrease
<1>12. tab[list[o]].min <= tab[list[e]].max
  <2>1. o = e \/ o < e
    <3>1. e \in Nat
      BY <1>1, <1>6, SMTT(30)
    <3> QED BY <1>3, <1>6, <3>1, SMTT(30)
  <2> QED BY <1>10, <1>11, <2>1, SMTT(30)
<1> QED BY <1>7, <1>12 DEF e

-----------------------------------------------------------------------------
(* The order of the update indices *)

Increasing(s) == \A i, j \in DOMAIN s : i < j => tab[s[i]].max < tab[s[j]].min

\* The position j of a splice by at most one element stands for x to y of s.
From(j, o, e, m, x, y) ==
  \/ j < o /\ x = j /\ y = j
  \/ j = o /\ m = 1 /\ x = o /\ y = e
  \/ j >= o + m /\ x = j - o - m + e + 1 /\ y = x

FromBoth(o, e, m, i, j, x, y, u, v) ==
  /\ o \in Nat /\ e \in Nat /\ m \in {0, 1} /\ i \in Nat /\ j \in Nat /\ x \in Nat
  /\ y \in Nat /\ u \in Nat /\ v \in Nat
  /\ o <= e /\ i < j /\ From(i, o, e, m, x, y) /\ From(j, o, e, m, u, v)

\* A splice keeps the order of what its positions stand for.
LEMMA FromOrdered ==
  ASSUME NEW o, NEW e, NEW m, NEW i, NEW j, NEW x, NEW y, NEW u, NEW v,
         FromBoth(o, e, m, i, j, x, y, u, v)
  PROVE  y < u
<1>1. CASE m = 0
  BY <1>1, SMTT(30) DEF From, FromBoth
<1>2. CASE m = 1
  BY <1>2, SMTT(30) DEF From, FromBoth
<1> QED BY <1>1, <1>2 DEF FromBoth

Short(s) == s = <<>> \/ \E x : s = <<x>>

\* The positions x to y of s are what position j of a splice stands for.
StandsFor(R, s, o, e, mid, j, x, y) ==
  /\ From(j, o, e, Len(mid), x, y)
  /\ \/ x = y /\ R[j] = s[x]
     \/ x = o /\ y = e /\ 1 \in DOMAIN mid /\ R[j] = mid[1]

\* Every position of a splice by at most one element stands for some of s.
LEMMA SpliceFrom ==
  ASSUME NEW S, NEW s \in Seq(S), NEW mid \in Seq(S), NEW R \in Seq(S),
         NEW o \in 1 .. Len(s), NEW e \in o .. Len(s), IsSplice(R, s, o, e, mid),
         Short(mid), NEW j \in DOMAIN R
  PROVE  \E x, y \in DOMAIN s : StandsFor(R, s, o, e, mid, j, x, y)
<1>1. /\ o \in Nat /\ e \in Nat /\ Len(s) \in Nat /\ Len(mid) \in Nat /\ j \in Nat
      /\ o <= e /\ e <= Len(s) /\ 1 <= o /\ DOMAIN s = 1 .. Len(s) /\ DOMAIN mid = 1 .. Len(mid)
  BY Positions, Bracket
<1>2. \/ j \in DOMAIN s /\ j < o /\ R[j] = s[j]
      \/ j >= o /\ j - o + 1 \in DOMAIN mid /\ R[j] = mid[j - o + 1]
      \/ /\ j >= o + Len(mid) /\ j - o - Len(mid) + e + 1 \in DOMAIN s
         /\ R[j] = s[j - o - Len(mid) + e + 1]
  <2>1. ComesFrom(R, s, o, e, mid, j)
    BY SpliceAt
  <2> QED BY <2>1 DEF ComesFrom
<1>3. CASE j \in DOMAIN s /\ j < o /\ R[j] = s[j]
  BY <1>3 DEF From, StandsFor
<1>4. CASE j >= o /\ j - o + 1 \in DOMAIN mid /\ R[j] = mid[j - o + 1]
  <2>1. j = o /\ Len(mid) = 1 /\ j - o + 1 = 1
    <3> DEFINE m == Len(mid)
    <3>1. m = 0 \/ m = 1
      BY SMTT(30) DEF Short
    <3>2. m \in Nat /\ j - o + 1 \in 1 .. m
      BY <1>1, <1>4
    <3> HIDE DEF m
    <3>3. j = o /\ m = 1 /\ j - o + 1 = 1
      BY <1>1, <1>4, <3>1, <3>2, SMTT(30)
    <3> QED BY <3>3 DEF m
  <2>2. o \in DOMAIN s /\ e \in DOMAIN s
    BY <1>1, Bracket
  <2>3. From(j, o, e, Len(mid), o, e)
    BY <2>1 DEF From
  <2> QED BY <1>4, <2>1, <2>2, <2>3 DEF StandsFor
<1>5. CASE /\ j >= o + Len(mid) /\ j - o - Len(mid) + e + 1 \in DOMAIN s
           /\ R[j] = s[j - o - Len(mid) + e + 1]
  BY <1>5 DEF From, StandsFor
<1> QED BY <1>2, <1>3, <1>4, <1>5

\* A range replaced by one table that spans it
LEMMA SpliceIncreasing ==
  ASSUME NEW S, NEW s \in Seq(S), NEW mid \in Seq(S), NEW R \in Seq(S),
         NEW o \in 1 .. Len(s), NEW e \in o .. Len(s),
         IsSplice(R, s, o, e, mid), Short(mid), Increasing(s),
         1 \in DOMAIN mid => /\ tab[mid[1]].min = tab[s[o]].min
                             /\ tab[mid[1]].max = tab[s[e]].max
  PROVE  Increasing(R)
<1> SUFFICES ASSUME NEW i \in DOMAIN R, NEW j \in DOMAIN R, i < j
             PROVE  tab[R[i]].max < tab[R[j]].min
  BY DEF Increasing
<1>1. PICK x, y \in DOMAIN s : StandsFor(R, s, o, e, mid, i, x, y)
  BY SpliceFrom
<1>2. PICK u, v \in DOMAIN s : StandsFor(R, s, o, e, mid, j, u, v)
  BY SpliceFrom
<1>3. /\ o \in Nat /\ e \in Nat /\ o <= e /\ i \in Nat /\ j \in Nat /\ x \in Nat /\ y \in Nat
      /\ u \in Nat /\ v \in Nat
  <2>1. DOMAIN s \subseteq Nat /\ DOMAIN R \subseteq Nat
    BY Positions
  <2>2. Len(s) \in Nat
    BY Positions
  <2>3. o \in Nat /\ e \in Nat /\ o <= e
    BY <2>2, Bracket
  <2> QED BY <2>1, <2>3
<1>m. Len(mid) \in {0, 1}
  BY SMTT(30) DEF Short
<1>4. y < u
  <2> DEFINE m == Len(mid)
  <2>1. m \in {0, 1} /\ From(i, o, e, m, x, y) /\ From(j, o, e, m, u, v)
    BY <1>1, <1>2, <1>m DEF StandsFor
  <2> HIDE DEF m
  <2>2. FromBoth(o, e, m, i, j, x, y, u, v)
    BY <1>3, <2>1 DEF FromBoth
  <2> QED BY <2>2, FromOrdered
<1>5. tab[s[y]].max < tab[s[u]].min
  BY <1>4 DEF Increasing
<1> QED BY <1>1, <1>2, <1>5 DEF StandsFor

-----------------------------------------------------------------------------
(* What a list means when it changes *)

\* Nothing has a record: the reference does not exist.
LEMMA ViewNone ==
  ASSUME NEW s, NEW r \in Refs, Holders(s, r) = {}
  PROVE  View(s)[r] = NULL
BY DEF View

\* A table on top: its records hide the others.
LEMMA AppendView ==
  ASSUME NEW s \in Seq(1 .. Len(tab)), NEW t \in 1 .. Len(tab), NEW r \in Refs
  PROVE  View(Append(s, t))[r] = IF r \in DOMAIN tab[t].recs THEN tab[t].recs[r] ELSE View(s)[r]
<1> DEFINE R == Append(s, t)
           n == Len(s) + 1
<1>1. /\ R \in Seq(1 .. Len(tab)) /\ DOMAIN R = 1 .. n /\ R[n] = t /\ n \in Nat /\ n \in 1 .. n
      /\ DOMAIN s \subseteq 1 .. n
      /\ \A i \in 1 .. n : i # n => i \in DOMAIN s /\ R[i] = s[i]
      /\ \A i \in DOMAIN s : i # n
  BY SMTT(30)
<1> HIDE DEF R, n
<1>2. CASE r \in DOMAIN tab[t].recs
  <2>1. n \in Holders(R, r)
    BY <1>1, <1>2 DEF Holders
  <2>2. \A j \in Holders(R, r) : j <= n
    BY <1>1, SMTT(30) DEF Holders
  <2>3. View(R)[r] = tab[R[n]].recs[r]
    BY <1>1, <2>1, <2>2, ViewAt
  <2> QED BY <1>1, <1>2, <2>3 DEF R
<1>3. CASE r \notin DOMAIN tab[t].recs
  <2>1. Holders(R, r) = Holders(s, r)
    BY <1>1, <1>3 DEF Holders
  <2>2. CASE Holders(s, r) = {}
    BY <1>3, <2>1, <2>2, ViewNone DEF R
  <2>3. CASE Holders(s, r) # {}
    <3>1. PICK i \in Holders(s, r) : \A j \in Holders(s, r) : j <= i
      BY <2>3, NewestIs
    <3>2. View(s)[r] = tab[s[i]].recs[r]
      BY <3>1, ViewAt
    <3>3. View(R)[r] = tab[R[i]].recs[r]
      BY <1>1, <2>1, <3>1, ViewAt, SMTT(30)
    <3>4. R[i] = s[i]
      BY <1>1 DEF Holders
    <3> QED BY <1>3, <3>2, <3>3, <3>4, SMTT(30) DEF R
  <2> QED BY <2>2, <2>3
<1> QED BY <1>2, <1>3

\* R is s with o to e replaced by mid, as sequences of tables.
Replacement(R, s, o, e, mid) ==
  /\ R \in Seq(1 .. Len(tab)) /\ s \in Seq(1 .. Len(tab)) /\ mid \in Seq(1 .. Len(tab))
  /\ o \in 1 .. Len(s) /\ e \in o .. Len(s) /\ IsSplice(R, s, o, e, mid)

\* Where a table of R with a record for r comes from
LEMMA HolderFrom ==
  ASSUME NEW R, NEW s, NEW o, NEW e, NEW mid, Replacement(R, s, o, e, mid),
         NEW r, NEW j \in Holders(R, r)
  PROVE  \/ j < o /\ j \in Holders(s, r) /\ R[j] = s[j]
         \/ /\ j >= o /\ j < o + Len(mid)
            /\ j - o + 1 \in DOMAIN mid /\ r \in DOMAIN tab[mid[j - o + 1]].recs
         \/ /\ j >= o + Len(mid) /\ j - o - Len(mid) + e + 1 \in Holders(s, r)
            /\ j - o - Len(mid) + e + 1 > e
<1> DEFINE T == 1 .. Len(tab)
<1>1. /\ R \in Seq(T) /\ s \in Seq(T) /\ mid \in Seq(T)
      /\ o \in 1 .. Len(s) /\ e \in o .. Len(s) /\ IsSplice(R, s, o, e, mid)
      /\ j \in DOMAIN R /\ r \in DOMAIN tab[R[j]].recs
  BY DEF Replacement, Holders
<1> HIDE DEF T
<1>2. ComesFrom(R, s, o, e, mid, j)
  BY <1>1, SpliceAt
<1> DEFINE m == Len(mid)
<1>3. o \in Nat /\ e \in Nat /\ j \in Nat /\ m \in Nat /\ DOMAIN mid = 1 .. m
  BY <1>1, SMTT(30)
<1> HIDE DEF m
<1>4. CASE j \in DOMAIN s /\ j < o /\ R[j] = s[j]
  BY <1>1, <1>4 DEF Holders
<1>5. CASE j >= o /\ j - o + 1 \in DOMAIN mid /\ R[j] = mid[j - o + 1]
  <2>1. j < o + m
    BY <1>3, <1>5, SMTT(30)
  <2> QED BY <1>1, <1>5, <2>1 DEF m
<1>6. CASE /\ j >= o + m /\ j - o - m + e + 1 \in DOMAIN s
           /\ R[j] = s[j - o - m + e + 1]
  <2>1. j - o - m + e + 1 > e
    BY <1>3, <1>6, SMTT(30)
  <2> QED BY <1>1, <1>6, <2>1 DEF m, Holders
<1>7. \/ j \in DOMAIN s /\ j < o /\ R[j] = s[j]
      \/ j >= o /\ j - o + 1 \in DOMAIN mid /\ R[j] = mid[j - o + 1]
      \/ /\ j >= o + m /\ j - o - m + e + 1 \in DOMAIN s
         /\ R[j] = s[j - o - m + e + 1]
  BY <1>2 DEF ComesFrom, m
<1> QED BY <1>4, <1>5, <1>6, <1>7

\* A record above the range stays the newest one.
LEMMA ViewAbove ==
  ASSUME NEW R, NEW s, NEW o, NEW e, NEW mid, Replacement(R, s, o, e, mid),
         NEW r \in Refs, NEW i \in Holders(s, r), \A j \in Holders(s, r) : j <= i, i > e
  PROVE  View(R)[r] = View(s)[r]
<1> DEFINE m == Len(mid)
           k == o - 1 + m + (i - e)
<1>1. /\ R \in Seq(1 .. Len(tab)) /\ s \in Seq(1 .. Len(tab)) /\ mid \in Seq(1 .. Len(tab))
      /\ o \in Nat /\ e \in Nat /\ m \in Nat /\ i \in Nat /\ i <= Len(s) /\ Len(s) \in Nat
      /\ 1 <= o /\ o <= e /\ e <= Len(s)
  BY SMTT(30) DEF Replacement, Holders
<1>2. /\ Len(R) = o - 1 + m + Len(s) - e
      /\ \A x \in 1 .. Len(s) - e : R[o - 1 + m + x] = s[e + x]
  BY DEF Replacement, IsSplice
<1> HIDE DEF m
<1>3. i - e \in 1 .. Len(s) - e /\ e + (i - e) = i
  BY <1>1, SMTT(30)
<1>4. R[k] = s[i] /\ k \in 1 .. Len(R) /\ k \in Nat
  <2>1. R[k] = s[e + (i - e)]
    BY <1>2, <1>3
  <2>2. k \in Nat /\ 1 <= k /\ k <= o - 1 + m + Len(s) - e
    BY <1>1, SMTT(30)
  <2> HIDE DEF k
  <2> QED BY <1>2, <1>3, <2>1, <2>2, SMTT(30)
<1>5. k \in Holders(R, r)
  <2> HIDE DEF k
  <2>1. k \in DOMAIN R
    BY <1>1, <1>4, SMTT(30)
  <2> QED BY <1>4, <2>1 DEF Holders
<1>6. ASSUME NEW j \in Holders(R, r) PROVE j <= k
  <2>1. j \in Nat
    BY <1>1, HoldersNat
  <2>2. \/ j < o \/ j < o + m
        \/ j - o - m + e + 1 \in Holders(s, r)
    BY HolderFrom DEF m
  <2>3. CASE j < o \/ j < o + m
    BY <1>1, <2>1, <2>3, SMTT(30)
  <2>4. CASE j - o - m + e + 1 \in Holders(s, r)
    <3>1. j - o - m + e + 1 <= i
      BY <2>4
    <3> QED BY <1>1, <2>1, <3>1, SMTT(30)
  <2> QED BY <2>2, <2>3, <2>4
<1> HIDE DEF k
<1>7. View(R)[r] = tab[R[k]].recs[r]
  BY <1>1, <1>5, <1>6, ViewAt
<1>8. View(s)[r] = tab[s[i]].recs[r]
  BY <1>1, ViewAt
<1> QED BY <1>4, <1>7, <1>8

\* Nothing in or above the range has a record: what is below stays the newest.
LEMMA ViewBelow ==
  ASSUME NEW R, NEW s, NEW o, NEW e, NEW mid, Replacement(R, s, o, e, mid),
         NEW r \in Refs, \A j \in Holders(s, r) : j < o,
         \A i \in DOMAIN mid : r \notin DOMAIN tab[mid[i]].recs
  PROVE  View(R)[r] = View(s)[r]
<1>1. /\ R \in Seq(1 .. Len(tab)) /\ s \in Seq(1 .. Len(tab)) /\ Len(s) \in Nat
      /\ o \in Nat /\ e \in Nat /\ 1 <= o /\ o <= e /\ e <= Len(s) /\ Len(mid) \in Nat
  BY SMTT(30) DEF Replacement
<1>2. Len(R) = o - 1 + Len(mid) + Len(s) - e /\ \A i \in 1 .. o - 1 : R[i] = s[i]
  BY DEF Replacement, IsSplice
<1>3. ASSUME NEW j \in Holders(s, r) PROVE j \in Holders(R, r) /\ R[j] = s[j]
  <2>1. j < o /\ j \in 1 .. Len(s)
    BY <1>1, HoldersNat
  <2> DEFINE m == Len(mid)
  <2>2. j \in 1 .. o - 1 /\ j <= o - 1 + m + Len(s) - e
    <3>1. m \in Nat
      BY <1>1
    <3> HIDE DEF m
    <3> QED BY <1>1, <2>1, <3>1, SMTT(30)
  <2>3. R[j] = s[j] /\ j \in DOMAIN R
    BY <1>1, <1>2, <2>2, SMTT(30)
  <2> QED BY <2>3 DEF Holders
<1>4. ASSUME NEW j \in Holders(R, r) PROVE j \in Holders(s, r)
  <2>1. ~(j - o - Len(mid) + e + 1 > e /\ j - o - Len(mid) + e + 1 < o)
    <3> DEFINE x == j - o - Len(mid) + e + 1
    <3>0. j \in Nat
      BY <1>1, HoldersNat
    <3>1. x \in Int
      BY <3>0, <1>1, SMTT(30)
    <3> HIDE DEF x
    <3>2. ~(x > e /\ x < o)
      BY <1>1, <3>1, SMTT(30)
    <3> QED BY <3>2 DEF x
  <2> QED BY <2>1, HolderFrom
<1>5. CASE Holders(s, r) = {}
  BY <1>4, <1>5, ViewNone
<1>6. CASE Holders(s, r) # {}
  <2>1. PICK i \in Holders(s, r) : \A j \in Holders(s, r) : j <= i
    BY <1>1, <1>6, NewestIs
  <2>2. View(s)[r] = tab[s[i]].recs[r]
    BY <1>1, <2>1, ViewAt
  <2>3. View(R)[r] = tab[R[i]].recs[r]
    BY <1>1, <1>3, <1>4, <2>1, ViewAt, SMTT(30)
  <2> QED BY <1>3, <2>2, <2>3
<1> QED BY <1>5, <1>6

\* A table in the place of the range is the newest one with a record.
LEMMA ViewWithin ==
  ASSUME NEW R, NEW s, NEW o, NEW e, NEW t, Replacement(R, s, o, e, <<t>>),
         NEW r \in Refs, \A j \in Holders(s, r) : j <= e, r \in DOMAIN tab[t].recs
  PROVE  View(R)[r] = tab[t].recs[r]
<1>1. /\ R \in Seq(1 .. Len(tab)) /\ s \in Seq(1 .. Len(tab)) /\ Len(s) \in Nat
      /\ o \in Nat /\ e \in Nat /\ 1 <= o /\ o <= e /\ e <= Len(s)
  BY SMTT(30) DEF Replacement
<1>2. Len(R) = o - 1 + 1 + Len(s) - e /\ \A i \in 1 .. 1 : R[o - 1 + i] = <<t>>[i]
  BY DEF Replacement, IsSplice
<1>3. R[o] = t /\ o \in 1 .. Len(R)
  <2>1. 1 \in 1 .. 1 /\ o - 1 + 1 = o /\ <<t>>[1] = t
    BY <1>1, SMTT(30)
  <2>2. R[o] = t
    BY <1>2, <2>1
  <2> QED BY <1>1, <1>2, <2>2, SMTT(30)
<1>4. o \in Holders(R, r)
  BY <1>1, <1>3, SMTT(30) DEF Holders
<1>5. ASSUME NEW j \in Holders(R, r) PROVE j <= o
  <2>1. j \in Nat /\ Len(<<t>>) = 1
    BY <1>1, SMTT(30) DEF Holders
  <2>2. \/ j < o \/ j < o + 1
        \/ j - o - 1 + e + 1 \in Holders(s, r) /\ j - o - 1 + e + 1 > e
    BY <2>1, HolderFrom
  <2>3. ~(j - o - 1 + e + 1 \in Holders(s, r) /\ j - o - 1 + e + 1 > e)
    <3> DEFINE x == j - o - 1 + e + 1
    <3>1. x \in Int
      BY <1>1, <2>1, SMTT(30)
    <3> HIDE DEF x
    <3>2. ~(x \in Holders(s, r) /\ x > e)
      BY <1>1, <3>1, SMTT(30)
    <3> QED BY <3>2 DEF x
  <2> QED BY <1>1, <2>1, <2>2, <2>3, SMTT(30)
<1>6. View(R)[r] = tab[R[o]].recs[r]
  BY <1>1, <1>4, <1>5, ViewAt
<1> QED BY <1>3, <1>6

\* Positions in a range and in the sequence it is a range of
LEMMA Within ==
  ASSUME NEW o \in Nat, NEW e \in Nat, NEW n \in Nat, 1 <= o, o <= e, e <= n,
         NEW i \in 1 .. e - o + 1
  PROVE  o + i - 1 \in o .. e /\ o + i - 1 \in 1 .. n
BY SMTT(30)

\* The records of a range, taken by itself
LEMMA SliceHolders ==
  ASSUME NEW G \in Seq(1 .. Len(tab)), NEW s \in Seq(1 .. Len(tab)),
         NEW o \in 1 .. Len(s), NEW e \in o .. Len(s), IsSlice(G, s, o, e), NEW r
  PROVE  /\ \A i \in Holders(G, r) : o + i - 1 \in Holders(s, r) /\ o + i - 1 \in o .. e
         /\ \A i \in Holders(s, r) : i \in o .. e => i - o + 1 \in Holders(G, r)
<1>1. o \in Nat /\ e \in Nat /\ 1 <= o /\ o <= e /\ e <= Len(s) /\ Len(s) \in Nat
  BY Positions, Bracket
<1>2. /\ DOMAIN G = 1 .. e - o + 1
      /\ \A i \in 1 .. e - o + 1 : G[i] = s[o + i - 1]
  BY SMTT(30) DEF IsSlice
<1>3. ASSUME NEW i \in Holders(G, r) PROVE o + i - 1 \in Holders(s, r) /\ o + i - 1 \in o .. e
  <2>1. i \in 1 .. e - o + 1 /\ r \in DOMAIN tab[G[i]].recs
    BY <1>2 DEF Holders
  <2> DEFINE x == o + i - 1
  <2>2. x \in o .. e /\ x \in 1 .. Len(s)
    BY <1>1, <2>1, Within
  <2>3. G[i] = s[x]
    BY <1>2, <2>1
  <2> HIDE DEF x
  <2>4. x \in DOMAIN s
    BY <2>2, SMTT(30)
  <2>5. x \in Holders(s, r)
    BY <2>1, <2>3, <2>4 DEF Holders
  <2> QED BY <2>2, <2>5 DEF x
<1>4. ASSUME NEW i \in Holders(s, r), i \in o .. e PROVE i - o + 1 \in Holders(G, r)
  <2> DEFINE x == i - o + 1
  <2>1. x \in 1 .. e - o + 1 /\ o + x - 1 = i
    BY <1>1, <1>4, SMTT(30)
  <2> HIDE DEF x
  <2>2. x \in DOMAIN G /\ G[x] = s[i]
    BY <1>2, <2>1
  <2>3. x \in Holders(G, r)
    BY <2>2 DEF Holders
  <2> QED BY <2>3 DEF x
<1> QED BY <1>3, <1>4

\* What a range of tables means, in terms of the stack it is a range of.
LEMMA SliceView ==
  ASSUME NEW G \in Seq(1 .. Len(tab)), NEW s \in Seq(1 .. Len(tab)),
         NEW o \in 1 .. Len(s), NEW e \in o .. Len(s), IsSlice(G, s, o, e), NEW r \in Refs,
         NEW i \in Holders(s, r), i \in o .. e, \A j \in Holders(s, r) : j <= i
  PROVE  Holders(G, r) # {} /\ View(G)[r] = View(s)[r]
<1> DEFINE k == i - o + 1
<1>1. o \in Nat /\ i \in Nat
  BY SMTT(30)
<1>2. /\ k \in Holders(G, r)
      /\ \A j \in Holders(G, r) : o + j - 1 \in Holders(s, r)
  BY SliceHolders
<1>3. ASSUME NEW j \in Holders(G, r) PROVE j <= k
  <2>1. j \in Nat
    BY HoldersNat
  <2>2. o + j - 1 <= i
    BY <1>2
  <2> QED BY <1>1, <2>1, <2>2, SMTT(30)
<1>4. G[k] = s[i]
  <2>1. k \in 1 .. e - o + 1 /\ o + k - 1 = i
    BY <1>1, SMTT(30)
  <2> HIDE DEF k
  <2> QED BY <2>1 DEF IsSlice
<1> HIDE DEF k
<1>5. View(G)[r] = tab[G[k]].recs[r]
  BY <1>2, <1>3, ViewAt
<1>6. View(s)[r] = tab[s[i]].recs[r]
  BY ViewAt
<1> QED BY <1>2, <1>4, <1>5, <1>6, SMTT(30)

\* Compacting a range changes the value of no reference: the new table has the
\* newest record of every reference of the range, and a deletion is only dropped
\* when nothing is below.
LEMMA ReplacedView ==
  ASSUME IInv, NEW p \in Procs, pc[p] = "replace", Wrote(p)
  PROVE  View(Replaced(p)) = View(list)
<1> DEFINE T == 1 .. Len(tab)
           R == Replaced(p)
           G == Segment(p)
<1>1. /\ TypeControl /\ TypeData /\ TypeRepo /\ Directory /\ tab \in Seq(Table)
      /\ list \in Seq(T) /\ new[p] \in 0 .. Len(tab) /\ Len(tab) \in Nat
  BY SMTT(30) DEF IInv, TypeOK, TypeRepo, TypeData
<1>2. InRange(p) /\ Loaded(p) /\ RangeKept(p) /\ Compacting(p) /\ names[p] = list
  BY DEF IInv, Local, Compacting, Loaded
<1>3. PICK o \in Offsets(p, list) :
        /\ first[p] = 1 => o = 1
        /\ o \in DOMAIN list /\ o + last[p] - first[p] \in o .. Len(list)
        /\ R \in Seq(T) /\ IsSplice(R, list, o, o + last[p] - first[p], Mid(p))
  BY <1>1, <1>2, ReplacedIs
<1> DEFINE e == o + last[p] - first[p]
<1>4. o \in 1 .. Len(list) /\ e \in o .. Len(list) /\ o \in Nat /\ e \in Nat /\ 1 <= o
      /\ o <= e /\ e <= Len(list)
  BY <1>1, <1>3, SMTT(30)
<1>5. G = SubSeq(list, o, e)
  BY <1>3 DEF Offsets
<1>6. IsSlice(G, list, o, e) /\ G \in Seq(T)
  <2>1. list \in Seq(T) /\ o \in 1 .. Len(list) /\ e \in o .. Len(list)
    BY <1>1, <1>4
  <2> HIDE DEF e, T, G
  <2> QED BY <1>5, <2>1, Slice
<1>7. Mid(p) \in Seq(T)
  <2>1. CASE new[p] = 0
    BY <2>1, SMTT(30) DEF Mid
  <2>2. CASE new[p] # 0
    <3>1. new[p] \in T
      BY <1>1, <2>2, SMTT(30)
    <3> QED BY <2>2, <3>1, SMTT(30) DEF Mid
  <2> QED BY <2>1, <2>2
<1>8. Replacement(R, list, o, e, Mid(p))
  BY <1>1, <1>3, <1>4, <1>7, SMTT(30) DEF Replacement
<1> DEFINE W == Merged(p).recs
<1>9. /\ \A r \in DOMAIN W : r \in Refs /\ Holders(G, r) # {} /\ W[r] = View(G)[r]
      /\ \A r \in Refs : Holders(G, r) # {} /\ r \notin DOMAIN W => first[p] = 1 /\ View(G)[r] = NULL
  BY DEF Merged
<1> HIDE DEF W, R, G, e
<1>10. /\ new[p] = 0 => DOMAIN W = {} /\ Mid(p) = <<>>
       /\ new[p] # 0 => tab[new[p]].recs = W /\ Mid(p) = <<new[p]>>
  BY DEF Wrote, W, Mid
<1>11. ASSUME NEW r, r \notin DOMAIN W
       PROVE  \A i \in DOMAIN Mid(p) : r \notin DOMAIN tab[Mid(p)[i]].recs
  BY <1>10, <1>11, SMTT(30)
<1>12. ASSUME NEW r \in Refs PROVE View(R)[r] = View(list)[r]
  <2>1. CASE \A j \in Holders(list, r) : j < o
    <3>1. Holders(G, r) = {}
      <4>1. \A i \in Holders(G, r) : o + i - 1 \in Holders(list, r) /\ o + i - 1 \in o .. e
        BY <1>1, <1>4, <1>6, SliceHolders, SMTT(30)
      <4> QED BY <1>4, <2>1, <4>1, SMTT(30)
    <3>2. r \notin DOMAIN W
      BY <1>9, <3>1, SMTT(30)
    <3> QED BY <1>8, <1>11, <2>1, <3>2, ViewBelow, SMTT(30)
  <2>2. CASE ~ \A j \in Holders(list, r) : j < o
    <3>0. Holders(list, r) \subseteq Nat
      BY <1>1, HoldersNat
    <3>1. PICK i \in Holders(list, r) : \A j \in Holders(list, r) : j <= i
      BY <1>1, <2>2, NewestIs, SMTT(30)
    <3>2. i \in Nat /\ i >= o
      <4>1. i \in Nat
        BY <3>0
      <4>2. PICK j \in Holders(list, r) : ~(j < o)
        BY <2>2
      <4>3. j \in Nat /\ j <= i
        BY <3>0, <3>1
      <4> QED BY <1>4, <4>1, <4>2, <4>3, SMTT(30)
    <3>3. CASE i > e
      BY <1>8, <3>1, <3>3, ViewAbove, SMTT(30)
    <3>4. CASE ~(i > e)
      <4>1. i \in o .. e
        BY <1>4, <3>2, <3>4, SMTT(30)
      <4>2. Holders(G, r) # {} /\ View(G)[r] = View(list)[r]
        BY <1>1, <1>4, <1>6, <3>1, <4>1, SliceView, SMTT(30)
      <4>3. \A j \in Holders(list, r) : j <= e
        <5>1. ASSUME NEW j \in Holders(list, r) PROVE j <= e
          <6>1. j \in Nat /\ j <= i
            BY <3>0, <3>1
          <6> QED BY <1>4, <3>2, <3>4, <6>1, SMTT(30)
        <5> QED BY <5>1
      <4>4. CASE r \in DOMAIN W
        <5>1. new[p] # 0 /\ Replacement(R, list, o, e, <<new[p]>>)
          BY <1>8, <1>10, <4>4, SMTT(30)
        <5>2. r \in DOMAIN tab[new[p]].recs
          BY <1>10, <4>4, <5>1, SMTT(30)
        <5>3. View(R)[r] = tab[new[p]].recs[r]
          BY <4>3, <5>1, <5>2, ViewWithin, SMTT(30)
        <5>4. tab[new[p]].recs = W /\ W[r] = View(G)[r]
          BY <1>9, <1>10, <4>4, <5>1
        <5> QED BY <4>2, <5>3, <5>4
      <4>5. CASE r \notin DOMAIN W
        <5>1. first[p] = 1 /\ View(G)[r] = NULL /\ o = 1
          BY <1>3, <1>9, <4>2, <4>5, SMTT(30)
        <5>2. ASSUME NEW j \in Holders(R, r) PROVE FALSE
          <6>0. j \in 1 .. Len(R) /\ Len(R) \in Nat
            BY <1>3, HoldersNat
          <6>1. j \in Nat /\ 1 <= j
            BY <1>3, <6>0, SMTT(30)
          <6>2. \/ j < o /\ j \in Holders(list, r)
                \/ j - o - Len(Mid(p)) + e + 1 \in Holders(list, r)
                   /\ j - o - Len(Mid(p)) + e + 1 > e
            BY <1>8, <1>11, <4>5, HolderFrom, SMTT(30)
          <6>3. ASSUME NEW x \in Holders(list, r), x > e PROVE FALSE
            <7>1. x \in Nat /\ x <= e
              BY <3>0, <4>3
            <7> QED BY <1>4, <6>3, <7>1, SMTT(30)
          <6>4. ~(j < o)
            BY <5>1, <6>1, SMTT(30)
          <6> QED BY <6>2, <6>3, <6>4
        <5>3. View(R)[r] = NULL
          BY <5>2, ViewNone
        <5> QED BY <4>2, <5>1, <5>3, SMTT(30)
      <4> QED BY <4>4, <4>5, SMTT(30)
    <3> QED BY <3>3, <3>4, SMTT(30)
  <2> QED BY <2>1, <2>2
<1>13. /\ View(R) = [r \in Refs |-> View(R)[r]]
       /\ View(list) = [r \in Refs |-> View(list)[r]]
  BY DEF View
<1> QED BY <1>12, <1>13, SMTT(30) DEF R

=============================================================================
