------------------------ MODULE ReftableStackRange -------------------------
(***************************************************************************)
(* The range of tables that a compaction replaces: what a slice and a      *)
(* splice of a sequence hold, where the range lies in the list, and what   *)
(* the list is once stack_compact_range() has replaced it.                 *)
(***************************************************************************)
EXTENDS ReftableStackInvariant, TLAPS

\* Most leaves are first-order; SMT is named where numbers, sequences or function
\* updates need it.
USE ZenonT(30)

-----------------------------------------------------------------------------
(* Sequences *)

\* The positions of a sequence are the numbers from one to its length.
LEMMA Positions ==
  \A S : \A s \in Seq(S) : Len(s) \in Nat /\ DOMAIN s = 1 .. Len(s) /\ DOMAIN s \subseteq Nat
BY SMTT(30)

\* A range of positions within 1 .. n, from o to e, as plain inequalities.
LEMMA Bracket ==
  ASSUME NEW n \in Nat, NEW o \in 1 .. n, NEW e \in o .. n
  PROVE  o \in Nat /\ e \in Nat /\ 1 <= o /\ o <= e /\ e <= n /\ e \in 1 .. n
BY SMTT(30)

\* R is what s has at the positions m to n.
IsSlice(R, s, m, n) ==
  /\ Len(R) = n - m + 1
  /\ \A i \in 1 .. n - m + 1 : R[i] = s[m + i - 1]

\* SubSeq is the slice.
LEMMA Slice ==
  ASSUME NEW S, NEW s \in Seq(S), NEW m \in 1 .. Len(s), NEW n \in m .. Len(s)
  PROVE  SubSeq(s, m, n) \in Seq(S) /\ IsSlice(SubSeq(s, m, n), s, m, n)
BY SMTT(30) DEF IsSlice

\* Sequences of the same length with the same elements are equal.
LEMMA SameElements ==
  ASSUME NEW S, NEW a \in Seq(S), NEW b \in Seq(S), Len(a) = Len(b),
         \A i \in 1 .. Len(a) : a[i] = b[i]
  PROVE  a = b
BY SMTT(30)

\* s with the positions o to e replaced by mid
Spliced(s, o, e, mid) == SubSeq(s, 1, o - 1) \o mid \o SubSeq(s, e + 1, Len(s))

IsSplice(R, s, o, e, mid) ==
  /\ Len(R) = o - 1 + Len(mid) + Len(s) - e
  /\ \A i \in 1 .. o - 1 : R[i] = s[i]
  /\ \A i \in 1 .. Len(mid) : R[o - 1 + i] = mid[i]
  /\ \A i \in 1 .. Len(s) - e : R[o - 1 + Len(mid) + i] = s[e + i]

\* What one sequence after the other is
IsConcat(R, a, b) ==
  /\ Len(R) = Len(a) + Len(b)
  /\ \A i \in 1 .. Len(a) : R[i] = a[i]
  /\ \A i \in 1 .. Len(b) : R[Len(a) + i] = b[i]

\* The concatenation of three sequences, element by element.
LEMMA Concat ==
  ASSUME NEW S, NEW a \in Seq(S), NEW b \in Seq(S)
  PROVE  a \o b \in Seq(S) /\ IsConcat(a \o b, a, b)
BY SMTT(30) DEF IsConcat

\* Replacing the elements o to e of s by mid.
LEMMA Splice ==
  ASSUME NEW S, NEW s \in Seq(S), NEW mid \in Seq(S),
         NEW o \in 1 .. Len(s), NEW e \in o .. Len(s)
  PROVE  /\ Spliced(s, o, e, mid) \in Seq(S)
         /\ IsSplice(Spliced(s, o, e, mid), s, o, e, mid)
<1> DEFINE A == SubSeq(s, 1, o - 1)
           B == SubSeq(s, e + 1, Len(s))
           M == A \o mid
           R == M \o B
<1>1. A \in Seq(S) /\ Len(A) = o - 1 /\ \A i \in 1 .. o - 1 : A[i] = s[i]
  BY SMTT(30)
<1>2. B \in Seq(S) /\ Len(B) = Len(s) - e /\ \A i \in 1 .. Len(s) - e : B[i] = s[e + i]
  BY SMTT(30)
<1>3. R = Spliced(s, o, e, mid)
  BY DEF Spliced
<1> HIDE DEF A, B
<1>4. M \in Seq(S) /\ IsConcat(M, A, mid)
  BY <1>1, Concat
<1> HIDE DEF M
<1>5. R \in Seq(S) /\ IsConcat(R, M, B)
  BY <1>2, <1>4, Concat
<1> HIDE DEF R
<1>6. o \in Nat /\ e \in Nat /\ Len(mid) \in Nat /\ Len(s) \in Nat
  BY SMTT(30)
<1>7. Len(M) = o - 1 + Len(mid) /\ Len(R) = o - 1 + Len(mid) + Len(s) - e
  BY <1>1, <1>2, <1>4, <1>5, <1>6 DEF IsConcat
<1>8. ASSUME NEW i \in 1 .. o - 1 PROVE R[i] = s[i]
  BY <1>1, <1>4, <1>5, <1>6, <1>7, SMTT(30) DEF IsConcat
<1>9. ASSUME NEW i \in 1 .. Len(mid) PROVE R[o - 1 + i] = mid[i]
  <2>1. o - 1 + i \in 1 .. Len(M)
    BY <1>6, <1>7, SMTT(30)
  <2> QED BY <1>1, <1>4, <1>5, <2>1, SMTT(30) DEF IsConcat
<1>10. ASSUME NEW i \in 1 .. Len(s) - e PROVE R[o - 1 + Len(mid) + i] = s[e + i]
  BY <1>2, <1>5, <1>7 DEF IsConcat
<1> QED BY <1>3, <1>5, <1>7, <1>8, <1>9, <1>10 DEF IsSplice

\* Where the element j of a splice comes from
ComesFrom(R, s, o, e, mid, j) ==
  \/ j \in DOMAIN s /\ j < o /\ R[j] = s[j]
  \/ j >= o /\ j - o + 1 \in DOMAIN mid /\ R[j] = mid[j - o + 1]
  \/ /\ j >= o + Len(mid) /\ j - o - Len(mid) + e + 1 \in DOMAIN s
     /\ R[j] = s[j - o - Len(mid) + e + 1]

\* Where the elements of a spliced sequence come from.
LEMMA SpliceAt ==
  ASSUME NEW S, NEW s \in Seq(S), NEW mid \in Seq(S), NEW R \in Seq(S),
         NEW o \in 1 .. Len(s), NEW e \in o .. Len(s), IsSplice(R, s, o, e, mid),
         NEW j \in DOMAIN R
  PROVE  ComesFrom(R, s, o, e, mid, j)
<1>1. /\ o \in Nat /\ e \in Nat /\ Len(s) \in Nat /\ Len(mid) \in Nat /\ j \in 1 .. Len(R)
      /\ o <= e /\ e <= Len(s) /\ 1 <= o
  BY SMTT(30)
<1>2. /\ Len(R) = o - 1 + Len(mid) + Len(s) - e
      /\ \A i \in 1 .. o - 1 : R[i] = s[i]
      /\ \A i \in 1 .. Len(mid) : R[o - 1 + i] = mid[i]
      /\ \A i \in 1 .. Len(s) - e : R[o - 1 + Len(mid) + i] = s[e + i]
  BY DEF IsSplice
<1>3. CASE j < o
  BY <1>1, <1>2, <1>3, SMTT(30) DEF ComesFrom
<1>4. CASE j >= o /\ j < o + Len(mid)
  <2> DEFINE i == j - o + 1
  <2>1. i \in 1 .. Len(mid) /\ o - 1 + i = j
    BY <1>1, <1>4, SMTT(30)
  <2> HIDE DEF i
  <2>2. R[j] = mid[i] /\ i \in DOMAIN mid
    BY <1>2, <2>1, SMTT(30)
  <2> QED BY <1>4, <2>2 DEF i, ComesFrom
<1>5. CASE j >= o + Len(mid)
  <2> DEFINE i == j - o - Len(mid) + 1
  <2>1. i \in 1 .. Len(s) - e /\ o - 1 + Len(mid) + i = j
    BY <1>1, <1>2, <1>5, SMTT(30)
  <2>2. e + i = j - o - Len(mid) + e + 1 /\ e + i \in 1 .. Len(s) /\ DOMAIN s = 1 .. Len(s)
    <3>1. DOMAIN s = 1 .. Len(s)
      BY SMTT(30)
    <3>2. e + i = j - o - Len(mid) + e + 1
      BY <1>1, SMTT(30)
    <3>3. e + i \in 1 .. Len(s)
      <4> HIDE DEF i
      <4> QED BY <1>1, <2>1, SMTT(30)
    <3> QED BY <3>1, <3>2, <3>3
  <2> HIDE DEF i
  <2>3. R[j] = s[e + i]
    BY <1>2, <2>1
  <2> QED BY <1>5, <2>2, <2>3 DEF ComesFrom
<1> QED BY <1>1, <1>3, <1>4, <1>5, SMTT(30)

\* No table is listed twice, and the range is not listed any more.
LEMMA SpliceDistinct ==
  ASSUME NEW S, NEW s \in Seq(S), NEW mid \in Seq(S), NEW R \in Seq(S),
         NEW o \in 1 .. Len(s), NEW e \in o .. Len(s), IsSplice(R, s, o, e, mid),
         \A i, j \in DOMAIN s : s[i] = s[j] => i = j,
         Len(mid) <= 1, Listed(mid) \cap Listed(s) = {}
  PROVE  /\ \A i, j \in DOMAIN R : R[i] = R[j] => i = j
         /\ Listed(R) \subseteq Listed(s) \cup Listed(mid)
         /\ \A k \in o .. e : s[k] \notin Listed(R)
<1>1. /\ o \in Nat /\ e \in Nat /\ Len(s) \in Nat /\ Len(mid) \in Nat
      /\ o <= e /\ e <= Len(s) /\ 1 <= o
  BY SMTT(30)
<1>2. \A i \in DOMAIN s, j \in DOMAIN mid : s[i] # mid[j]
  BY DEF Listed
<1> DEFINE P(j, i, k) ==
             \/ i \in DOMAIN s /\ i < o /\ j = i /\ R[j] = s[i]
             \/ k \in DOMAIN mid /\ j = o /\ R[j] = mid[k]
             \/ i \in DOMAIN s /\ i > e /\ j = i + o + Len(mid) - e - 1 /\ R[j] = s[i]
<1>3. ASSUME NEW j \in DOMAIN R PROVE \E i, k : P(j, i, k)
  <2>1. \/ j \in DOMAIN s /\ j < o /\ R[j] = s[j]
        \/ j >= o /\ j - o + 1 \in DOMAIN mid /\ R[j] = mid[j - o + 1]
        \/ /\ j >= o + Len(mid) /\ j - o - Len(mid) + e + 1 \in DOMAIN s
           /\ R[j] = s[j - o - Len(mid) + e + 1]
    <3>1. ComesFrom(R, s, o, e, mid, j)
      BY SpliceAt
    <3> QED BY <3>1 DEF ComesFrom
  <2>2. CASE j \in DOMAIN s /\ j < o /\ R[j] = s[j]
    BY <2>2
  <2>3. CASE j >= o /\ j - o + 1 \in DOMAIN mid /\ R[j] = mid[j - o + 1]
    <3>1. j = o
      BY <1>1, <2>3, SMTT(30)
    <3> QED BY <2>3, <3>1
  <2>4. CASE /\ j >= o + Len(mid) /\ j - o - Len(mid) + e + 1 \in DOMAIN s
             /\ R[j] = s[j - o - Len(mid) + e + 1]
    <3> DEFINE i == j - o - Len(mid) + e + 1
    <3>1. i > e /\ j = i + o + Len(mid) - e - 1
      BY <1>1, <2>4, SMTT(30)
    <3> QED BY <2>4, <3>1
  <2> QED BY <2>1, <2>2, <2>3, <2>4
<1>4. ASSUME NEW i \in DOMAIN R, NEW j \in DOMAIN R, R[i] = R[j] PROVE i = j
  <2>1. PICK x, y : P(i, x, y)
    BY <1>3
  <2>2. PICK u, v : P(j, u, v)
    BY <1>3
  <2> QED BY <1>1, <1>2, <1>4, <2>1, <2>2, SMTT(30)
<1>5. ASSUME NEW j \in DOMAIN R
      PROVE  R[j] \in Listed(s) \cup Listed(mid) /\ \A k \in o .. e : R[j] # s[k]
  <2>1. PICK x, y : P(j, x, y)
    BY <1>3
  <2>2. R[j] \in Listed(s) \cup Listed(mid)
    BY <2>1 DEF Listed
  <2>3. ASSUME NEW k \in o .. e PROVE R[j] # s[k]
    <3>1. k \in DOMAIN s
      BY <1>1, SMTT(30)
    <3> QED BY <1>1, <1>2, <2>1, <3>1, SMTT(30)
  <2> QED BY <2>2, <2>3
<1> QED BY <1>4, <1>5 DEF Listed

\* R has what s has from x to x + n, and at the bottom if s has it there.
Keeps(R, s, x, n) ==
  \E y \in DOMAIN R : /\ y + n <= Len(R) /\ (x = 1 => y = 1)
                      /\ \A k \in 0 .. n : R[y + k] = s[x + k]

\* A range that does not meet what is replaced is still there.
LEMMA SpliceKeeps ==
  ASSUME NEW S, NEW s \in Seq(S), NEW mid \in Seq(S), NEW R \in Seq(S),
         NEW o \in 1 .. Len(s), NEW e \in o .. Len(s), IsSplice(R, s, o, e, mid),
         NEW x \in 1 .. Len(s), NEW n \in Nat, x + n <= Len(s), x + n < o \/ x > e
  PROVE  Keeps(R, s, x, n)
<1>1. /\ o \in Nat /\ e \in Nat /\ Len(s) \in Nat /\ Len(mid) \in Nat /\ x \in Nat
      /\ o <= e /\ e <= Len(s) /\ 1 <= o /\ 1 <= x
  BY SMTT(30)
<1>2. /\ Len(R) = o - 1 + Len(mid) + Len(s) - e
      /\ \A i \in 1 .. o - 1 : R[i] = s[i]
      /\ \A i \in 1 .. Len(s) - e : R[o - 1 + Len(mid) + i] = s[e + i]
  BY DEF IsSplice
<1>3. CASE x + n < o
  <2>1. x \in DOMAIN R /\ x + n <= Len(R)
    BY <1>1, <1>2, <1>3, SMTT(30)
  <2>2. ASSUME NEW k \in 0 .. n PROVE R[x + k] = s[x + k]
    <3>1. x + k \in 1 .. o - 1
      BY <1>1, <1>3, SMTT(30)
    <3> QED BY <1>2, <3>1
  <2> QED BY <2>1, <2>2 DEF Keeps
<1>4. CASE x > e
  <2> DEFINE y == o - 1 + Len(mid) + x - e
  <2>1. y \in DOMAIN R /\ y + n <= Len(R) /\ x # 1 /\ y \in Nat
    BY <1>1, <1>2, <1>4, SMTT(30)
  <2>2. ASSUME NEW k \in 0 .. n PROVE R[y + k] = s[x + k]
    <3> DEFINE i == x - e + k
    <3>1. i \in 1 .. Len(s) - e /\ o - 1 + Len(mid) + i = y + k /\ e + i = x + k
      BY <1>1, <1>4, SMTT(30)
    <3> HIDE DEF i, y
    <3> QED BY <1>2, <3>1
  <2> HIDE DEF y
  <2> QED BY <2>1, <2>2 DEF Keeps
<1> QED BY <1>3, <1>4

\* The range of p, as a sequence
LEMMA SegmentIs ==
  ASSUME TypeControl, TypeData, tab \in Seq(Table), NEW p \in Procs, Compacting(p),
         InRange(p)
  PROVE  /\ Segment(p) \in Seq(1 .. Len(tab))
         /\ IsSlice(Segment(p), st[p], first[p], last[p])
<1>1. st[p] \in Seq(1 .. Len(tab)) /\ first[p] \in Nat /\ last[p] \in Nat
  BY DEF TypeData, TypeControl
<1>2. 1 <= first[p] /\ first[p] <= last[p] /\ last[p] <= Len(st[p])
  BY DEF InRange
<1> DEFINE s == st[p]
           f == first[p]
           l == last[p]
           T == 1 .. Len(tab)
<1>3. s \in Seq(T) /\ f \in 1 .. Len(s) /\ l \in f .. Len(s)
  BY <1>1, <1>2, SMTT(30)
<1> HIDE DEF s, f, l, T
<1>4. SubSeq(s, f, l) \in Seq(T) /\ IsSlice(SubSeq(s, f, l), s, f, l)
  BY <1>3, Slice
<1> QED BY <1>4 DEF s, f, l, T, Segment

\* Where a sequence has the range of p
LEMMA OffsetsAre ==
  ASSUME TypeControl, TypeData, tab \in Seq(Table), NEW p \in Procs, Compacting(p),
         InRange(p), NEW s \in Seq(1 .. Len(tab)), NEW o \in DOMAIN s
  PROVE  o \in Offsets(p, s) <=>
           /\ o + last[p] - first[p] <= Len(s)
           /\ \A k \in 0 .. last[p] - first[p] : s[o + k] = st[p][first[p] + k]
<1> DEFINE n == last[p] - first[p]
           e == o + last[p] - first[p]
<1>1. /\ Segment(p) \in Seq(1 .. Len(tab)) /\ Len(Segment(p)) = n + 1
      /\ \A i \in 1 .. n + 1 : Segment(p)[i] = st[p][first[p] + i - 1]
  BY SegmentIs DEF IsSlice
<1>2. n \in Nat /\ first[p] \in Nat /\ e = o + n /\ e \in Nat /\ Len(s) \in Nat
      /\ o \in 1 .. Len(s)
  <2>1. o \in 1 .. Len(s) /\ Len(s) \in Nat
    BY SMTT(30)
  <2>2. first[p] \in Nat /\ last[p] \in Nat /\ first[p] <= last[p]
    BY DEF TypeControl, InRange
  <2> QED BY <2>1, <2>2, SMTT(30)
<1>3. o \in Offsets(p, s) <=> e <= Len(s) /\ SubSeq(s, o, e) = Segment(p)
  BY DEF Offsets
<1> HIDE DEF n, e
<1>4. ASSUME e <= Len(s)
      PROVE  SubSeq(s, o, e) = Segment(p) <=>
               \A k \in 0 .. n : s[o + k] = st[p][first[p] + k]
  <2> DEFINE A == SubSeq(s, o, e)
             T == 1 .. Len(tab)
  <2>1. s \in Seq(T) /\ o \in 1 .. Len(s) /\ e \in o .. Len(s) /\ e - o + 1 = n + 1
    BY <1>2, <1>4, SMTT(30)
  <2> HIDE DEF T
  <2>2. A \in Seq(T) /\ IsSlice(A, s, o, e)
    BY <2>1, Slice
  <2> HIDE DEF A
  <2>3. Len(A) = n + 1 /\ \A i \in 1 .. n + 1 : A[i] = s[o + i - 1]
    BY <2>1, <2>2 DEF IsSlice
  <2>4. A = Segment(p) <=> \A i \in 1 .. n + 1 : A[i] = Segment(p)[i]
    BY <1>1, <1>2, <2>2, <2>3, SameElements DEF T
  <2>5. (\A i \in 1 .. n + 1 : A[i] = Segment(p)[i]) <=>
          \A i \in 1 .. n + 1 : s[o + i - 1] = st[p][first[p] + i - 1]
    BY <1>1, <2>3
  <2>6. ASSUME \A i \in 1 .. n + 1 : s[o + i - 1] = st[p][first[p] + i - 1],
               NEW k \in 0 .. n
        PROVE  s[o + k] = st[p][first[p] + k]
    <3>1. k + 1 \in 1 .. n + 1 /\ o + (k + 1) - 1 = o + k
          /\ first[p] + (k + 1) - 1 = first[p] + k
      BY <1>2, <2>1, SMTT(30)
    <3> QED BY <2>6, <3>1
  <2>7. ASSUME \A k \in 0 .. n : s[o + k] = st[p][first[p] + k], NEW i \in 1 .. n + 1
        PROVE  s[o + i - 1] = st[p][first[p] + i - 1]
    <3>1. i - 1 \in 0 .. n /\ o + (i - 1) = o + i - 1
          /\ first[p] + (i - 1) = first[p] + i - 1
      BY <1>2, <2>1, SMTT(30)
    <3> QED BY <2>7, <3>1
  <2> QED BY <2>4, <2>5, <2>6, <2>7 DEF A
<1> QED BY <1>3, <1>4 DEF n, e

\* The list a compaction publishes: the tables below the range, the new table
\* unless it is empty, the tables above the range.
LEMMA ReplacedIs ==
  ASSUME TypeRepo, TypeControl, TypeData, Directory, NEW p \in Procs,
         pc[p] = "replace", InRange(p), names[p] = list, RangeKept(p)
  PROVE  \E o \in Offsets(p, list) :
           /\ first[p] = 1 => o = 1
           /\ o \in DOMAIN list /\ o + last[p] - first[p] \in o .. Len(list)
           /\ Replaced(p) \in Seq(1 .. Len(tab))
           /\ IsSplice(Replaced(p), list, o, o + last[p] - first[p], Mid(p))
<1>1. PICK o \in Offsets(p, list) : first[p] = 1 => o = 1
  BY DEF RangeKept
<1> DEFINE e == o + last[p] - first[p]
           R == Replaced(p)
<1>2. tab \in Seq(Table) /\ list \in Seq(1 .. Len(tab)) /\ Compacting(p)
  BY DEF TypeRepo, Compacting
<1>3. first[p] \in Nat /\ last[p] \in Nat /\ first[p] <= last[p]
  BY <1>2 DEF TypeControl, InRange
<1>4. o \in DOMAIN list /\ e <= Len(list) /\ e \in o .. Len(list)
  BY <1>2, <1>3, SMTT(30) DEF Offsets
<1>5. ASSUME NEW x \in Offsets(p, list) PROVE x = o
  <2>1. x \in DOMAIN list
    BY DEF Offsets
  <2>2. \A k \in 0 .. last[p] - first[p] : list[o + k] = st[p][first[p] + k]
    BY <1>2, <1>4, OffsetsAre
  <2>3. \A k \in 0 .. last[p] - first[p] : list[x + k] = st[p][first[p] + k]
    BY <1>2, <2>1, OffsetsAre
  <2>4. 0 \in 0 .. last[p] - first[p] /\ o + 0 = o /\ x + 0 = x
    BY <1>2, <1>3, <1>4, <2>1, SMTT(30)
  <2>5. list[x] = list[o]
    BY <2>2, <2>3, <2>4
  <2> QED BY <1>4, <2>1, <2>5 DEF Directory
<1>6. (CHOOSE i \in Offsets(p, list) : TRUE) = o
  BY <1>5
<1>7. R = Spliced(list, o, e, Mid(p))
  BY <1>6 DEF Replaced, Mid, Spliced
<1>8. Mid(p) \in Seq(1 .. Len(tab))
  <2>1. new[p] \in 0 .. Len(tab) /\ Len(tab) \in Nat
    BY <1>2, SMTT(30) DEF TypeData
  <2>2. CASE new[p] = 0
    BY <2>2, SMTT(30) DEF Mid
  <2>3. CASE new[p] # 0
    <3>1. new[p] \in 1 .. Len(tab)
      BY <2>1, <2>3, SMTT(30)
    <3> QED BY <2>3, <3>1, SMTT(30) DEF Mid
  <2> QED BY <2>2, <2>3
<1> HIDE DEF e, R
<1>9. o \in 1 .. Len(list)
  BY <1>2, <1>4, SMTT(30)
<1> DEFINE T == 1 .. Len(tab)
           l == list
           M == Mid(p)
<1>10. /\ l \in Seq(T) /\ M \in Seq(T) /\ o \in 1 .. Len(l) /\ e \in o .. Len(l)
       /\ R = Spliced(l, o, e, M)
  BY <1>2, <1>4, <1>7, <1>8, <1>9
<1> HIDE DEF T, l, M
<1>11. R \in Seq(T) /\ IsSplice(R, l, o, e, M)
  BY <1>10, Splice
<1> QED BY <1>1, <1>4, <1>11 DEF e, R, T, l, M

=============================================================================
