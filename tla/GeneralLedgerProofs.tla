------------------------- MODULE GeneralLedgerProofs -------------------------
(***************************************************************************)
(* Proofs about GeneralLedger for every number of executions and months,   *)
(* every sequence of reports, every sheet left by an earlier version and   *)
(* every number of calls and faults.                                       *)
(*                                                                         *)
(* What an export does to the shared sheet, and what the registry and the  *)
(* change sheet hold, does not depend on the hazards.  The months a        *)
(* backfill stands behind are proved only while no backfill is started     *)
(* under a worker of another one: the position it would write is its own.  *)
(***************************************************************************)
EXTENDS GeneralLedger, LedgerMatchProofs

-----------------------------------------------------------------------------
(* The rows of one month *)

\* The scan behind RowsOf, from the first row to the last
IsScan(f, rows, month) ==
  f = [n \in 0..Len(rows) |->
         IF n = 0 THEN <<>>
         ELSE IF rows[n].month = month THEN Append(f[n - 1], rows[n])
         ELSE f[n - 1]]

Scans(f, rows, month, X) ==
  /\ f \in [0..Len(rows) -> Seq(X)] /\ f[0] = <<>> /\ f[Len(rows)] = RowsOf(rows, month)
  /\ \A n \in 1..Len(rows) :
       f[n] = IF rows[n].month = month THEN Append(f[n - 1], rows[n]) ELSE f[n - 1]

LEMMA RowsOfUnfolds ==
  ASSUME NEW rows, NEW month
  PROVE  RowsOf(rows, month) = (CHOOSE f : IsScan(f, rows, month))[Len(rows)]
  BY Zenon DEF RowsOf, IsScan

LEMMA ScanExists ==
  ASSUME NEW X, NEW rows \in Seq(X), NEW month
  PROVE  \E f : Scans(f, rows, month, X)
<1> DEFINE N == Len(rows)
           step == [n \in 1..N |-> [found \in Seq(X) |->
                      IF rows[n].month = month THEN Append(found, rows[n]) ELSE found]]
<1>1. N \in Nat /\ \A n \in 1..N : rows[n] \in X
  BY LenProperties, ElementOfSeq
<1>2. step \in [1..N -> [Seq(X) -> Seq(X)]]
  <2>1. \A n \in 1..N : \A found \in Seq(X) : Append(found, rows[n]) \in Seq(X)
    BY <1>1, AppendProperties
  <2> QED
    BY <2>1
<1>3. <<>> \in Seq(X)
  BY EmptySeq
<1>4. PICK g : IsRecursion(g, Seq(X), <<>>, N, step)
  <2> HIDE DEF step, N
  <2> QED
    BY <1>1, <1>2, <1>3, Recursion
<1>5. /\ g \in [0..N -> Seq(X)] /\ g[0] = <<>>
      /\ \A n \in 1..N : g[n] = IF rows[n].month = month THEN Append(g[n - 1], rows[n]) ELSE g[n - 1]
  <2>1. /\ g \in [0..N -> Seq(X)] /\ g[0] = <<>>
        /\ \A n \in 1..N : g[n] = step[n][g[n - 1]]
    BY <1>4 DEF IsRecursion
  <2>2. \A n \in 1..N : n - 1 \in 0..N
    BY <1>1
  <2>3. \A n \in 1..N : g[n - 1] \in Seq(X)
    BY <2>1, <2>2
  <2>4. \A n \in 1..N : step[n][g[n - 1]] =
          IF rows[n].month = month THEN Append(g[n - 1], rows[n]) ELSE g[n - 1]
    BY <2>3
  <2> HIDE DEF step
  <2> QED
    BY <2>1, <2>4
<1>6. IsScan(g, rows, month)
  <2>1. g = [n \in 0..N |-> g[n]]
    BY <1>5
  <2>2. \A n \in 0..N : g[n] = IF n = 0 THEN <<>>
          ELSE IF rows[n].month = month THEN Append(g[n - 1], rows[n]) ELSE g[n - 1]
    <3>1. \A n \in 0..N : n = 0 \/ n \in 1..N
      BY <1>1
    <3>2. \A n \in 1..N : n # 0
      BY <1>1
    <3> QED
      BY <3>1, <3>2, <1>5, Zenon
  <2> QED
    BY <2>1, <2>2 DEF IsScan
<1> DEFINE f == CHOOSE f : IsScan(f, rows, month)
<1>7. IsScan(f, rows, month)
  BY <1>6
<1>8. f[N] = RowsOf(rows, month)
  BY RowsOfUnfolds
<1> HIDE DEF f
<1>9. /\ DOMAIN f = 0..N /\ f[0] = <<>>
      /\ \A n \in 1..N : f[n] = IF rows[n].month = month THEN Append(f[n - 1], rows[n]) ELSE f[n - 1]
  <2>1. \A n \in 1..N : n \in 0..N /\ n # 0
    BY <1>1
  <2>2. 0 \in 0..N
    BY <1>1
  <2> QED
    BY <1>7, <2>1, <2>2 DEF IsScan
<1>10. \A n \in Nat : n <= N => f[n] \in Seq(X)
  <2> DEFINE Good == {n \in Nat : n <= N => f[n] \in Seq(X)}
  <2>1. 0 \in Good
    BY <1>3, <1>9
  <2>2. ASSUME NEW n \in Nat, n \in Good PROVE n + 1 \in Good
    <3> SUFFICES ASSUME n + 1 <= N PROVE f[n + 1] \in Seq(X)
      OBVIOUS
    <3>1. f[n] \in Seq(X) /\ n + 1 \in 1..N /\ (n + 1) - 1 = n
      BY <1>1, <2>2
    <3>2. Append(f[n], rows[n + 1]) \in Seq(X)
      BY <3>1, <1>1, AppendProperties
    <3> QED
      BY <3>1, <3>2, <1>9
  <2>3. Nat \subseteq Good
    <3> HIDE DEF Good
    <3> QED
      BY <2>1, <2>2, NatSetInduction
  <2> QED
    BY <2>3
<1>11. f \in [0..N -> Seq(X)]
  <2>1. \A n \in 0..N : n \in Nat /\ n <= N
    BY <1>1
  <2>2. f = [n \in 0..N |-> f[n]]
    BY <1>7 DEF IsScan
  <2> QED
    BY <1>10, <2>1, <2>2
<1>12. Scans(f, rows, month, X)
  BY <1>8, <1>9, <1>11 DEF Scans
<1> QED
  BY <1>12

Joins(s, t, u) == u = s \o t

LEMMA AppendInside ==
  ASSUME NEW X, NEW s \in Seq(X), NEW t \in Seq(X), NEW x \in X, NEW u, Joins(s, t, u)
  PROVE  Joins(s, Append(t, x), Append(u, x))
<1> DEFINE both == s \o t
           more == Append(t, x)
           left == Append(both, x)
           right == s \o more
<1>1. Len(s) \in Nat /\ Len(t) \in Nat
  BY LenProperties
<1>2. /\ both \in Seq(X) /\ Len(both) = Len(s) + Len(t)
      /\ \A i \in 1..(Len(s) + Len(t)) : both[i] = IF i <= Len(s) THEN s[i] ELSE t[i - Len(s)]
  BY ConcatProperties
<1>3. /\ more \in Seq(X) /\ Len(more) = Len(t) + 1
      /\ \A i \in 1..Len(t) : more[i] = t[i]
      /\ more[Len(t) + 1] = x
  BY AppendProperties
<1> HIDE DEF both, more
<1>4. /\ left \in Seq(X) /\ Len(left) = Len(both) + 1
      /\ \A i \in 1..Len(both) : left[i] = both[i]
      /\ left[Len(both) + 1] = x
  BY <1>2, AppendProperties
<1>5. /\ right \in Seq(X) /\ Len(right) = Len(s) + Len(more)
      /\ \A i \in 1..(Len(s) + Len(more)) : right[i] = IF i <= Len(s) THEN s[i] ELSE more[i - Len(s)]
  BY <1>3, ConcatProperties
<1> HIDE DEF left, right
<1>6. ASSUME NEW i \in 1..Len(left) PROVE left[i] = right[i]
  <2>1. CASE i <= Len(s)
    <3>1. i \in 1..(Len(s) + Len(t)) /\ i \in 1..(Len(s) + Len(more))
      BY <2>1, <1>1, <1>3
    <3>2. both[i] = s[i] /\ right[i] = s[i]
      BY <2>1, <3>1, <1>2, <1>5
    <3> QED
      BY <3>1, <3>2, <1>2, <1>4
  <2>2. CASE i > Len(s) /\ i <= Len(s) + Len(t)
    <3>1. /\ i - Len(s) \in 1..Len(t) /\ ~ (i <= Len(s)) /\ i \in 1..(Len(s) + Len(t))
          /\ i \in 1..(Len(s) + Len(more))
      BY <2>2, <1>1, <1>3
    <3>2. both[i] = t[i - Len(s)] /\ right[i] = more[i - Len(s)]
      BY <3>1, <1>2, <1>5
    <3> QED
      BY <3>1, <3>2, <1>2, <1>3, <1>4
  <2>3. CASE i = Len(s) + Len(t) + 1
    <3>1. i - Len(s) = Len(t) + 1 /\ ~ (i <= Len(s))
      BY <2>3, <1>1
    <3> QED
      BY <2>3, <3>1, <1>1, <1>2, <1>3, <1>4, <1>5
  <2> QED
    BY <2>1, <2>2, <2>3, <1>1, <1>2, <1>4
<1>7. left = right
  <2>1. Len(left) = Len(right) /\ left \in Seq(X) /\ right \in Seq(X)
    BY <1>1, <1>2, <1>3, <1>4, <1>5
  <2>2. \A i \in 1..Len(left) : left[i] = right[i]
    BY <1>6
  <2> QED
    BY <2>1, <2>2, SeqEqual
<1>8. u = both
  BY DEF Joins, both
<1>9. Append(u, x) = s \o more
  <2>1. left = Append(u, x)
    BY <1>8 DEF left
  <2>2. right = s \o more
    BY DEF right
  <2> QED
    BY <2>1, <2>2, <1>7
<1>10. Joins(s, more, Append(u, x))
  BY <1>9 DEF Joins
<1> QED
  BY <1>10 DEF more

\* The rows of a month are found part by part
LEMMA RowsOfConcat ==
  ASSUME NEW X, NEW s \in Seq(X), NEW t \in Seq(X), NEW both, Joins(s, t, both), NEW month
  PROVE  /\ RowsOf(s, month) \in Seq(X)
         /\ Joins(RowsOf(s, month), RowsOf(t, month), RowsOf(both, month))
<1> DEFINE m == Len(s)
           n == Len(t)
<1>1. /\ m \in Nat /\ n \in Nat /\ both \in Seq(X) /\ Len(both) = m + n
      /\ \A i \in 1..m : both[i] = s[i]
      /\ \A i \in 1..n : both[m + i] = t[i]
      /\ \A i \in 1..n : t[i] \in X
  <2>1. m \in Nat /\ n \in Nat /\ \A i \in 1..n : t[i] \in X
    BY LenProperties, ElementOfSeq
  <2>2. /\ both \in Seq(X) /\ Len(both) = m + n
        /\ \A i \in 1..(m + n) : both[i] = IF i <= m THEN s[i] ELSE t[i - m]
    BY ConcatProperties DEF Joins
  <2> HIDE DEF m, n
  <2>3. \A i \in 1..m : i \in 1..(m + n) /\ i <= m
    BY <2>1
  <2>4. \A i \in 1..n : m + i \in 1..(m + n) /\ ~ (m + i <= m) /\ (m + i) - m = i
    BY <2>1
  <2> QED
    BY <2>1, <2>2, <2>3, <2>4
<1>2. PICK f : Scans(f, s, month, X)
  BY ScanExists
<1>3. PICK g : Scans(g, t, month, X)
  BY ScanExists
<1>4. PICK h : Scans(h, both, month, X)
  <2> QED
    BY <1>1, ScanExists
<1>f. /\ f \in [0..m -> Seq(X)] /\ f[0] = <<>> /\ f[m] = RowsOf(s, month)
      /\ \A i \in 1..m : f[i] = IF s[i].month = month THEN Append(f[i - 1], s[i]) ELSE f[i - 1]
  BY <1>2 DEF Scans
<1>g. /\ g \in [0..n -> Seq(X)] /\ g[0] = <<>> /\ g[n] = RowsOf(t, month)
      /\ \A i \in 1..n : g[i] = IF t[i].month = month THEN Append(g[i - 1], t[i]) ELSE g[i - 1]
  BY <1>3 DEF Scans
<1>h. /\ h[0] = <<>> /\ h[m + n] = RowsOf(both, month)
      /\ \A i \in 1..(m + n) :
           h[i] = IF both[i].month = month THEN Append(h[i - 1], both[i]) ELSE h[i - 1]
  BY <1>1, <1>4 DEF Scans
<1> HIDE DEF m, n
<1>5. \A i \in Nat : i <= m => h[i] = f[i]
  <2> DEFINE Good == {i \in Nat : i <= m => h[i] = f[i]}
  <2>1. 0 \in Good
    BY <1>f, <1>h
  <2>2. ASSUME NEW i \in Nat, i \in Good PROVE i + 1 \in Good
    <3> SUFFICES ASSUME i + 1 <= m PROVE h[i + 1] = f[i + 1]
      OBVIOUS
    <3>1. h[i] = f[i] /\ i + 1 \in 1..m /\ i + 1 \in 1..(m + n) /\ (i + 1) - 1 = i
      BY <1>1, <2>2
    <3> QED
      BY <3>1, <1>1, <1>f, <1>h
  <2>3. Nat \subseteq Good
    <3> HIDE DEF Good
    <3> QED
      BY <2>1, <2>2, NatSetInduction
  <2> QED
    BY <2>3
<1>6. h[m] = RowsOf(s, month) /\ RowsOf(s, month) \in Seq(X)
  BY <1>1, <1>5, <1>f
<1>7. \A i \in Nat : i <= n => Joins(h[m], g[i], h[m + i])
  <2> DEFINE Good == {i \in Nat : i <= n => Joins(h[m], g[i], h[m + i])}
  <2>1. 0 \in Good
    <3>1. m + 0 = m
      BY <1>1
    <3>2. h[m] = h[m] \o <<>>
      BY <1>6, ConcatEmptySeq
    <3> QED
      BY <1>g, <3>1, <3>2 DEF Joins
  <2>2. ASSUME NEW i \in Nat, i \in Good PROVE i + 1 \in Good
    <3> SUFFICES ASSUME i + 1 <= n PROVE Joins(h[m], g[i + 1], h[m + (i + 1)])
      OBVIOUS
    <3>1. /\ i + 1 \in 1..n /\ (i + 1) - 1 = i /\ i \in 0..n /\ i <= n
          /\ m + (i + 1) \in 1..(m + n) /\ (m + (i + 1)) - 1 = m + i
      BY <1>1
    <3>2. Joins(h[m], g[i], h[m + i])
      BY <2>2, <3>1
    <3>3. both[m + (i + 1)] = t[i + 1] /\ t[i + 1] \in X /\ g[i] \in Seq(X)
      BY <1>1, <1>g, <3>1
    <3>4. Joins(h[m], Append(g[i], t[i + 1]), Append(h[m + i], t[i + 1]))
      BY <1>6, <3>2, <3>3, AppendInside
    <3>5. h[m + (i + 1)] = IF t[i + 1].month = month THEN Append(h[m + i], t[i + 1]) ELSE h[m + i]
      BY <3>1, <3>3, <1>h
    <3>6. g[i + 1] = IF t[i + 1].month = month THEN Append(g[i], t[i + 1]) ELSE g[i]
      BY <3>1, <1>g
    <3> QED
      BY <3>2, <3>4, <3>5, <3>6
  <2>3. Nat \subseteq Good
    <3> HIDE DEF Good
    <3> QED
      BY <2>1, <2>2, NatSetInduction
  <2> QED
    BY <2>3
<1>8. n <= n
  BY <1>1
<1> QED
  BY <1>1, <1>6, <1>7, <1>8, <1>g, <1>h

LEMMA RowsOfNone ==
  ASSUME NEW X, NEW s \in Seq(X), NEW month, \A i \in 1..Len(s) : s[i].month # month
  PROVE  RowsOf(s, month) = <<>>
<1>1. Len(s) \in Nat
  BY LenProperties
<1>2. PICK f : Scans(f, s, month, X)
  BY ScanExists
<1>3. /\ f[0] = <<>> /\ f[Len(s)] = RowsOf(s, month)
      /\ \A i \in 1..Len(s) : f[i] = f[i - 1]
  BY <1>2 DEF Scans
<1> DEFINE Good == {i \in Nat : i <= Len(s) => f[i] = <<>>}
<1>4. 0 \in Good
  BY <1>3
<1>5. ASSUME NEW i \in Nat, i \in Good PROVE i + 1 \in Good
  <2> SUFFICES ASSUME i + 1 <= Len(s) PROVE f[i + 1] = <<>>
    OBVIOUS
  <2>1. f[i] = <<>> /\ i + 1 \in 1..Len(s) /\ (i + 1) - 1 = i
    BY <1>1, <1>5
  <2> QED
    BY <2>1, <1>3
<1>6. Nat \subseteq Good
  <2> HIDE DEF Good
  <2> QED
    BY <1>4, <1>5, NatSetInduction
<1> QED
  BY <1>1, <1>3, <1>6

LEMMA RowsOfAll ==
  ASSUME NEW X, NEW s \in Seq(X), NEW month, \A i \in 1..Len(s) : s[i].month = month
  PROVE  RowsOf(s, month) = s
<1>1. Len(s) \in Nat /\ \A i \in 1..Len(s) : s[i] \in X
  BY LenProperties, ElementOfSeq
<1>2. PICK f : Scans(f, s, month, X)
  BY ScanExists
<1>3. /\ f \in [0..Len(s) -> Seq(X)] /\ f[0] = <<>> /\ f[Len(s)] = RowsOf(s, month)
      /\ \A i \in 1..Len(s) : f[i] = Append(f[i - 1], s[i])
  BY <1>2 DEF Scans
<1> DEFINE Like(n) == Len(f[n]) = n /\ \A i \in 1..n : f[n][i] = s[i]
           Good == {n \in Nat : n <= Len(s) => Like(n)}
<1>4. 0 \in Good
  BY <1>3, EmptySeq
<1>5. ASSUME NEW n \in Nat, n \in Good PROVE n + 1 \in Good
  <2> SUFFICES ASSUME n + 1 <= Len(s) PROVE Like(n + 1)
    OBVIOUS
  <2>1. n + 1 \in 1..Len(s) /\ (n + 1) - 1 = n /\ n \in 0..Len(s) /\ Like(n)
    BY <1>1, <1>5
  <2>2. f[n] \in Seq(X) /\ s[n + 1] \in X /\ f[n + 1] = Append(f[n], s[n + 1])
    BY <2>1, <1>1, <1>3
  <2>3. /\ Len(f[n + 1]) = n + 1 /\ f[n + 1][n + 1] = s[n + 1]
        /\ \A i \in 1..n : f[n + 1][i] = f[n][i]
    BY <2>1, <2>2, AppendProperties
  <2>4. \A i \in 1..(n + 1) : i \in 1..n \/ i = n + 1
    OBVIOUS
  <2> QED
    BY <2>1, <2>3, <2>4
<1>6. Nat \subseteq Good
  <2> HIDE DEF Good
  <2> QED
    BY <1>4, <1>5, NatSetInduction
<1>7. Like(Len(s)) /\ f[Len(s)] \in Seq(X)
  <2>1. Len(s) \in 0..Len(s)
    BY <1>1
  <2> QED
    BY <1>1, <1>3, <1>6, <2>1
<1> QED
  BY <1>3, <1>7, SeqEqual

\* The rows around a block of rows
IsCut(rows, start, count, above, block, below, X) ==
  /\ above \in Seq(X) /\ Len(above) = start - 1
  /\ \A i \in 1..(start - 1) : above[i] = rows[i]
  /\ block \in Seq(X) /\ Len(block) = count
  /\ \A i \in 1..count : block[i] = rows[start + i - 1]
  /\ below \in Seq(X) /\ Len(below) = Len(rows) - (start + count) + 1
  /\ \A i \in 1..(Len(rows) - (start + count) + 1) : below[i] = rows[start + count + i - 1]

LEMMA Cut ==
  ASSUME NEW X, NEW rows \in Seq(X), NEW start \in Nat \ {0}, NEW count \in Nat \ {0},
         start + count <= Len(rows) + 1
  PROVE  IsCut(rows, start, count, SubSeq(rows, 1, start - 1),
               SubSeq(rows, start, start + count - 1), SubSeq(rows, start + count, Len(rows)), X)
<1>1. Len(rows) \in Nat /\ \A i \in 1..Len(rows) : rows[i] \in X
  BY LenProperties, ElementOfSeq
<1> DEFINE above == SubSeq(rows, 1, start - 1)
           block == SubSeq(rows, start, start + count - 1)
           below == SubSeq(rows, start + count, Len(rows))
<1>2. /\ above \in Seq(X) /\ Len(above) = start - 1
      /\ \A i \in 1..(start - 1) : above[i] = rows[i]
  <2>1. start - 1 \in Int /\ \A i \in 1..(start - 1) : rows[i] \in X
    BY <1>1
  <2>2. /\ above \in Seq(X) /\ Len(above) = IF 1 <= start - 1 THEN (start - 1) - 1 + 1 ELSE 0
        /\ \A i \in 1..((start - 1) - 1 + 1) : above[i] = rows[1 + i - 1]
    BY <2>1, SubSeqProperties
  <2> HIDE DEF above
  <2> QED
    BY <2>2
<1>3. /\ block \in Seq(X) /\ Len(block) = count
      /\ \A i \in 1..count : block[i] = rows[start + i - 1]
  <2>1. start + count - 1 \in Int /\ \A i \in start..(start + count - 1) : rows[i] \in X
    BY <1>1
  <2> DEFINE end == start + count - 1
  <2>2. /\ block \in Seq(X) /\ Len(block) = IF start <= end THEN end - start + 1 ELSE 0
        /\ \A i \in 1..(end - start + 1) : block[i] = rows[start + i - 1]
    BY <2>1, SubSeqProperties
  <2>3. end - start + 1 = count /\ start <= end
    OBVIOUS
  <2> HIDE DEF block, end
  <2> QED
    BY <2>2, <2>3
<1>4. /\ below \in Seq(X) /\ Len(below) = Len(rows) - (start + count) + 1
      /\ \A i \in 1..(Len(rows) - (start + count) + 1) : below[i] = rows[start + count + i - 1]
  <2>1. start + count \in Int /\ \A i \in (start + count)..Len(rows) : rows[i] \in X
    BY <1>1
  <2> DEFINE first == start + count
             last == Len(rows)
  <2>2. first \in Int /\ last \in Int /\ \A i \in first..last : rows[i] \in X
    BY <1>1, <2>1
  <2>3. /\ below \in Seq(X) /\ Len(below) = IF first <= last THEN last - first + 1 ELSE 0
        /\ \A i \in 1..(last - first + 1) : below[i] = rows[first + i - 1]
    BY <2>2, SubSeqProperties
  <2>4. last - first + 1 = Len(rows) - (start + count) + 1 /\ last - first + 1 >= 0
    BY <1>1
  <2> HIDE DEF below
  <2> QED
    BY <2>2, <2>3, <2>4
<1>5. IsCut(rows, start, count, above, block, below, X)
  <2> HIDE DEF above, block, below
  <2> QED
    BY <1>2, <1>3, <1>4 DEF IsCut
<1> QED
  BY <1>5

\* A stretch of rows of one month
Interval(b) == b.start..(b.start + b.count - 1)
Stretch(b, rows, month) ==
  /\ b.start \in Nat \ {0} /\ b.count \in Nat \ {0} /\ b.start + b.count <= Len(rows) + 1
  /\ \A i \in Interval(b) : rows[i].month = month

\* What is left when a block goes, by position and by month
LEMMA Deleted ==
  ASSUME NEW X, NEW rows \in Seq(X), NEW b, NEW month, Stretch(b, rows, month)
  PROVE  /\ Without(rows, b) \in Seq(X) /\ Len(Without(rows, b)) = Len(rows) - b.count
         /\ \A i \in 1..(b.start - 1) : Without(rows, b)[i] = rows[i]
         /\ \A i \in b.start..(Len(rows) - b.count) : Without(rows, b)[i] = rows[i + b.count]
         /\ \A other : other # month => RowsOf(Without(rows, b), other) = RowsOf(rows, other)
         /\ RowsOf(rows, month) \in Seq(X) /\ RowsOf(Without(rows, b), month) \in Seq(X)
         /\ Len(RowsOf(Without(rows, b), month)) = Len(RowsOf(rows, month)) - b.count
<1> DEFINE start == b.start
           count == b.count
           above == SubSeq(rows, 1, start - 1)
           block == SubSeq(rows, start, start + count - 1)
           below == SubSeq(rows, start + count, Len(rows))
           rest == above \o below
           tail == block \o below
<1>1. start \in Nat \ {0} /\ count \in Nat \ {0} /\ start + count <= Len(rows) + 1 /\ Len(rows) \in Nat
  BY LenProperties DEF Stretch
<1>2. \A i \in start..(start + count - 1) : rows[i].month = month
  BY DEF Stretch, Interval
<1>3. Without(rows, b) = rest
  BY DEF Without
<1> HIDE DEF start, count
<1>4. /\ above \in Seq(X) /\ Len(above) = start - 1
      /\ \A i \in 1..(start - 1) : above[i] = rows[i]
      /\ block \in Seq(X) /\ Len(block) = count
      /\ \A i \in 1..count : block[i] = rows[start + i - 1]
      /\ below \in Seq(X) /\ Len(below) = Len(rows) - (start + count) + 1
      /\ \A i \in 1..(Len(rows) - (start + count) + 1) : below[i] = rows[start + count + i - 1]
  <2>1. IsCut(rows, start, count, above, block, below, X)
    BY <1>1, Cut
  <2> HIDE DEF above, block, below
  <2> QED
    BY <2>1 DEF IsCut
<1> HIDE DEF above, block, below
<1>5. /\ rest \in Seq(X) /\ Len(rest) = Len(above) + Len(below)
      /\ \A i \in 1..(Len(above) + Len(below)) :
           rest[i] = IF i <= Len(above) THEN above[i] ELSE below[i - Len(above)]
  BY <1>4, ConcatProperties
<1>6. /\ tail \in Seq(X) /\ Len(tail) = Len(block) + Len(below)
      /\ \A i \in 1..(Len(block) + Len(below)) :
           tail[i] = IF i <= Len(block) THEN block[i] ELSE below[i - Len(block)]
  BY <1>4, ConcatProperties
<1> HIDE DEF rest, tail
<1>7. Len(rest) = Len(rows) - count
  BY <1>1, <1>4, <1>5
<1>8. ASSUME NEW i \in 1..(start - 1) PROVE rest[i] = rows[i]
  <2>1. i \in 1..(Len(above) + Len(below)) /\ i <= Len(above)
    BY <1>1, <1>4
  <2> QED
    BY <2>1, <1>4, <1>5
<1>9. ASSUME NEW i \in start..(Len(rows) - count) PROVE rest[i] = rows[i + count]
  <2> DEFINE k == i - Len(above)
  <2>1. i \in 1..(Len(above) + Len(below)) /\ ~ (i <= Len(above))
    BY <1>1, <1>4
  <2>2. k \in 1..(Len(rows) - (start + count) + 1) /\ start + count + k - 1 = i + count
    BY <1>1, <1>4
  <2>3. rest[i] = below[k]
    BY <2>1, <1>5
  <2> HIDE DEF k
  <2>4. below[k] = rows[start + count + k - 1]
    BY <2>2, <1>4
  <2> QED
    BY <2>2, <2>3, <2>4
<1>10. rows = above \o tail
  <2> DEFINE whole == above \o tail
  <2>0. /\ Len(above) = start - 1 /\ Len(block) = count
        /\ Len(below) = Len(rows) - (start + count) + 1 /\ Len(tail) = Len(block) + Len(below)
    BY <1>4, <1>6
  <2>a. above \in Seq(X) /\ tail \in Seq(X)
    BY <1>4, <1>6
  <2>1. /\ whole \in Seq(X) /\ Len(whole) = Len(above) + Len(tail)
        /\ \A i \in 1..(Len(above) + Len(tail)) :
             whole[i] = IF i <= Len(above) THEN above[i] ELSE tail[i - Len(above)]
    BY <2>a, ConcatProperties
  <2> HIDE DEF whole
  <2>2. Len(whole) = Len(rows)
    BY <2>1, <1>1, <1>4, <1>6
  <2>3. ASSUME NEW i \in 1..Len(rows) PROVE rows[i] = whole[i]
    <3>1. CASE i <= Len(above)
      <4>1. i \in 1..(Len(above) + Len(tail)) /\ i \in 1..(start - 1)
        BY <3>1, <2>1, <2>2, <1>1, <1>4
      <4> QED
        BY <4>1, <3>1, <2>1, <1>4
    <3>2. CASE i > Len(above) /\ i <= Len(above) + Len(block)
      <4> DEFINE k == i - Len(above)
      <4>1. /\ i \in 1..(Len(above) + Len(tail)) /\ ~ (i <= Len(above))
            /\ k \in 1..(Len(block) + Len(below)) /\ k <= Len(block)
            /\ k \in 1..count /\ start + k - 1 = i
        BY <3>2, <2>0, <1>1
      <4>2. whole[i] = tail[k]
        BY <4>1, <2>1
      <4> HIDE DEF k
      <4>3. tail[k] = block[k] /\ block[k] = rows[start + k - 1]
        BY <4>1, <1>4, <1>6
      <4> QED
        BY <4>1, <4>2, <4>3
    <3>3. CASE i > Len(above) + Len(block)
      <4> DEFINE k == i - Len(above)
                 l == k - Len(block)
      <4>1. /\ i \in 1..(Len(above) + Len(tail)) /\ ~ (i <= Len(above))
            /\ k \in 1..(Len(block) + Len(below)) /\ ~ (k <= Len(block))
            /\ l \in 1..(Len(rows) - (start + count) + 1) /\ start + count + l - 1 = i
        BY <3>3, <2>0, <1>1
      <4>2. whole[i] = tail[k]
        BY <4>1, <2>1
      <4> HIDE DEF k
      <4>3. tail[k] = below[l]
        BY <4>1, <1>6
      <4> HIDE DEF l
      <4>4. below[l] = rows[start + count + l - 1]
        BY <4>1, <1>4
      <4> QED
        BY <4>1, <4>2, <4>3, <4>4
    <3> QED
      BY <3>1, <3>2, <3>3, <1>1, <1>4
  <2>4. rows = whole
    BY <2>1, <2>2, <2>3, SeqEqual
  <2> QED
    BY <2>4 DEF whole
<1>a. Joins(above, tail, rows) /\ Joins(block, below, tail) /\ Joins(above, below, rest)
  BY <1>10 DEF Joins, tail, rest
<1>11. ASSUME NEW m
       PROVE  /\ Joins(RowsOf(above, m), RowsOf(tail, m), RowsOf(rows, m))
              /\ Joins(RowsOf(block, m), RowsOf(below, m), RowsOf(tail, m))
              /\ Joins(RowsOf(above, m), RowsOf(below, m), RowsOf(rest, m))
              /\ RowsOf(above, m) \in Seq(X) /\ RowsOf(below, m) \in Seq(X)
              /\ RowsOf(block, m) \in Seq(X)
  <2>1. above \in Seq(X) /\ block \in Seq(X) /\ below \in Seq(X) /\ tail \in Seq(X)
    BY <1>4, <1>6
  <2>2. Joins(RowsOf(above, m), RowsOf(tail, m), RowsOf(rows, m)) /\ RowsOf(above, m) \in Seq(X)
    BY <1>a, <2>1, RowsOfConcat
  <2>3. Joins(RowsOf(block, m), RowsOf(below, m), RowsOf(tail, m)) /\ RowsOf(block, m) \in Seq(X)
    BY <1>a, <2>1, RowsOfConcat
  <2>4. Joins(RowsOf(above, m), RowsOf(below, m), RowsOf(rest, m))
    BY <1>a, <2>1, RowsOfConcat
  <2>5. Joins(below, <<>>, below)
    BY <2>1, ConcatEmptySeq DEF Joins
  <2>6. RowsOf(below, m) \in Seq(X)
    BY <2>1, <2>5, EmptySeq, RowsOfConcat
  <2> QED
    BY <2>2, <2>3, <2>4, <2>6
<1>12. \A i \in 1..Len(block) : block[i].month = month
  <2> SUFFICES ASSUME NEW i \in 1..Len(block) PROVE block[i].month = month
    OBVIOUS
  <2>1. i \in 1..count /\ start + i - 1 \in start..(start + count - 1)
    BY <1>1, <1>4
  <2> QED
    BY <2>1, <1>2, <1>4
<1>13. RowsOf(block, month) = block
  BY <1>4, <1>12, RowsOfAll
<1>14. ASSUME NEW other, other # month PROVE RowsOf(rest, other) = RowsOf(rows, other)
  <2>1. RowsOf(block, other) = <<>>
    BY <1>4, <1>12, <1>14, RowsOfNone
  <2> DEFINE part == RowsOf(below, other)
  <2>2. part \in Seq(X) /\ Joins(<<>>, part, RowsOf(tail, other))
    BY <1>11, <2>1
  <2> HIDE DEF part
  <2>3. <<>> \o part = part
    BY <2>2, ConcatEmptySeq
  <2>4. RowsOf(tail, other) = RowsOf(below, other)
    BY <2>2, <2>3 DEF Joins, part
  <2>5. /\ Joins(RowsOf(above, other), RowsOf(below, other), RowsOf(rest, other))
        /\ Joins(RowsOf(above, other), RowsOf(below, other), RowsOf(rows, other))
    BY <1>11, <2>4
  <2> QED
    BY <2>5 DEF Joins
<1>15. /\ RowsOf(rows, month) \in Seq(X) /\ RowsOf(rest, month) \in Seq(X)
       /\ Len(RowsOf(rest, month)) = Len(RowsOf(rows, month)) - count
  <2> DEFINE a == RowsOf(above, month)
             c == RowsOf(below, month)
             bc == block \o c
  <2>1. /\ a \in Seq(X) /\ c \in Seq(X) /\ RowsOf(rest, month) = a \o c
        /\ RowsOf(rows, month) = a \o bc
    BY <1>11, <1>13 DEF Joins
  <2> HIDE DEF a, c
  <2>2. bc \in Seq(X) /\ Len(bc) = Len(block) + Len(c)
    BY <2>1, <1>4, ConcatProperties
  <2> HIDE DEF bc
  <2>3. /\ a \o c \in Seq(X) /\ Len(a \o c) = Len(a) + Len(c)
        /\ a \o bc \in Seq(X) /\ Len(a \o bc) = Len(a) + Len(bc)
    BY <2>1, <2>2, ConcatProperties
  <2>4. Len(a) \in Nat /\ Len(c) \in Nat
    BY <2>1, LenProperties
  <2> QED
    BY <2>1, <2>2, <2>3, <2>4, <1>1, <1>4
<1> QED
  BY <1>3, <1>5, <1>7, <1>8, <1>9, <1>14, <1>15 DEF start, count

-----------------------------------------------------------------------------
(* The blocks of one month *)

\* The blocks hold exactly the rows of the month, each in one of them
Tiles(blocks, rows, month) ==
  /\ \A b \in blocks : /\ b.start \in Nat \ {0} /\ b.count \in Nat \ {0}
                       /\ b.start + b.count <= Len(rows) + 1
  /\ \A i \in 1..Len(rows) : rows[i].month = month <=> \E b \in blocks : i \in Interval(b)
  /\ \A b, c \in blocks : \/ b = c \/ b.start + b.count <= c.start
                          \/ c.start + c.count <= b.start

\* findQboGeneralLedgerPeriodBlock_ finds such blocks
LEMMA BlocksTile ==
  ASSUME NEW X, store \in Seq(X), NEW month
  PROVE  Tiles(Blocks(month), store, month)
<1> DEFINE N == Len(store)
           mine == {i \in DOMAIN store : store[i].month = month}
           blocks == Blocks(month)
<1>1. N \in Nat /\ DOMAIN store = 1..N /\ mine \subseteq 1..N
  BY LenProperties
<1>2. blocks = {b \in [start : mine, count : 1..N] :
                  /\ Interval(b) \subseteq mine
                  /\ b.start - 1 \notin mine /\ b.start + b.count \notin mine}
  BY DEF Blocks, Interval
<1>3. \A i \in 1..N : i \in mine <=> store[i].month = month
  BY <1>1
<1> HIDE DEF mine, blocks
<1>4. ASSUME NEW b \in blocks
      PROVE  /\ b.start \in mine /\ b.start \in 1..N /\ b.count \in 1..N
             /\ Interval(b) \subseteq mine
             /\ b.start - 1 \notin mine /\ b.start + b.count \notin mine
  BY <1>1, <1>2
<1>5. ASSUME NEW b \in blocks PROVE b.start + b.count <= N + 1
  <2>1. b.start + b.count - 1 \in Interval(b)
    BY <1>1, <1>4, <1>5 DEF Interval
  <2>2. b.start + b.count - 1 \in 1..N
    BY <2>1, <1>1, <1>4, <1>5
  <2>3. b.start \in Int /\ b.count \in Int
    BY <1>4, <1>5
  <2> QED
    BY <2>2, <2>3, <1>1
<1>6. ASSUME NEW i \in mine PROVE \E b \in blocks : i \in Interval(b)
  <2>0. i \in 1..N
    BY <1>1
  <2> DEFINE S == {s \in 1..i : s..i \subseteq mine}
             T == {t \in Nat : t > i /\ t \notin mine}
  <2>1. PICK s \in S : \A r \in S : s <= r
    <3>1. i \in S /\ S \subseteq Nat
      BY <2>0
    <3> HIDE DEF S
    <3> QED
      BY <3>1, LeastOf
  <2>2. PICK t \in T : \A r \in T : t <= r
    <3>1. N + 1 \in T
      BY <2>0, <1>1
    <3> QED
      BY <3>1, LeastOf
  <2>3. s \in 1..i /\ s..i \subseteq mine /\ t \in Nat /\ t > i /\ t \notin mine
    OBVIOUS
  <2>4. s - 1 \notin mine
    <3> SUFFICES ASSUME s - 1 \in mine PROVE FALSE
      OBVIOUS
    <3>1. s - 1 \in 1..i
      BY <1>1, <2>0, <2>3
    <3>2. (s - 1)..i \subseteq mine
      <4>1. \A k \in (s - 1)..i : k = s - 1 \/ k \in s..i
        BY <2>3, <2>0
      <4> QED
        BY <4>1, <2>3
    <3>3. s - 1 \in S
      BY <3>1, <3>2
    <3> HIDE DEF S
    <3> QED
      BY <3>3, <2>1, <2>3, <2>0
  <2>5. s..(t - 1) \subseteq mine
    <3> SUFFICES ASSUME NEW k \in s..(t - 1) PROVE k \in mine
      OBVIOUS
    <3>1. CASE k <= i
      BY <3>1, <2>0, <2>3
    <3>2. CASE k > i
      <4>1. k \in Nat /\ ~ (t <= k)
        BY <2>0, <2>3
      <4>2. k \notin T
        <5> HIDE DEF T
        <5> QED
          BY <4>1, <2>2
      <4> QED
        BY <4>1, <4>2, <3>2
    <3> QED
      BY <3>1, <3>2, <2>0, <2>3
  <2>6. t <= N + 1
    <3>1. N + 1 \in T
      BY <2>0, <1>1
    <3> HIDE DEF T
    <3> QED
      BY <3>1, <2>2
  <2> DEFINE b == [start |-> s, count |-> t - s]
  <2> HIDE DEF S, T
  <2>7. s \in mine /\ t - s \in 1..N /\ s + (t - s) - 1 = t - 1 /\ s + (t - s) = t
    BY <2>0, <2>3, <2>6, <1>1
  <2>8. Interval(b) = s..(t - 1)
    BY <2>7 DEF Interval
  <2>9. b \in blocks
    BY <2>3, <2>4, <2>5, <2>7, <2>8, <1>2
  <2>10. i \in Interval(b)
    BY <2>0, <2>3, <2>8
  <2> QED
    BY <2>9, <2>10
<1>7. ASSUME NEW b \in blocks, NEW c \in blocks, b.start <= c.start, ~ (b.start + b.count <= c.start)
      PROVE  b = c
  <2> DEFINE s == b.start
             n == b.count
             m == c.count
  <2>0. s \in 1..N /\ c.start \in 1..N /\ n \in 1..N /\ m \in 1..N
    BY <1>4, <1>7
  <2>1. c.start = s
    <3> SUFFICES ASSUME s < c.start PROVE FALSE
      BY <2>0, <1>7
    <3>1. c.start - 1 \in Interval(b)
      BY <2>0, <1>1, <1>7 DEF Interval
    <3> QED
      BY <3>1, <1>4, <1>7
  <2>2. ~ (n < m)
    <3> SUFFICES ASSUME n < m PROVE FALSE
      OBVIOUS
    <3>1. s + n \in Interval(c)
      BY <2>0, <2>1, <1>1 DEF Interval
    <3> QED
      BY <3>1, <1>4, <1>7
  <2>3. ~ (m < n)
    <3> SUFFICES ASSUME m < n PROVE FALSE
      OBVIOUS
    <3>1. c.start + m \in Interval(b)
      BY <2>0, <2>1, <1>1 DEF Interval
    <3> QED
      BY <3>1, <1>4, <1>7
  <2>4. b \in [start : mine, count : 1..N] /\ c \in [start : mine, count : 1..N]
    BY <1>2
  <2> QED
    BY <2>0, <2>1, <2>2, <2>3, <2>4, <1>1
<1>8. ASSUME NEW b \in blocks, NEW c \in blocks
      PROVE  b = c \/ b.start + b.count <= c.start \/ c.start + c.count <= b.start
  <2>1. b.start <= c.start \/ c.start <= b.start
    BY <1>4, <1>1
  <2> QED
    BY <2>1, <1>7
<1>9. \A i \in 1..N : store[i].month = month <=> \E b \in blocks : i \in Interval(b)
  BY <1>3, <1>4, <1>6
<1>10. \A b \in blocks : /\ b.start \in Nat \ {0} /\ b.count \in Nat \ {0}
                         /\ b.start + b.count <= N + 1
  BY <1>4, <1>5
<1> QED
  BY <1>8, <1>9, <1>10 DEF Tiles, blocks

\* After the lowest block has gone the others are still at their place
LEMMA DeleteTiles ==
  ASSUME NEW X, NEW rows \in Seq(X), NEW blocks, NEW month, Tiles(blocks, rows, month),
         NEW b \in blocks, \A other \in blocks : other.start <= b.start
  PROVE  /\ Tiles(blocks \ {b}, Without(rows, b), month)
         /\ Stretch(b, rows, month)
<1> DEFINE rest == Without(rows, b)
           start == b.start
           count == b.count
           N == Len(rows)
<1>1. /\ start \in Nat \ {0} /\ count \in Nat \ {0} /\ start + count <= N + 1
  BY DEF Tiles
<1>2. N \in Nat
  BY LenProperties
<1>3. Stretch(b, rows, month)
  <2> SUFFICES ASSUME NEW i \in Interval(b) PROVE rows[i].month = month
    BY <1>1 DEF Stretch
  <2>1. i \in 1..N
    BY <1>1, <1>2 DEF Interval
  <2> QED
    BY <2>1 DEF Tiles
<1>4. /\ Len(rest) = N - count
      /\ \A i \in 1..(start - 1) : rest[i] = rows[i]
      /\ \A i \in start..(N - count) : rest[i] = rows[i + count]
  <2>1. /\ Len(Without(rows, b)) = Len(rows) - b.count
        /\ \A i \in 1..(b.start - 1) : Without(rows, b)[i] = rows[i]
        /\ \A i \in b.start..(Len(rows) - b.count) : Without(rows, b)[i] = rows[i + b.count]
    BY <1>3, Deleted
  <2> QED
    BY <2>1
<1> HIDE DEF rest
<1>5. ASSUME NEW c \in blocks \ {b}
      PROVE  c.start \in Nat \ {0} /\ c.count \in Nat \ {0} /\ c.start + c.count <= start
  <2>1. c.start \in Nat \ {0} /\ c.count \in Nat \ {0} /\ c.start <= start
    BY DEF Tiles
  <2>2. start + count <= c.start \/ c.start + c.count <= start
    BY DEF Tiles
  <2> QED
    BY <2>1, <2>2, <1>1
<1>6. ASSUME NEW c \in blocks \ {b} PROVE c.start + c.count <= Len(rest) + 1
  BY <1>1, <1>2, <1>4, <1>5
<1>7. ASSUME NEW i \in 1..Len(rest)
      PROVE  rest[i].month = month <=> \E c \in blocks \ {b} : i \in Interval(c)
  <2>1. CASE i < start
    <3>1. i \in 1..N /\ i \in 1..(start - 1)
      BY <2>1, <1>1, <1>2
    <3>2. i \notin Interval(b)
      BY <2>1, <1>1 DEF Interval
    <3>3. rest[i] = rows[i]
      BY <3>1, <1>4
    <3>4. rows[i].month = month <=> \E c \in blocks : i \in Interval(c)
      BY <3>1 DEF Tiles
    <3> QED
      BY <3>2, <3>3, <3>4
  <2>2. CASE i >= start
    <3> DEFINE k == i + count
    <3>1. k \in 1..N /\ i \in start..(N - count) /\ k >= start + count
      BY <2>2, <1>1, <1>2, <1>4
    <3>2. \A c \in blocks \ {b} : i \notin Interval(c) /\ k \notin Interval(c)
      BY <2>2, <1>1, <1>5 DEF Interval
    <3>3. k \notin Interval(b)
      BY <3>1, <1>1 DEF Interval
    <3>4. rest[i] = rows[k]
      BY <3>1, <1>4
    <3> HIDE DEF k
    <3>5. rows[k].month = month <=> \E c \in blocks : k \in Interval(c)
      BY <3>1 DEF Tiles
    <3> QED
      BY <3>2, <3>3, <3>4, <3>5
  <2> QED
    BY <2>1, <2>2, <1>1
<1>8. \A c, d \in blocks \ {b} : \/ c = d \/ c.start + c.count <= d.start
                                 \/ d.start + d.count <= c.start
  BY DEF Tiles
<1>9. Tiles(blocks \ {b}, rest, month)
  BY <1>5, <1>6, <1>7, <1>8 DEF Tiles
<1> QED
  BY <1>3, <1>9 DEF rest

\* Without a block there is no row of the month
LEMMA NoTiles ==
  ASSUME NEW X, NEW rows \in Seq(X), NEW month, Tiles({}, rows, month)
  PROVE  RowsOf(rows, month) = <<>>
<1>1. \A i \in 1..Len(rows) : rows[i].month # month
  BY DEF Tiles
<1> QED
  BY <1>1, RowsOfNone

-----------------------------------------------------------------------------
(* Types *)

RowType(n) == [run : 0..n, month : Nat]
ExtractType == [month : Nat, rows : Seq(LedgerRow), by : 0..MaxStarts]
PairType(n) == [prior : 1..n, current : 1..n]
JobType(n) ==
  [by : 0..MaxStarts, month : Nat, last : 0..Months, prior : 0..n, run : 0..n,
   blocks : SUBSET [start : Nat \ {0}, count : Nat \ {0}], target : Nat, failed : BOOLEAN]
ChainType ==
  [run : 0..MaxStarts, first : 0..Months, last : 0..Months, month : Nat, done : Nat,
   status : Statuses]

\* Where the report of this execution has a number ...
AtWrite == {"lease", "locate", "delete", "append", "snapshot", "release", "target", "record",
            "verify"}
\* ... and where two reports are compared
AtCompare == {"compare", "persist"}

SheetTypes ==
  /\ extracts \in Seq(ExtractType) /\ store \in Seq(RowType(Len(extracts)))
  /\ lease \in 0..Len(extracts) /\ snapshots \subseteq 1..Len(extracts)
  /\ registry \in Seq(1..Len(extracts)) /\ changes \in Seq(PairType(Len(extracts)))
ChainTypes == backfill \in ChainType /\ triggers \in Nat
CountTypes == calls \in 0..MaxCalls + 1 /\ faults \in 0..MaxFaults /\ lost \in BOOLEAN
LocalTypes == pc \in [Execs -> Pcs] /\ job \in [Execs -> JobType(Len(extracts))]

\* The local variables that mean something at a place, and the rows found for a write
Placeable ==
  \A e \in Execs :
    /\ pc[e] \in AtWrite \union AtCompare => job[e].run # 0
    /\ pc[e] \in AtCompare => job[e].prior # 0
    /\ pc[e] = "record" => job[e].target \in 1..(Len(registry) + 1)
    /\ pc[e] = "persist" => job[e].target \in 1..(Len(changes) + 1)

Typed == SheetTypes /\ ChainTypes /\ CountTypes /\ LocalTypes /\ Placeable

LEMMA SeqWidens ==
  ASSUME NEW A, NEW B, A \subseteq B, NEW s \in Seq(A)
  PROVE  s \in Seq(B)
<1>1. Len(s) \in Nat /\ s \in [1..Len(s) -> A]
  BY LenProperties
<1> QED
  BY <1>1

LEMMA TypesWiden ==
  ASSUME NEW m \in Nat, NEW n \in Nat, m <= n
  PROVE  /\ RowType(m) \subseteq RowType(n) /\ PairType(m) \subseteq PairType(n)
         /\ JobType(m) \subseteq JobType(n) /\ 1..m \subseteq 1..n
BY DEF RowType, PairType, JobType

\* The latest line of a month is a line of that month
LEMMA LatestLine ==
  ASSUME NEW n \in Nat, NEW lines \in Seq(1..n), NEW month
  PROVE  \/ Latest(month, lines) = 0
         \/ \E i \in 1..Len(lines) : /\ Latest(month, lines) = lines[i] /\ lines[i] \in 1..n
                                     /\ extracts[lines[i]].month = month
<1> DEFINE N == Len(lines)
           own == {i \in DOMAIN lines : extracts[lines[i]].month = month}
<1>1. N \in Nat /\ DOMAIN lines = 1..N /\ \A i \in 1..N : lines[i] \in 1..n
  BY LenProperties, ElementOfSeq
<1>2. CASE own = {}
  BY <1>2 DEF Latest
<1>3. CASE own # {}
  <2> DEFINE S == {N - i : i \in own}
  <2>1. S \subseteq Nat /\ S # {}
    BY <1>1, <1>3
  <2>2. PICK x \in S : \A y \in S : x <= y
    <3> HIDE DEF S
    <3> QED
      BY <2>1, LeastOf
  <2>3. PICK m \in own : x = N - m
    OBVIOUS
  <2>4. \A i \in own : m >= i
    <3> SUFFICES ASSUME NEW i \in own PROVE m >= i
      OBVIOUS
    <3>1. x <= N - i
      BY <2>2
    <3>2. i \in 1..N /\ m \in 1..N
      BY <1>1
    <3> QED
      BY <3>1, <3>2, <2>3, <1>1
  <2> HIDE DEF own, S
  <2>5. Max(own) \in own
    BY <2>4 DEF Max
  <2>6. Latest(month, lines) = lines[Max(own)]
    BY <1>3 DEF Latest, own
  <2> QED
    BY <2>5, <2>6, <1>1 DEF own
<1> QED
  BY <1>2, <1>3

\* How many rows a comparison has
LEMMA ChangesCounted ==
  ASSUME NEW prior \in Seq(LedgerRow), NEW current \in Seq(LedgerRow)
  PROVE  Cardinality(Changes(prior, current)) \in Nat
<1>1. Len(prior) \in Nat /\ Len(current) \in Nat
  BY LenProperties
<1>2. IsFiniteSet(Changes(prior, current))
  BY <1>1, AllPaired, PairsFinite
<1> QED
  BY <1>2, FS_CardinalityType

LEMMA ReturnedRows ==
  ASSUME NEW n \in Nat \ {0}, NEW report \in Returned(n)
  PROVE  report \in Seq(LedgerRow)
<1> DEFINE i == IF n <= Len(Reports) THEN n ELSE Len(Reports)
<1>1. Len(Reports) \in Nat /\ Len(Reports) # 0
  BY ReportsAreRows, EmptySeq, LenProperties
<1>2. i \in 1..Len(Reports)
  BY <1>1
<1>3. Reports[i] \in SUBSET Seq(LedgerRow)
  <2> HIDE DEF i
  <2> QED
    BY <1>2, ReportsAreRows, ElementOfSeq
<1> QED
  BY <1>3 DEF Returned

\* What an execution may do next
Acts(e) ==
  \/ Progress(e) \/ WorkerFires(e) \/ CompareCalled(e) \/ Crash(e)
  \/ \E month \in 1..Months : ExportCalled(e, month)

\* An execution goes on to a place with local variables of their types
Turns(e) ==
  \E label \in Pcs, j \in JobType(Len(extracts)) :
    pc' = [pc EXCEPT ![e] = label] /\ (job' = [job EXCEPT ![e] = j] \/ job' = job)

LEMMA JobFields ==
  ASSUME NEW n, NEW j \in JobType(n)
  PROVE  /\ j.by \in 0..MaxStarts /\ j.month \in Nat /\ j.last \in 0..Months
         /\ j.prior \in 0..n /\ j.run \in 0..n
         /\ j.blocks \in SUBSET [start : Nat \ {0}, count : Nat \ {0}]
         /\ j.target \in Nat /\ j.failed \in BOOLEAN
BY DEF JobType

LEMMA JobsBuilt ==
  ASSUME NEW n \in Nat
  PROVE  /\ NoJob \in JobType(n)
         /\ \A j \in JobType(n) : [j EXCEPT !.failed = TRUE] \in JobType(n)
         /\ \A j \in JobType(n), k \in Nat : [j EXCEPT !.target = k] \in JobType(n)
         /\ \A j \in JobType(n), r, q \in 0..n : [j EXCEPT !.run = r, !.prior = q] \in JobType(n)
         /\ \A j \in JobType(n), B \in SUBSET [start : Nat \ {0}, count : Nat \ {0}] :
              [j EXCEPT !.blocks = B] \in JobType(n)
         /\ \A m \in Nat : [NoJob EXCEPT !.month = m] \in JobType(n)
         /\ \A m \in Nat, q, r \in 0..n :
              [NoJob EXCEPT !.month = m, !.prior = q, !.run = r] \in JobType(n)
         /\ \A b \in 0..MaxStarts, m \in Nat, l \in 0..Months :
              [NoJob EXCEPT !.by = b, !.month = m, !.last = l] \in JobType(n)
<1>1. NoJob \in JobType(n)
  BY LedgerConstants DEF NoJob, JobType
<1> QED
  BY <1>1 DEF JobType

\* Every step of an execution but the fetching of a report is such a turn
LEMMA StepsTurn ==
  ASSUME Typed, NEW e \in Execs, Acts(e), ~ Fetch(e)
  PROVE  Turns(e)
<1> DEFINE N == Len(extracts)
<1>1. /\ N \in Nat /\ job[e] \in JobType(N) /\ job[e].month \in Nat /\ job[e].blocks \in SUBSET [start : Nat \ {0}, count : Nat \ {0}]
      /\ store \in Seq(RowType(N))
  <2>1. N \in Nat /\ job[e] \in JobType(N) /\ store \in Seq(RowType(N))
    BY LenProperties DEF Typed, SheetTypes, LocalTypes
  <2> QED
    BY <2>1, JobFields
<1>2. /\ NoJob \in JobType(N)
      /\ [job[e] EXCEPT !.failed = TRUE] \in JobType(N)
      /\ \A k \in Nat : [job[e] EXCEPT !.target = k] \in JobType(N)
      /\ \A B \in SUBSET [start : Nat \ {0}, count : Nat \ {0}] : [job[e] EXCEPT !.blocks = B] \in JobType(N)
  BY <1>1, JobsBuilt
<1> HIDE DEF N
<1> DEFINE Turned(label, j) ==
  pc' = [pc EXCEPT ![e] = label] /\ (job' = [job EXCEPT ![e] = j] \/ job' = job)
<1>3. ASSUME NEW label \in Pcs, NEW j \in JobType(N), Turned(label, j) PROVE Turns(e)
  BY <1>3 DEF Turns, N
<1>4. /\ Fail(e) => Turned("idle", NoJob) \/ Turned("error", NoJob)
      /\ Succeed(e) => Turned("idle", NoJob) \/ Turned("note", NoJob)
      /\ FailLocked(e) => Turned("release", [job[e] EXCEPT !.failed = TRUE])
  BY DEF Fail, Succeed, FailLocked, End, Goto, Remember
<1>5. {"idle", "error", "note", "release"} \subseteq Pcs
  BY DEF Pcs
<1>6. Fail(e) \/ Succeed(e) \/ FailLocked(e) => Turns(e)
  <2> HIDE DEF Turned
  <2> QED
    BY <1>2, <1>3, <1>4, <1>5
<1>7. CASE Acquire(e)
  <2>1. Turned("locate", NoJob) \/ Fail(e) \/ Succeed(e) \/ FailLocked(e)
    BY <1>7 DEF Acquire, Goto, Remember, End
  <2>2. "locate" \in Pcs
    BY DEF Pcs
  <2> HIDE DEF Turned
  <2> QED
    BY <1>2, <1>3, <1>6, <2>1, <2>2
<1>8. CASE Locate(e)
  <2>1. Turned("delete", [job[e] EXCEPT !.blocks = Blocks(job[e].month)]) \/ FailLocked(e)
    BY <1>8 DEF Locate, Goto, Remember
  <2>2. "delete" \in Pcs
    BY DEF Pcs
  <2>3. Blocks(job[e].month) \in SUBSET [start : Nat \ {0}, count : Nat \ {0}]
    <3> DEFINE mine == {i \in DOMAIN store : store[i].month = job[e].month}
    <3>1. Blocks(job[e].month) \subseteq [start : mine, count : 1..Len(store)]
      BY DEF Blocks
    <3>2. DOMAIN store = 1..Len(store) /\ Len(store) \in Nat
      BY <1>1, LenProperties
    <3>3. mine \subseteq Nat \ {0} /\ 1..Len(store) \subseteq Nat \ {0}
      BY <3>2
    <3> HIDE DEF mine
    <3> QED
      BY <3>1, <3>3
  <2>4. [job[e] EXCEPT !.blocks = Blocks(job[e].month)] \in JobType(N)
    BY <1>2, <2>3
  <2> HIDE DEF Turned
  <2> QED
    BY <1>3, <1>6, <2>1, <2>2, <2>4
<1>9. CASE Delete(e)
  <2>1. \/ \E b \in job[e].blocks : Turned("delete", [job[e] EXCEPT !.blocks = job[e].blocks \ {b}])
        \/ Turned("append", NoJob) \/ FailLocked(e)
    <3>1. CASE \E b \in job[e].blocks : Remember(e, [job[e] EXCEPT !.blocks = @ \ {b}]) /\ UNCHANGED pc
      <4>1. PICK b \in job[e].blocks : job' = [job EXCEPT ![e] = [job[e] EXCEPT !.blocks = job[e].blocks \ {b}]]
        BY <3>1 DEF Remember
      <4>2. pc' = [pc EXCEPT ![e] = "delete"]
        BY <3>1, <1>9 DEF Delete, Typed, LocalTypes
      <4> QED
        BY <4>1, <4>2
    <3>2. CASE Goto(e, "append") /\ UNCHANGED job
      BY <3>2 DEF Goto
    <3> QED
      BY <3>1, <3>2, <1>9 DEF Delete
  <2>2. {"delete", "append"} \subseteq Pcs
    BY DEF Pcs
  <2>3. \A b \in job[e].blocks : [job[e] EXCEPT !.blocks = job[e].blocks \ {b}] \in JobType(N)
    <3>1. \A b \in job[e].blocks : job[e].blocks \ {b} \in SUBSET [start : Nat \ {0}, count : Nat \ {0}]
      BY <1>1
    <3> QED
      BY <1>2, <3>1
  <2> HIDE DEF Turned
  <2> QED
    BY <1>2, <1>3, <1>6, <2>1, <2>2, <2>3
<1>10. CASE AppendRows(e)
  <2>1. Turned("snapshot", NoJob) \/ Fail(e) \/ Succeed(e) \/ FailLocked(e)
    BY <1>10 DEF AppendRows, Goto, Remember, End
  <2>2. "snapshot" \in Pcs
    BY DEF Pcs
  <2> HIDE DEF Turned
  <2> QED
    BY <1>2, <1>3, <1>6, <2>1, <2>2
<1>11. CASE Snapshot(e)
  <2>1. Turned("release", NoJob) \/ Fail(e) \/ Succeed(e) \/ FailLocked(e)
    BY <1>11 DEF Snapshot, Goto, Remember, End
  <2>2. "release" \in Pcs
    BY DEF Pcs
  <2> HIDE DEF Turned
  <2> QED
    BY <1>2, <1>3, <1>6, <2>1, <2>2
<1>12. CASE Release(e)
  <2>1. Turned("target", NoJob) \/ Fail(e) \/ Succeed(e) \/ FailLocked(e)
    BY <1>12 DEF Release, Goto, Remember, End
  <2>2. "target" \in Pcs
    BY DEF Pcs
  <2> HIDE DEF Turned
  <2> QED
    BY <1>2, <1>3, <1>6, <2>1, <2>2
<1>13. CASE Target(e)
  <2>1. Len(registry) + 1 \in Nat
    BY LenProperties DEF Typed, SheetTypes
  <2>2. Turned("record", [job[e] EXCEPT !.target = Len(registry) + 1])
    BY <1>13 DEF Target, Goto, Remember
  <2>3. "record" \in Pcs /\ [job[e] EXCEPT !.target = Len(registry) + 1] \in JobType(N)
    BY <1>2, <2>1 DEF Pcs
  <2> HIDE DEF Turned
  <2> QED
    BY <1>3, <2>2, <2>3
<1>14. CASE Record(e)
  <2>1. Turned("verify", NoJob) \/ Fail(e) \/ Succeed(e) \/ FailLocked(e)
    BY <1>14 DEF Record, Goto, Remember, End
  <2>2. "verify" \in Pcs
    BY DEF Pcs
  <2> HIDE DEF Turned
  <2> QED
    BY <1>2, <1>3, <1>6, <2>1, <2>2
<1>15. CASE Verify(e)
  <2>1. Turned("compare", NoJob) \/ Fail(e) \/ Succeed(e) \/ FailLocked(e)
    BY <1>15 DEF Verify, Goto, Remember, End
  <2>2. "compare" \in Pcs
    BY DEF Pcs
  <2> HIDE DEF Turned
  <2> QED
    BY <1>2, <1>3, <1>6, <2>1, <2>2
<1>16. CASE Compare(e)
  <2>1. Len(changes) + 1 \in Nat
    BY LenProperties DEF Typed, SheetTypes
  <2>2. Turned("persist", [job[e] EXCEPT !.target = Len(changes) + 1]) \/ Succeed(e) \/ Fail(e)
    BY <1>16 DEF Compare, Goto, Remember
  <2>3. "persist" \in Pcs /\ [job[e] EXCEPT !.target = Len(changes) + 1] \in JobType(N)
    BY <1>2, <2>1 DEF Pcs
  <2> HIDE DEF Turned
  <2> QED
    BY <1>3, <1>6, <2>2, <2>3
<1>17. CASE Persist(e)
  BY <1>17, <1>6 DEF Persist
<1>18. CASE Begin(e)
  <2> DEFINE j == [NoJob EXCEPT !.by = backfill.run, !.month = backfill.month, !.last = backfill.last]
  <2>1. Turned("mark", j)
    BY <1>18 DEF Begin, Goto, Remember
  <2>2. backfill.run \in 0..MaxStarts /\ backfill.month \in Nat /\ backfill.last \in 0..Months
    BY DEF Typed, ChainTypes, ChainType
  <2>3. "mark" \in Pcs /\ j \in JobType(N)
    BY <1>1, <2>2, JobsBuilt DEF Pcs, N
  <2> HIDE DEF Turned, j
  <2> QED
    BY <1>3, <2>1, <2>3
<1>19. CASE Mark(e)
  <2>1. Turned("fetch", NoJob) \/ Fail(e) \/ Succeed(e) \/ FailLocked(e)
    BY <1>19 DEF Mark, Goto, Remember, End
  <2>2. "fetch" \in Pcs
    BY DEF Pcs
  <2> HIDE DEF Turned
  <2> QED
    BY <1>2, <1>3, <1>6, <2>1, <2>2
<1>20. CASE Note(e)
  <2>1. Turned("dropLast", NoJob) \/ Turned("advance", NoJob)
    BY <1>20 DEF Note, Goto
  <2>2. {"dropLast", "advance"} \subseteq Pcs
    BY DEF Pcs
  <2> HIDE DEF Turned
  <2> QED
    BY <1>2, <1>3, <2>1, <2>2
<1>21. CASE Advance(e)
  <2>1. Turned("ready", NoJob) \/ Fail(e) \/ Succeed(e) \/ FailLocked(e)
    BY <1>21 DEF Advance, Goto, Remember, End
  <2>2. "ready" \in Pcs
    BY DEF Pcs
  <2> HIDE DEF Turned
  <2> QED
    BY <1>2, <1>3, <1>6, <2>1, <2>2
<1>22. CASE Ready(e)
  <2>1. Turned("dropNext", NoJob) \/ Fail(e) \/ Succeed(e) \/ FailLocked(e)
    BY <1>22 DEF Ready, Goto, Remember, End
  <2>2. "dropNext" \in Pcs
    BY DEF Pcs
  <2> HIDE DEF Turned
  <2> QED
    BY <1>2, <1>3, <1>6, <2>1, <2>2
<1>23. CASE DropNext(e)
  <2>1. Turned("makeNext", NoJob) \/ Fail(e) \/ Succeed(e) \/ FailLocked(e)
    BY <1>23 DEF DropNext, Goto, Remember, End
  <2>2. "makeNext" \in Pcs
    BY DEF Pcs
  <2> HIDE DEF Turned
  <2> QED
    BY <1>2, <1>3, <1>6, <2>1, <2>2
<1>24. CASE MakeNext(e)
  <2>1. Turned("idle", NoJob) \/ Fail(e) \/ Succeed(e) \/ FailLocked(e)
    BY <1>24 DEF MakeNext, Goto, Remember, End
  <2>2. "idle" \in Pcs
    BY DEF Pcs
  <2> HIDE DEF Turned
  <2> QED
    BY <1>2, <1>3, <1>6, <2>1, <2>2
<1>25. CASE DropLast(e)
  <2>1. Turned("complete", NoJob) \/ Fail(e) \/ Succeed(e) \/ FailLocked(e)
    BY <1>25 DEF DropLast, Goto, Remember, End
  <2>2. "complete" \in Pcs
    BY DEF Pcs
  <2> HIDE DEF Turned
  <2> QED
    BY <1>2, <1>3, <1>6, <2>1, <2>2
<1>26. CASE Complete(e)
  <2>1. Turned("idle", NoJob) \/ Fail(e) \/ Succeed(e) \/ FailLocked(e)
    BY <1>26 DEF Complete, Goto, Remember, End
  <2>2. "idle" \in Pcs
    BY DEF Pcs
  <2> HIDE DEF Turned
  <2> QED
    BY <1>2, <1>3, <1>6, <2>1, <2>2
<1>27. CASE Error(e)
  <2>1. Turned("idle", NoJob) \/ Fail(e) \/ Succeed(e) \/ FailLocked(e)
    BY <1>27 DEF Error, Goto, Remember, End
  <2>2. "idle" \in Pcs
    BY DEF Pcs
  <2> HIDE DEF Turned
  <2> QED
    BY <1>2, <1>3, <1>6, <2>1, <2>2
<1>28. CASE WorkerFires(e)
  <2>1. Turned("begin", NoJob) \/ Fail(e) \/ Succeed(e) \/ FailLocked(e)
    BY <1>28 DEF WorkerFires, Goto, Remember, End
  <2>2. "begin" \in Pcs
    BY DEF Pcs
  <2> HIDE DEF Turned
  <2> QED
    BY <1>2, <1>3, <1>6, <2>1, <2>2
<1>29. CASE CompareCalled(e)
  <2> DEFINE current == registry[Len(registry)]
             m == extracts[current].month
             others == SubSeq(registry, 1, Len(registry) - 1)
             prior == Latest(m, others)
             j == [NoJob EXCEPT !.month = m, !.prior = prior, !.run = current]
  <2>1. Turned("compare", j) /\ registry # <<>>
    BY <1>29 DEF CompareCalled, Goto, Remember
  <2>2. Len(registry) \in Nat \ {0} /\ \A i \in 1..Len(registry) : registry[i] \in 1..N
    BY <2>1, LenProperties, EmptySeq, ElementOfSeq DEF Typed, SheetTypes, N
  <2>3. current \in 1..N
    BY <2>2
  <2>4. m \in Nat
    <3>1. extracts[current] \in ExtractType
      BY <2>3, ElementOfSeq DEF Typed, SheetTypes, N
    <3> QED
      BY <3>1 DEF ExtractType
  <2>5. others \in Seq(1..N)
    <3>1. \A i \in 1..(Len(registry) - 1) : registry[i] \in 1..N
      BY <2>2
    <3>2. Len(registry) - 1 \in Int
      BY <2>2
    <3> QED
      BY <3>1, <3>2, SubSeqProperties
  <2>6. prior \in 0..N
    <3> HIDE DEF others, m
    <3> QED
      BY <1>1, <2>5, LatestLine
  <2> HIDE DEF current, m, prior
  <2>8. current \in 0..N
    BY <1>1, <2>3
  <2>9. j \in JobType(N)
    BY <1>1, <2>4, <2>6, <2>8, JobsBuilt
  <2>7. "compare" \in Pcs /\ j \in JobType(N)
    BY <2>9 DEF Pcs
  <2> HIDE DEF Turned, j
  <2> QED
    BY <1>3, <2>1, <2>7
<1>30. CASE Crash(e)
  <2>1. Turned("idle", NoJob) \/ Fail(e) \/ Succeed(e) \/ FailLocked(e)
    BY <1>30 DEF Crash, Goto, Remember, End
  <2>2. "idle" \in Pcs
    BY DEF Pcs
  <2> HIDE DEF Turned
  <2> QED
    BY <1>2, <1>3, <1>6, <2>1, <2>2
<1>31. ASSUME NEW month \in 1..Months, ExportCalled(e, month) PROVE Turns(e)
  <2>1. Turned("fetch", [NoJob EXCEPT !.month = month])
    BY <1>31 DEF ExportCalled, Goto, Remember
  <2>2. "fetch" \in Pcs /\ [NoJob EXCEPT !.month = month] \in JobType(N)
    <3>1. month \in Nat
      BY LedgerConstants
    <3> QED
      BY <1>1, <3>1, JobsBuilt DEF Pcs
  <2> HIDE DEF Turned
  <2> QED
    BY <1>3, <2>1, <2>2
<1> QED
  BY <1>7, <1>8, <1>9, <1>10, <1>11, <1>12, <1>13, <1>14, <1>15, <1>16, <1>17, <1>18,
     <1>19, <1>20, <1>21, <1>22, <1>23, <1>24, <1>25, <1>26, <1>27, <1>28, <1>29,
     <1>30, <1>31
  DEF Acts, Progress

\* A fetched report gets the next number
LEMMA FetchNumbers ==
  ASSUME Typed, NEW e \in Execs, Fetch(e)
  PROVE  \/ Turns(e) /\ UNCHANGED extracts
         \/ \E x \in ExtractType, j \in JobType(Len(extracts) + 1) :
              /\ extracts' = Append(extracts, x) /\ x.month = job[e].month /\ x.by = job[e].by
              /\ pc' = [pc EXCEPT ![e] = "lease"] /\ job' = [job EXCEPT ![e] = j]
              /\ j = [job[e] EXCEPT !.run = Len(extracts) + 1,
                                    !.prior = Latest(job[e].month, registry)]
<1> DEFINE N == Len(extracts)
           q == Latest(job[e].month, registry)
<1>1. /\ N \in Nat /\ extracts \in Seq(ExtractType) /\ job[e] \in JobType(N)
      /\ job[e].by \in 0..MaxStarts /\ job[e].month \in Nat
  <2>1. N \in Nat /\ extracts \in Seq(ExtractType) /\ job[e] \in JobType(N)
    BY LenProperties DEF Typed, SheetTypes, LocalTypes
  <2> QED
    BY <2>1, JobFields
<1>2. CASE UNCHANGED extracts /\ Fail(e)
  <2> DEFINE Turned(label, j) ==
        pc' = [pc EXCEPT ![e] = label] /\ (job' = [job EXCEPT ![e] = j] \/ job' = job)
  <2>1. Turned("idle", NoJob) \/ Turned("error", NoJob)
    BY <1>2 DEF Fail, End, Goto, Remember
  <2>2. {"idle", "error"} \subseteq Pcs /\ NoJob \in JobType(N)
    BY <1>1, JobsBuilt DEF Pcs
  <2>3. ASSUME NEW label \in Pcs, Turned(label, NoJob) PROVE Turns(e)
    BY <2>2, <2>3 DEF Turns
  <2> HIDE DEF Turned
  <2> QED
    BY <1>2, <2>1, <2>2, <2>3
<1>3. ASSUME NEW report \in Returned(N + 1),
             extracts' = Append(extracts, [month |-> job[e].month, rows |-> report,
                                           by |-> job[e].by]),
             Remember(e, [job[e] EXCEPT !.run = Len(extracts'), !.prior = q]),
             Goto(e, "lease")
      PROVE  \E x \in ExtractType, j \in JobType(N + 1) :
               /\ extracts' = Append(extracts, x) /\ x.month = job[e].month /\ x.by = job[e].by
               /\ pc' = [pc EXCEPT ![e] = "lease"] /\ job' = [job EXCEPT ![e] = j]
               /\ j = [job[e] EXCEPT !.run = N + 1, !.prior = q]
  <2> DEFINE x == [month |-> job[e].month, rows |-> report, by |-> job[e].by]
             j == [job[e] EXCEPT !.run = N + 1, !.prior = q]
  <2>1. x \in ExtractType
    <3>1. N + 1 \in Nat \ {0}
      BY <1>1
    <3> HIDE DEF N
    <3>2. report \in Seq(LedgerRow)
      BY <3>1, ReturnedRows
    <3> QED
      BY <1>1, <3>2 DEF ExtractType
  <2>2. Len(extracts') = N + 1
    BY <1>1, <1>3, <2>1, AppendProperties
  <2>3. q \in 0..(N + 1)
    <3>1. registry \in Seq(1..N)
      BY DEF Typed, SheetTypes
    <3>2. N \in Nat
      BY <1>1
    <3> HIDE DEF N
    <3>3. q = 0 \/ \E i \in 1..Len(registry) : q = registry[i] /\ registry[i] \in 1..N
      BY <3>1, <3>2, LatestLine
    <3> QED
      BY <3>2, <3>3
  <2>4. job[e] \in JobType(N + 1) /\ N + 1 \in Nat
    BY <1>1, TypesWiden
  <2>5. N + 1 \in 0..(N + 1)
    BY <1>1
  <2> HIDE DEF q
  <2>6. j \in JobType(N + 1)
    BY <2>3, <2>4, <2>5, JobsBuilt
  <2>7. extracts' = Append(extracts, x) /\ x.month = job[e].month /\ x.by = job[e].by
    BY <1>3
  <2>8. pc' = [pc EXCEPT ![e] = "lease"] /\ job' = [job EXCEPT ![e] = j]
    BY <1>3, <2>2 DEF Goto, Remember
  <2> HIDE DEF x
  <2> QED
    BY <2>1, <2>6, <2>7, <2>8
<1> HIDE DEF q
<1>4. \/ UNCHANGED extracts /\ Fail(e)
      \/ \E report \in Returned(N + 1) :
           /\ extracts' = Append(extracts, [month |-> job[e].month, rows |-> report,
                                            by |-> job[e].by])
           /\ Remember(e, [job[e] EXCEPT !.run = Len(extracts'), !.prior = q])
           /\ Goto(e, "lease")
  BY DEF Fetch, q
<1> QED
  BY <1>2, <1>3, <1>4 DEF q

\* The local variables of the others stay as they are
LEMMA Alone ==
  ASSUME Typed, NEW e \in Execs, Acts(e)
  PROVE  /\ LocalTypes'
         /\ \A f \in Execs : f # e => pc'[f] = pc[f] /\ job'[f] = job[f]
<1>1. pc \in [Execs -> Pcs] /\ job \in [Execs -> JobType(Len(extracts))] /\ Len(extracts) \in Nat
  BY LenProperties DEF Typed, LocalTypes, SheetTypes
<1>2. ASSUME Turns(e), extracts' = extracts
      PROVE  /\ LocalTypes'
             /\ \A f \in Execs : f # e => pc'[f] = pc[f] /\ job'[f] = job[f]
  BY <1>1, <1>2 DEF Turns, LocalTypes
<1>3. ASSUME ~ Fetch(e) PROVE extracts' = extracts
  BY <1>3 DEF Acts, Progress, Acquire, Locate, Delete, AppendRows, Snapshot, Release, Target,
    Record, Verify, Compare, Persist, Begin, Mark, Note, Advance, Ready, DropNext, MakeNext,
    DropLast, Complete, Error, WorkerFires, CompareCalled, Crash, ExportCalled, sheetVars
<1>4. CASE ~ Fetch(e)
  BY <1>2, <1>3, <1>4, StepsTurn
<1>5. CASE Fetch(e)
  <2>1. CASE Turns(e) /\ UNCHANGED extracts
    BY <2>1, <1>2
  <2>2. ASSUME NEW x \in ExtractType, NEW j \in JobType(Len(extracts) + 1),
               extracts' = Append(extracts, x), pc' = [pc EXCEPT ![e] = "lease"],
               job' = [job EXCEPT ![e] = j]
        PROVE  /\ LocalTypes'
               /\ \A f \in Execs : f # e => pc'[f] = pc[f] /\ job'[f] = job[f]
    <3>1. Len(extracts') = Len(extracts) + 1
      BY <2>2, AppendProperties DEF Typed, SheetTypes
    <3>2. "lease" \in Pcs
      BY DEF Pcs
    <3>3. job \in [Execs -> JobType(Len(extracts) + 1)]
      BY <1>1, TypesWiden
    <3> QED
      BY <1>1, <2>2, <3>1, <3>2, <3>3 DEF LocalTypes
  <2> QED
    BY <1>5, <2>1, <2>2, FetchNumbers
<1> QED
  BY <1>4, <1>5

\* What is recorded stays, and is only added to
Grows ==
  /\ Len(extracts) <= Len(extracts')
  /\ \A i \in 1..Len(extracts) : extracts'[i] = extracts[i]
  /\ snapshots \subseteq snapshots'
  /\ Len(registry) <= Len(registry') /\ Len(changes) <= Len(changes')

\* The report of a run, and the rows written for it
LEMMA RowsFetched ==
  ASSUME SheetTypes, NEW r \in 1..Len(extracts), NEW m \in Nat
  PROVE  /\ Rows(r) \in Seq(LedgerRow) /\ Len(Rows(r)) \in Nat
         /\ extracts[r] \in ExtractType /\ extracts[r].month \in Nat
         /\ [i \in DOMAIN Rows(r) |-> [run |-> r, month |-> m]] \in Seq(RowType(Len(extracts)))
         /\ Len([i \in DOMAIN Rows(r) |-> [run |-> r, month |-> m]]) = Len(Rows(r))
<1>1. extracts[r] \in ExtractType /\ Len(extracts) \in Nat
  BY ElementOfSeq, LenProperties DEF SheetTypes
<1>2. Rows(r) \in Seq(LedgerRow)
  BY <1>1 DEF ExtractType, Rows
<1>3. Len(Rows(r)) \in Nat /\ DOMAIN Rows(r) = 1..Len(Rows(r))
  BY <1>2, LenProperties
<1> DEFINE x == [run |-> r, month |-> m]
<1>4. x \in RowType(Len(extracts))
  BY <1>1 DEF RowType
<1> HIDE DEF x
<1> DEFINE k == Len(Rows(r))
           s == [i \in 1..k |-> x]
<1>5. s \in Seq(RowType(Len(extracts))) /\ Len(s) = k
  <2> HIDE DEF k
  <2>1. k \in Nat
    BY <1>3 DEF k
  <2> QED
    BY <1>4, <2>1
<1> QED
  BY <1>1, <1>2, <1>3, <1>5 DEF x, ExtractType

LEMMA RunPlaced ==
  ASSUME Typed, NEW e \in Execs
  PROVE  /\ Len(extracts) \in Nat /\ job[e] \in JobType(Len(extracts))
         /\ job[e].run \in 0..Len(extracts) /\ job[e].prior \in 0..Len(extracts)
         /\ job[e].month \in Nat
         /\ pc[e] \in AtWrite \union AtCompare => job[e].run \in 1..Len(extracts)
         /\ pc[e] \in AtCompare => job[e].prior \in 1..Len(extracts)
<1>1. Len(extracts) \in Nat /\ job[e] \in JobType(Len(extracts))
  BY LenProperties DEF Typed, SheetTypes, LocalTypes
<1>2. /\ job[e].run \in 0..Len(extracts) /\ job[e].prior \in 0..Len(extracts)
      /\ job[e].month \in Nat
  BY <1>1, JobFields
<1>3. /\ pc[e] \in AtWrite \union AtCompare => job[e].run # 0
      /\ pc[e] \in AtCompare => job[e].prior # 0
  BY DEF Typed, Placeable
<1> QED
  BY <1>1, <1>2, <1>3

\* The blocks an export is about to delete are those of its month
Blocked == \A e \in Execs : pc[e] = "delete" => Tiles(job[e].blocks, store, job[e].month)

\* What a deletion and an append leave in the sheet
LEMMA DeleteLeaves ==
  ASSUME Typed, Blocked, NEW e \in Execs, pc[e] = "delete", NEW b \in job[e].blocks,
         \A other \in job[e].blocks : other.start <= b.start
  PROVE  /\ Without(store, b) \in Seq(RowType(Len(extracts)))
         /\ Stretch(b, store, job[e].month)
         /\ Tiles(job[e].blocks \ {b}, Without(store, b), job[e].month)
<1>1. store \in Seq(RowType(Len(extracts)))
  BY DEF Typed, SheetTypes
<1>2. Tiles(job[e].blocks, store, job[e].month)
  BY DEF Blocked
<1>3. Stretch(b, store, job[e].month) /\ Tiles(job[e].blocks \ {b}, Without(store, b), job[e].month)
  BY <1>1, <1>2, DeleteTiles
<1> QED
  BY <1>1, <1>3, Deleted

LEMMA SheetStep ==
  ASSUME Typed, Blocked, NEW e \in Execs, Acts(e)
  PROVE  SheetTypes' /\ Grows
<1> DEFINE N == Len(extracts)
<1>1. /\ extracts \in Seq(ExtractType) /\ store \in Seq(RowType(N)) /\ lease \in 0..N
      /\ snapshots \subseteq 1..N /\ registry \in Seq(1..N) /\ changes \in Seq(PairType(N))
  BY DEF Typed, SheetTypes
<1>2. /\ N \in Nat /\ Len(registry) \in Nat /\ Len(changes) \in Nat
  BY <1>1, LenProperties
<1>3. ASSUME UNCHANGED <<sheetVars, lease>> PROVE SheetTypes' /\ Grows
  BY <1>1, <1>2, <1>3 DEF sheetVars, SheetTypes, Grows
<1>4. ASSUME extracts' = extracts, registry' = registry, changes' = changes,
             store' \in Seq(RowType(N)), lease' \in 0..N, snapshots' \subseteq 1..N,
             snapshots \subseteq snapshots'
      PROVE  SheetTypes' /\ Grows
  BY <1>1, <1>2, <1>4 DEF SheetTypes, Grows
<1>5. CASE Fetch(e)
  <2>1. /\ store' = store /\ lease' = lease /\ snapshots' = snapshots
        /\ registry' = registry /\ changes' = changes
    BY <1>5 DEF Fetch
  <2>2. CASE extracts' = extracts
    BY <2>1, <2>2, <1>1, <1>4
  <2>3. ASSUME NEW x \in ExtractType, extracts' = Append(extracts, x) PROVE SheetTypes' /\ Grows
    <3>1. /\ extracts' \in Seq(ExtractType) /\ Len(extracts') = N + 1
          /\ \A i \in 1..N : extracts'[i] = extracts[i]
      BY <1>1, <2>3, AppendProperties
    <3>2. /\ RowType(N) \subseteq RowType(N + 1) /\ PairType(N) \subseteq PairType(N + 1)
          /\ 1..N \subseteq 1..(N + 1)
      BY <1>2, TypesWiden
    <3>3. store \in Seq(RowType(N + 1))
      BY <1>1, <3>2, SeqWidens
    <3>4. registry \in Seq(1..(N + 1))
      BY <1>1, <3>2, SeqWidens
    <3>5. changes \in Seq(PairType(N + 1))
      BY <1>1, <3>2, SeqWidens
    <3>6. lease \in 0..(N + 1) /\ snapshots \subseteq 1..(N + 1) /\ N <= N + 1
      BY <1>1, <1>2
    <3> QED
      BY <2>1, <3>1, <3>3, <3>4, <3>5, <3>6, <1>2 DEF SheetTypes, Grows
  <2> QED
    BY <1>5, <2>2, <2>3, FetchNumbers
<1>6. CASE Acquire(e)
  <2>1. job[e].run \in 0..N
    BY RunPlaced
  <2>2. (lease' = job[e].run \/ lease' = lease) /\ UNCHANGED sheetVars
    BY <1>6 DEF Acquire
  <2> QED
    BY <2>1, <2>2, <1>1, <1>4 DEF sheetVars
<1>7. CASE Delete(e)
  <2>1. /\ extracts' = extracts /\ registry' = registry /\ changes' = changes /\ lease' = lease
        /\ snapshots' = snapshots
    BY <1>7 DEF Delete
  <2>2. store' \in Seq(RowType(N))
    <3>1. CASE store' = store
      BY <3>1, <1>1
    <3>2. ASSUME NEW b \in job[e].blocks, \A other \in job[e].blocks : other.start <= b.start,
                 store' = Without(store, b)
          PROVE  store' \in Seq(RowType(N))
      <4>1. pc[e] = "delete"
        BY <1>7 DEF Delete
      <4> QED
        BY <3>2, <4>1, DeleteLeaves
    <3> QED
      BY <1>7, <3>1, <3>2 DEF Delete
  <2> QED
    BY <2>1, <2>2, <1>1, <1>4
<1>8. CASE AppendRows(e)
  <2>1. /\ extracts' = extracts /\ registry' = registry /\ changes' = changes /\ lease' = lease
        /\ snapshots' = snapshots
    BY <1>8 DEF AppendRows
  <2> DEFINE new == [i \in DOMAIN Rows(job[e].run) |-> [run |-> job[e].run, month |-> job[e].month]]
  <2>2. store' = store \/ store' = store \o new
    BY <1>8 DEF AppendRows
  <2>3. new \in Seq(RowType(N))
    <3>1. job[e].run \in 1..N /\ job[e].month \in Nat
      BY <1>8, RunPlaced DEF AppendRows, AtWrite
    <3> QED
      BY <3>1, RowsFetched DEF Typed
  <2> HIDE DEF new
  <2>4. store \o new \in Seq(RowType(N))
    BY <1>1, <2>3, ConcatProperties
  <2>5. store' \in Seq(RowType(N))
    BY <1>1, <2>2, <2>4
  <2> QED
    BY <2>1, <2>5, <1>1, <1>4
<1>9. CASE Snapshot(e)
  <2>1. /\ extracts' = extracts /\ registry' = registry /\ changes' = changes /\ lease' = lease
        /\ store' = store
        /\ (snapshots' = snapshots \union {job[e].run} \/ snapshots' = snapshots)
    BY <1>9 DEF Snapshot
  <2>2. job[e].run \in 1..N
    BY <1>9, RunPlaced DEF Snapshot, AtWrite
  <2>3. snapshots' \subseteq 1..N /\ snapshots \subseteq snapshots'
    BY <2>1, <2>2, <1>1
  <2> QED
    BY <2>1, <2>3, <1>1, <1>4
<1>10. CASE Release(e)
  <2>1. (lease' = 0 \/ lease' = lease) /\ UNCHANGED sheetVars
    BY <1>10 DEF Release
  <2>2. 0 \in 0..N
    BY <1>2
  <2> QED
    BY <2>1, <2>2, <1>1, <1>4 DEF sheetVars
<1>11. CASE Record(e)
  <2> DEFINE k == job[e].target
             r == job[e].run
  <2>1. /\ extracts' = extracts /\ store' = store /\ changes' = changes /\ lease' = lease
        /\ snapshots' = snapshots
    BY <1>11 DEF Record
  <2>2. \/ registry' = registry
        \/ k > Len(registry) /\ registry' = Append(registry, r)
        \/ ~ (k > Len(registry)) /\ registry' = [registry EXCEPT ![k] = r]
    BY <1>11 DEF Record
  <2>3. k \in 1..(Len(registry) + 1) /\ r \in 1..N
    BY <1>11, RunPlaced DEF Record, AtWrite, Typed, Placeable
  <2>4. registry' \in Seq(1..N) /\ Len(registry) <= Len(registry')
    <3>1. CASE registry' = registry
      BY <3>1, <1>1, <1>2
    <3>2. CASE registry' = Append(registry, r)
      <4>1. registry' \in Seq(1..N) /\ Len(registry') = Len(registry) + 1
        BY <3>2, <2>3, <1>1, AppendProperties
      <4> QED
        BY <4>1, <1>2
    <3>3. CASE ~ (k > Len(registry)) /\ registry' = [registry EXCEPT ![k] = r]
      <4>1. k \in 1..Len(registry)
        BY <3>3, <2>3, <1>2
      <4>2. registry' \in Seq(1..N) /\ Len(registry') = Len(registry)
        BY <3>3, <4>1, <2>3, <1>1, ExceptSeq
      <4> QED
        BY <4>2, <1>2
    <3> QED
      BY <2>2, <3>1, <3>2, <3>3
  <2> QED
    BY <2>1, <2>4, <1>1, <1>2 DEF SheetTypes, Grows
<1>12. CASE Persist(e)
  <2> DEFINE k == job[e].target
             n == Cardinality(Changes(Rows(job[e].prior), Rows(job[e].run)))
             x == Comparison(e)
             block == k..(k + n - 1)
             more == [i \in DOMAIN changes \union block |-> IF i \in block THEN x ELSE changes[i]]
  <2>1. /\ extracts' = extracts /\ store' = store /\ registry' = registry /\ lease' = lease
        /\ snapshots' = snapshots
    BY <1>12 DEF Persist
  <2>2. changes' = more \/ changes' = changes
    BY <1>12 DEF Persist
  <2>3. /\ pc[e] = "persist" /\ job[e].run \in 1..N /\ job[e].prior \in 1..N
        /\ k \in 1..(Len(changes) + 1)
    BY <1>12, RunPlaced DEF Persist, AtCompare, Typed, Placeable
  <2>4. n \in Nat
    <3>1. Rows(job[e].prior) \in Seq(LedgerRow) /\ Rows(job[e].run) \in Seq(LedgerRow)
      <4>1. \A r \in 1..N : Rows(r) \in Seq(LedgerRow)
        <5>1. 0 \in Nat
          OBVIOUS
        <5> QED
          BY <5>1, RowsFetched DEF Typed
      <4> QED
        BY <2>3, <4>1
    <3> QED
      BY <3>1, ChangesCounted
  <2>5. x \in PairType(N)
    BY <2>3 DEF Comparison, PairType
  <2> HIDE DEF n, x, k
  <2>6. more \in Seq(PairType(N)) /\ Len(changes) <= Len(more)
    <3> DEFINE last == IF k + n - 1 > Len(changes) THEN k + n - 1 ELSE Len(changes)
    <3>1. last \in Nat /\ Len(changes) <= last
      BY <2>3, <2>4, <1>2
    <3>2. DOMAIN changes = 1..Len(changes) /\ \A i \in 1..Len(changes) : changes[i] \in PairType(N)
      BY <1>1, LenProperties, ElementOfSeq
    <3>3. DOMAIN changes \union block = 1..last
      BY <2>3, <2>4, <1>2, <3>2
    <3>4. more = [i \in 1..last |-> IF i \in block THEN x ELSE changes[i]]
      BY <3>3
    <3>5. \A i \in 1..last : (IF i \in block THEN x ELSE changes[i]) \in PairType(N)
      BY <2>5, <3>2, <3>3
    <3> HIDE DEF more, block, last
    <3>6. more \in [1..last -> PairType(N)]
      BY <3>4, <3>5
    <3> QED
      BY <3>1, <3>6
  <2> HIDE DEF more
  <2>7. changes' \in Seq(PairType(N)) /\ Len(changes) <= Len(changes')
    BY <2>2, <2>6, <1>1, <1>2
  <2> QED
    BY <2>1, <2>7, <1>1, <1>2 DEF SheetTypes, Grows
<1>13. CASE WorkerFires(e)
  BY <1>3, <1>13 DEF WorkerFires
<1>14. CASE CompareCalled(e)
  BY <1>3, <1>14 DEF CompareCalled
<1>15. CASE Crash(e)
  BY <1>3, <1>15 DEF Crash
<1>16. CASE \E month \in 1..Months : ExportCalled(e, month)
  BY <1>3, <1>16 DEF ExportCalled
<1>17. CASE \/ Locate(e) \/ Target(e) \/ Verify(e) \/ Compare(e) \/ Begin(e) \/ Mark(e)
            \/ Note(e) \/ Advance(e) \/ Ready(e) \/ DropNext(e) \/ MakeNext(e) \/ DropLast(e)
            \/ Complete(e) \/ Error(e)
  BY <1>3, <1>17 DEF Locate, Target, Verify, Compare, Begin, Mark, Note, Advance, Ready,
    DropNext, MakeNext, DropLast, Complete, Error
<1> QED
  BY <1>5, <1>6, <1>7, <1>8, <1>9, <1>10, <1>11, <1>12, <1>13, <1>14, <1>15, <1>16, <1>17
  DEF Acts, Progress

\* What the operator does leaves the sheets and the executions alone
LEMMA OperatorAlone ==
  ASSUME Operator
  PROVE  UNCHANGED <<sheetVars, lease, pc, job, faults>>
BY DEF Operator, Start, Resume, Cancel, Repair

LEMMA OperatorStep ==
  ASSUME Typed, Operator
  PROVE  Typed' /\ Grows
<1>1. UNCHANGED <<sheetVars, lease, pc, job, faults>>
  BY OperatorAlone
<1>2. Len(extracts) \in Nat /\ Len(registry) \in Nat /\ Len(changes) \in Nat
  BY LenProperties DEF Typed, SheetTypes
<1>3. SheetTypes' /\ LocalTypes' /\ Placeable' /\ Grows
  BY <1>1, <1>2 DEF Typed, SheetTypes, LocalTypes, Placeable, Grows, sheetVars
<1>4. /\ backfill \in ChainType /\ triggers \in Nat /\ calls \in 0..MaxCalls + 1
      /\ faults \in 0..MaxFaults /\ lost \in BOOLEAN
  BY DEF Typed, ChainTypes, CountTypes
<1>5. \A status \in Statuses : [backfill EXCEPT !.status = status] \in ChainType
  BY <1>4 DEF ChainType
<1>6. {"READY", "CANCELLED", "COMPLETE"} \subseteq Statuses
  BY DEF Statuses
<1>7. calls < MaxCalls /\ calls' = calls + 1
  BY DEF Operator, Start, Resume, Cancel, Repair, Call
<1>8. calls' \in 0..MaxCalls + 1 /\ faults' \in 0..MaxFaults
  BY <1>1, <1>4, <1>7, LedgerConstants
<1>9. lost' \in BOOLEAN
  BY <1>4 DEF Operator, Start, Resume, Cancel, Repair
<1>10. ChainTypes'
  <2>1. ASSUME NEW first \in 1..Months, NEW last \in 1..Months, Start(first, last) PROVE ChainTypes'
    <3>1. \/ triggers' = 0 /\ backfill' = backfill
          \/ /\ backfill.run < MaxStarts /\ triggers' = 1
             /\ backfill' = [run |-> backfill.run + 1, first |-> first, last |-> last,
                             month |-> first, done |-> 0, status |-> "READY"]
      BY <2>1 DEF Start
    <3>2. backfill.run \in 0..MaxStarts
      BY <1>4 DEF ChainType
    <3> QED
      BY <3>1, <3>2, <1>4, <1>6, LedgerConstants DEF ChainTypes, ChainType
  <2>2. CASE Resume
    <3>1. \/ triggers' = 0 /\ backfill' = backfill
          \/ triggers' = 1 /\ backfill' = [backfill EXCEPT !.status = "READY"]
      BY <2>2 DEF Resume, SetStatus
    <3> QED
      BY <3>1, <1>4, <1>5, <1>6 DEF ChainTypes
  <2>3. CASE Cancel
    <3>1. triggers' = 0 /\ (backfill' = backfill \/ backfill' = [backfill EXCEPT !.status = "CANCELLED"])
      BY <2>3 DEF Cancel, SetStatus
    <3> QED
      BY <3>1, <1>4, <1>5, <1>6 DEF ChainTypes
  <2>4. CASE Repair
    <3>1. triggers' = triggers /\ backfill' = [backfill EXCEPT !.status = "COMPLETE"]
      BY <2>4 DEF Repair, SetStatus
    <3> QED
      BY <3>1, <1>4, <1>5, <1>6 DEF ChainTypes
  <2> QED
    BY <2>1, <2>2, <2>3, <2>4 DEF Operator
<1> QED
  BY <1>3, <1>8, <1>9, <1>10 DEF Typed, CountTypes

LEMMA ChainStep ==
  ASSUME Typed, NEW e \in Execs, Acts(e)
  PROVE  ChainTypes'
<1>1. backfill \in ChainType /\ triggers \in Nat /\ job[e].month \in Nat
  BY RunPlaced DEF Typed, ChainTypes
<1>2. \A status \in Statuses : [backfill EXCEPT !.status = status] \in ChainType
  BY <1>1 DEF ChainType
<1>3. {"READY", "RUNNING", "ERROR", "COMPLETE"} \subseteq Statuses
  BY DEF Statuses
<1>4. \A m \in Nat : /\ [backfill EXCEPT !.done = m] \in ChainType
                     /\ [backfill EXCEPT !.month = m] \in ChainType
  BY <1>1 DEF ChainType
<1>5. CASE WorkerFires(e)
  <2>1. triggers' = triggers - 1 /\ triggers > 0 /\ backfill' = backfill
    BY <1>5 DEF WorkerFires
  <2> QED
    BY <2>1, <1>1 DEF ChainTypes
<1>6. CASE Begin(e) \/ DropNext(e) \/ DropLast(e)
  <2>1. triggers' = 0 /\ backfill' = backfill
    BY <1>6 DEF Begin, DropNext, DropLast
  <2> QED
    BY <2>1, <1>1 DEF ChainTypes
<1>7. CASE MakeNext(e)
  <2>1. triggers' = triggers + 1 /\ backfill' = backfill
    BY <1>7 DEF MakeNext
  <2> QED
    BY <2>1, <1>1 DEF ChainTypes
<1>8. CASE Mark(e) \/ Ready(e) \/ Complete(e) \/ Error(e)
  <2>1. triggers' = triggers /\ \E status \in Statuses : backfill' = [backfill EXCEPT !.status = status]
    BY <1>8, <1>3 DEF Mark, Ready, Complete, Error, SetStatus
  <2> QED
    BY <2>1, <1>1, <1>2 DEF ChainTypes
<1>9. CASE Note(e)
  <2>1. triggers' = triggers /\ backfill' = [backfill EXCEPT !.done = job[e].month]
    BY <1>9 DEF Note
  <2> QED
    BY <2>1, <1>1, <1>4 DEF ChainTypes
<1>10. CASE Advance(e)
  <2>1. triggers' = triggers /\ backfill' = [backfill EXCEPT !.month = job[e].month + 1]
    BY <1>10 DEF Advance
  <2>2. job[e].month + 1 \in Nat
    BY <1>1
  <2> QED
    BY <2>1, <2>2, <1>1, <1>4 DEF ChainTypes
<1>11. CASE UNCHANGED chainVars
  BY <1>11, <1>1 DEF chainVars, ChainTypes
<1>12. CASE CompareCalled(e) \/ Crash(e) \/ \E month \in 1..Months : ExportCalled(e, month)
  BY <1>11, <1>12 DEF CompareCalled, Crash, ExportCalled
<1>13. CASE \/ Fetch(e) \/ Acquire(e) \/ Locate(e) \/ Delete(e) \/ AppendRows(e) \/ Snapshot(e)
            \/ Release(e) \/ Target(e) \/ Record(e) \/ Verify(e) \/ Compare(e) \/ Persist(e)
  BY <1>11, <1>13 DEF Fetch, Acquire, Locate, Delete, AppendRows, Snapshot, Release, Target,
    Record, Verify, Compare, Persist
<1> QED
  BY <1>5, <1>6, <1>7, <1>8, <1>9, <1>10, <1>12, <1>13 DEF Acts, Progress

LEMMA CountStep ==
  ASSUME Typed, NEW e \in Execs, Acts(e)
  PROVE  CountTypes'
<1>1. calls \in 0..MaxCalls + 1 /\ faults \in 0..MaxFaults /\ lost \in BOOLEAN
  BY DEF Typed, CountTypes
<1>2. calls' = calls \/ (calls <= MaxCalls /\ calls' = calls + 1)
  <2>1. CASE CompareCalled(e)
    BY <2>1 DEF CompareCalled
  <2>2. CASE \E month \in 1..Months : ExportCalled(e, month)
    <3>1. calls < MaxCalls /\ calls' = calls + 1
      BY <2>2 DEF ExportCalled
    <3> QED
      BY <3>1, <1>1, LedgerConstants
  <2>3. CASE ~ CompareCalled(e) /\ ~ \E month \in 1..Months : ExportCalled(e, month)
    BY <2>3 DEF Acts, Progress, Fetch, Acquire, Locate, Delete, AppendRows, Snapshot, Release,
      Target, Record, Verify, Compare, Persist, Begin, Mark, Note, Advance, Ready, DropNext,
      MakeNext, DropLast, Complete, Error, WorkerFires, Crash, countVars
  <2> QED
    BY <2>1, <2>2, <2>3
<1>3. faults' = faults \/ (faults < MaxFaults /\ faults' = faults + 1)
  BY DEF Acts, Progress, Fetch, Acquire, Locate, Delete, AppendRows, Snapshot, Release, Target, Record,
    Verify, Compare, Persist, Begin, Mark, Note, Advance, Ready, DropNext, MakeNext,
    DropLast, Complete, Error, WorkerFires, CompareCalled, Crash, ExportCalled, countVars, Charge
<1>4. lost' \in BOOLEAN
  BY <1>1 DEF Acts, Progress, Fetch, Acquire, Locate, Delete, AppendRows, Snapshot, Release, Target, Record,
    Verify, Compare, Persist, Begin, Mark, Note, Advance, Ready, DropNext, MakeNext,
    DropLast, Complete, Error, WorkerFires, CompareCalled, Crash, ExportCalled
<1> QED
  BY <1>1, <1>2, <1>3, <1>4, LedgerConstants DEF CountTypes

\* Where an execution goes, its local variables and the rows it has found are known
LEMMA PlaceableStep ==
  ASSUME Typed, Blocked, NEW e \in Execs, Acts(e)
  PROVE  Placeable'
<1>1. /\ pc \in [Execs -> Pcs] /\ job \in [Execs -> JobType(Len(extracts))]
      /\ Len(extracts) \in Nat /\ Len(registry) \in Nat /\ Len(changes) \in Nat
      /\ job[e].run \in 0..Len(extracts) /\ job[e].prior \in 0..Len(extracts)
  BY LenProperties, RunPlaced DEF Typed, LocalTypes, SheetTypes
<1>2. Grows
  BY SheetStep
<1>3. \A f \in Execs : f # e => pc'[f] = pc[f] /\ job'[f] = job[f]
  BY Alone
<1> DEFINE Fine ==
      /\ pc'[e] \in AtWrite \union AtCompare => job'[e].run # 0
      /\ pc'[e] \in AtCompare => job'[e].prior # 0
      /\ pc'[e] = "record" => job'[e].target \in 1..(Len(registry') + 1)
      /\ pc'[e] = "persist" => job'[e].target \in 1..(Len(changes') + 1)
<1>4. ASSUME Fine PROVE Placeable'
  <2> SUFFICES ASSUME NEW f \in Execs
               PROVE  /\ pc'[f] \in AtWrite \union AtCompare => job'[f].run # 0
                      /\ pc'[f] \in AtCompare => job'[f].prior # 0
                      /\ pc'[f] = "record" => job'[f].target \in 1..(Len(registry') + 1)
                      /\ pc'[f] = "persist" => job'[f].target \in 1..(Len(changes') + 1)
    BY DEF Placeable
  <2>1. CASE f = e
    BY <1>4, <2>1
  <2>2. CASE f # e
    <3>1. pc'[f] = pc[f] /\ job'[f] = job[f]
      BY <1>3, <2>2
    <3>2. /\ pc[f] \in AtWrite \union AtCompare => job[f].run # 0
          /\ pc[f] \in AtCompare => job[f].prior # 0
          /\ pc[f] = "record" => job[f].target \in 1..(Len(registry) + 1)
          /\ pc[f] = "persist" => job[f].target \in 1..(Len(changes) + 1)
      BY DEF Typed, Placeable
    <3>3. SheetTypes'
      BY SheetStep
    <3>4. /\ Len(registry') \in Nat /\ Len(changes') \in Nat
      BY <3>3, LenProperties DEF SheetTypes
    <3> QED
      BY <3>1, <3>2, <3>4, <1>1, <1>2 DEF Grows
  <2> QED
    BY <2>1, <2>2
<1>5. /\ pc[e] \in AtWrite \union AtCompare => job[e].run # 0
      /\ pc[e] \in AtCompare => job[e].prior # 0
  BY DEF Typed, Placeable
<1>6. ASSUME pc'[e] \notin AtWrite \union AtCompare PROVE Fine
  BY <1>6 DEF AtWrite, AtCompare
<1>7. ASSUME pc[e] \in AtWrite, pc'[e] \in AtWrite \ {"record"}, job'[e].run = job[e].run PROVE Fine
  BY <1>5, <1>7 DEF AtWrite, AtCompare
<1>8. CASE Acquire(e)
  <2>1. \/ pc'[e] \notin AtWrite \union AtCompare
        \/ pc[e] \in AtWrite /\ pc'[e] \in AtWrite \ {"record"} /\ job'[e].run = job[e].run
    BY <1>8, <1>1 DEF Acquire, Goto, Remember, End, Fail, Succeed, FailLocked, AtWrite, AtCompare, JobType
  <2> QED
    BY <2>1, <1>4, <1>6, <1>7
<1>9. CASE Locate(e)
  <2>1. \/ pc'[e] \notin AtWrite \union AtCompare
        \/ pc[e] \in AtWrite /\ pc'[e] \in AtWrite \ {"record"} /\ job'[e].run = job[e].run
    BY <1>9, <1>1 DEF Locate, Goto, Remember, End, Fail, Succeed, FailLocked, AtWrite, AtCompare, JobType
  <2> QED
    BY <2>1, <1>4, <1>6, <1>7
<1>10. CASE Delete(e)
  <2>1. \/ pc'[e] \notin AtWrite \union AtCompare
        \/ pc[e] \in AtWrite /\ pc'[e] \in AtWrite \ {"record"} /\ job'[e].run = job[e].run
    BY <1>10, <1>1 DEF Delete, Goto, Remember, End, Fail, Succeed, FailLocked, AtWrite, AtCompare, JobType
  <2> QED
    BY <2>1, <1>4, <1>6, <1>7
<1>11. CASE AppendRows(e)
  <2>1. \/ pc'[e] \notin AtWrite \union AtCompare
        \/ pc[e] \in AtWrite /\ pc'[e] \in AtWrite \ {"record"} /\ job'[e].run = job[e].run
    BY <1>11, <1>1 DEF AppendRows, Goto, Remember, End, Fail, Succeed, FailLocked, AtWrite, AtCompare, JobType
  <2> QED
    BY <2>1, <1>4, <1>6, <1>7
<1>12. CASE Snapshot(e)
  <2>1. \/ pc'[e] \notin AtWrite \union AtCompare
        \/ pc[e] \in AtWrite /\ pc'[e] \in AtWrite \ {"record"} /\ job'[e].run = job[e].run
    BY <1>12, <1>1 DEF Snapshot, Goto, Remember, End, Fail, Succeed, FailLocked, AtWrite, AtCompare, JobType
  <2> QED
    BY <2>1, <1>4, <1>6, <1>7
<1>13. CASE Release(e)
  <2>1. \/ pc'[e] \notin AtWrite \union AtCompare
        \/ pc[e] \in AtWrite /\ pc'[e] \in AtWrite \ {"record"} /\ job'[e].run = job[e].run
    BY <1>13, <1>1 DEF Release, Goto, Remember, End, Fail, Succeed, FailLocked, AtWrite, AtCompare, JobType
  <2> QED
    BY <2>1, <1>4, <1>6, <1>7
<1>14. CASE Record(e)
  <2>1. \/ pc'[e] \notin AtWrite \union AtCompare
        \/ pc[e] \in AtWrite /\ pc'[e] \in AtWrite \ {"record"} /\ job'[e].run = job[e].run
    BY <1>14, <1>1 DEF Record, Goto, Remember, End, Fail, Succeed, FailLocked, AtWrite, AtCompare, JobType
  <2> QED
    BY <2>1, <1>4, <1>6, <1>7
<1>15. CASE Fetch(e)
  <2>1. CASE UNCHANGED extracts /\ Fail(e)
    <3>1. pc'[e] \notin AtWrite \union AtCompare
      BY <2>1, <1>1 DEF Goto, Remember, End, Fail, AtWrite, AtCompare
    <3> QED
      BY <3>1, <1>4, <1>6
  <2>2. ASSUME NEW report \in Returned(Len(extracts) + 1),
               extracts' = Append(extracts, [month |-> job[e].month, rows |-> report,
                                             by |-> job[e].by]),
               Remember(e, [job[e] EXCEPT !.run = Len(extracts'),
                                          !.prior = Latest(job[e].month, registry)]),
               Goto(e, "lease")
        PROVE  Placeable'
    <3>1. pc'[e] = "lease"
      BY <2>2, <1>1 DEF Goto
    <3>2. job'[e].run = Len(extracts')
      BY <2>2, <1>1 DEF Remember, JobType
    <3>3. Len(extracts') = Len(extracts) + 1
      <4>1. extracts \in Seq(ExtractType) /\ job[e] \in JobType(Len(extracts))
        BY RunPlaced DEF Typed, SheetTypes
      <4>2. [month |-> job[e].month, rows |-> report, by |-> job[e].by] \in ExtractType
        BY <4>1, <1>1, ReturnedRows, JobFields DEF ExtractType
      <4> QED
        BY <4>1, <4>2, <2>2, AppendProperties
    <3> QED
      BY <3>1, <3>2, <3>3, <1>1, <1>4 DEF AtWrite, AtCompare
  <2> QED
    BY <1>15, <2>1, <2>2 DEF Fetch
<1>16. CASE Target(e)
  <2>1. /\ pc'[e] = "record" /\ job'[e].target = Len(registry) + 1 /\ job'[e].run = job[e].run
        /\ pc[e] \in AtWrite
    BY <1>16, <1>1 DEF Target, Goto, Remember, JobType, AtWrite
  <2>2. registry' = registry
    BY <1>16 DEF Target, sheetVars
  <2> QED
    BY <2>1, <2>2, <1>1, <1>4, <1>5 DEF AtWrite, AtCompare
<1>17. CASE Verify(e)
  <2>1. CASE pc'[e] \notin AtWrite \union AtCompare
    BY <2>1, <1>4, <1>6
  <2>2. CASE job[e].prior # 0 /\ Goto(e, "compare") /\ UNCHANGED job
    <3>1. pc'[e] = "compare" /\ job'[e] = job[e] /\ pc[e] \in AtWrite
      BY <1>17, <1>1, <2>2 DEF Verify, Goto, AtWrite
    <3> QED
      BY <3>1, <2>2, <1>4, <1>5 DEF AtWrite, AtCompare
  <2>3. CASE Succeed(e) \/ Fail(e)
    BY <2>1, <2>3, <1>1 DEF Goto, Remember, End, Fail, Succeed, FailLocked, AtWrite, AtCompare
  <2> QED
    BY <1>17, <2>2, <2>3 DEF Verify
<1>18. CASE Compare(e)
  <2>1. pc[e] \in AtCompare
    BY <1>18 DEF Compare, AtCompare
  <2>2. CASE Goto(e, "persist") /\ Remember(e, [job[e] EXCEPT !.target = Len(changes) + 1])
    <3>1. /\ pc'[e] = "persist" /\ job'[e].target = Len(changes) + 1 /\ job'[e].run = job[e].run
          /\ job'[e].prior = job[e].prior
      BY <1>1, <2>2 DEF Goto, Remember, JobType
    <3>2. changes' = changes
      BY <1>18 DEF Compare, sheetVars
    <3> QED
      BY <3>1, <3>2, <2>1, <1>1, <1>4, <1>5 DEF AtWrite, AtCompare
  <2>3. CASE Succeed(e) \/ Fail(e)
    <3>1. pc'[e] \notin AtWrite \union AtCompare
      BY <2>3, <1>1 DEF Goto, Remember, End, Fail, Succeed, FailLocked, AtWrite, AtCompare
    <3> QED
      BY <3>1, <1>4, <1>6
  <2> QED
    BY <1>18, <2>2, <2>3 DEF Compare
<1>19. CASE CompareCalled(e)
  <2> DEFINE current == registry[Len(registry)]
             prior == Latest(extracts[current].month, SubSeq(registry, 1, Len(registry) - 1))
  <2>1. /\ pc' = [pc EXCEPT ![e] = "compare"] /\ prior # 0 /\ registry # <<>>
        /\ job' = [job EXCEPT ![e] = [NoJob EXCEPT !.month = extracts[current].month,
                                                  !.prior = prior, !.run = current]]
    BY <1>19 DEF CompareCalled, Goto, Remember
  <2>2. current # 0
    <3>1. Len(registry) \in 1..Len(registry)
      BY <2>1, <1>1, EmptySeq DEF Typed, SheetTypes
    <3>2. current \in 1..Len(extracts)
      BY <3>1, ElementOfSeq DEF Typed, SheetTypes
    <3> QED
      BY <3>2
  <2> HIDE DEF current, prior
  <2>3. pc'[e] = "compare" /\ job'[e].prior = prior /\ job'[e].run = current
    BY <2>1, <1>1 DEF NoJob
  <2> QED
    BY <2>1, <2>2, <2>3, <1>4 DEF AtWrite, AtCompare
<1>20. CASE Persist(e)
  <2>1. pc'[e] \notin AtWrite \union AtCompare
    BY <1>20, <1>1 DEF Persist, Goto, Remember, End, Fail, Succeed, FailLocked, AtWrite, AtCompare
  <2> QED
    BY <2>1, <1>4, <1>6
<1>21. CASE Begin(e) \/ Mark(e) \/ Note(e) \/ Advance(e)
  <2>1. pc'[e] \notin AtWrite \union AtCompare
    BY <1>21, <1>1 DEF Begin, Mark, Note, Advance, Goto, Remember, End, Fail, Succeed, FailLocked, AtWrite, AtCompare
  <2> QED
    BY <2>1, <1>4, <1>6
<1>22. CASE Ready(e) \/ DropNext(e) \/ MakeNext(e)
  <2>1. pc'[e] \notin AtWrite \union AtCompare
    BY <1>22, <1>1 DEF Ready, DropNext, MakeNext, Goto, Remember, End, Fail, Succeed, FailLocked, AtWrite, AtCompare
  <2> QED
    BY <2>1, <1>4, <1>6
<1>23. CASE DropLast(e) \/ Complete(e) \/ Error(e)
  <2>1. pc'[e] \notin AtWrite \union AtCompare
    BY <1>23, <1>1 DEF DropLast, Complete, Error, Goto, Remember, End, Fail, Succeed, FailLocked, AtWrite, AtCompare
  <2> QED
    BY <2>1, <1>4, <1>6
<1>24. CASE WorkerFires(e) \/ Crash(e)
  <2>1. pc'[e] \notin AtWrite \union AtCompare
    BY <1>24, <1>1 DEF WorkerFires, Crash, Goto, Remember, End, Fail, Succeed, FailLocked, AtWrite, AtCompare
  <2> QED
    BY <2>1, <1>4, <1>6
<1>25. CASE \E month \in 1..Months : ExportCalled(e, month)
  <2>1. pc'[e] \notin AtWrite \union AtCompare
    BY <1>25, <1>1 DEF ExportCalled, Goto, Remember, End, Fail, Succeed, FailLocked, AtWrite, AtCompare
  <2> QED
    BY <2>1, <1>4, <1>6
<1> QED
  BY <1>8, <1>9, <1>10, <1>11, <1>12, <1>13, <1>14, <1>15, <1>16, <1>17, <1>18, <1>19,
     <1>20, <1>21, <1>22, <1>23, <1>24, <1>25
  DEF Acts, Progress

-----------------------------------------------------------------------------
(* The lease and the sheet *)

\* Where an export is inside the write lease
Holding == {"locate", "delete", "append", "snapshot", "release"}

\* An execution inside the lease is the one it was given to, and no two executions carry
\* a report of the same number there or wait for the lease with one
Holder == \A e \in Execs : pc[e] \in Holding => lease = job[e].run
OneRun ==
  \A e, f \in Execs :
    /\ pc[e] \in Holding \union {"lease"} /\ pc[f] \in Holding \union {"lease"}
    /\ job[e].run = job[f].run
    => e = f

\* Before the new rows are written no row of their month is left ...
MonthEmpty == \A e \in Execs : pc[e] = "append" => OfMonth(job[e].month) = <<>>

\* ... and there is room for them
Room(e) == Len(store) - Len(OfMonth(job[e].month)) + Len(Rows(job[e].run)) <= MaxRows
Fits ==
  /\ Len(store) <= MaxRows
  /\ \A e \in Execs : pc[e] \in {"delete", "append"} => Room(e)

Placed == Holder /\ OneRun /\ Blocked /\ MonthEmpty /\ Fits

\* Only one execution is inside the lease
LEMMA OneHolder ==
  ASSUME Placed, NEW e \in Execs, NEW f \in Execs, pc[e] \in Holding, pc[f] \in Holding
  PROVE  e = f
<1>1. job[e].run = job[f].run
  BY DEF Placed, Holder
<1> QED
  BY <1>1 DEF Placed, OneRun

\* Nobody enters the lease but by acquiring it, or waits for it but after a fetch
LEMMA LeaseMoves ==
  ASSUME Typed, NEW e \in Execs, Acts(e)
  PROVE  \/ Fetch(e) /\ pc'[e] = "lease" /\ job'[e].run = Len(extracts) + 1 /\ lease' = lease
         \/ /\ pc[e] = "lease" /\ pc'[e] = "locate" /\ job'[e].run = job[e].run
            /\ lease = 0 /\ lease' = job[e].run
         \/ /\ Release(e) /\ pc[e] = "release" /\ pc'[e] \notin Holding \union {"lease"}
            /\ lease' = IF lease = job[e].run THEN 0 ELSE lease
         \/ /\ pc[e] \in Holding /\ pc'[e] \in Holding /\ job'[e].run = job[e].run
            /\ lease' = lease
         \/ pc'[e] \notin Holding \union {"lease"} /\ lease' = lease
<1>1. pc \in [Execs -> Pcs] /\ job \in [Execs -> JobType(Len(extracts))]
  BY DEF Typed, LocalTypes
<1>2. ASSUME Fail(e) \/ Succeed(e) PROVE pc'[e] \notin Holding \union {"lease"}
  BY <1>1, <1>2 DEF Fail, Succeed, End, Goto, Holding
<1>3. ASSUME FailLocked(e) PROVE pc'[e] \in Holding /\ job'[e].run = job[e].run
  BY <1>1, <1>3 DEF FailLocked, Goto, Remember, Holding, JobType
<1>4. CASE Fetch(e)
  <2>1. lease' = lease
    BY <1>4 DEF Fetch
  <2>2. CASE UNCHANGED extracts /\ Fail(e)
    BY <2>1, <2>2, <1>2
  <2>3. ASSUME NEW report \in Returned(Len(extracts) + 1),
               extracts' = Append(extracts, [month |-> job[e].month, rows |-> report,
                                             by |-> job[e].by]),
               Remember(e, [job[e] EXCEPT !.run = Len(extracts'),
                                          !.prior = Latest(job[e].month, registry)]),
               Goto(e, "lease")
        PROVE  pc'[e] = "lease" /\ job'[e].run = Len(extracts) + 1
    <3>1. pc'[e] = "lease" /\ job'[e].run = Len(extracts')
      BY <2>3, <1>1 DEF Goto, Remember, JobType
    <3>2. extracts \in Seq(ExtractType) /\ job[e] \in JobType(Len(extracts)) /\ Len(extracts) \in Nat
      BY RunPlaced DEF Typed, SheetTypes
    <3>3. [month |-> job[e].month, rows |-> report, by |-> job[e].by] \in ExtractType
      BY <3>2, ReturnedRows, JobFields DEF ExtractType
    <3> QED
      BY <3>1, <3>2, <3>3, <2>3, AppendProperties
  <2> QED
    BY <1>4, <2>1, <2>2, <2>3 DEF Fetch
<1>5. CASE Acquire(e)
  <2>1. CASE lease = 0 /\ lease' = job[e].run /\ Goto(e, "locate") /\ UNCHANGED job
    BY <1>5, <2>1, <1>1 DEF Acquire, Goto
  <2>2. CASE lease' = lease /\ Fail(e)
    BY <2>2, <1>2
  <2> QED
    BY <1>5, <2>1, <2>2 DEF Acquire
<1>6. CASE Release(e)
  <2>1. pc'[e] \notin Holding \union {"lease"}
    BY <1>1, <1>2, <1>6 DEF Release, Goto, Holding
  <2> QED
    BY <1>6, <2>1 DEF Release
<1>7. CASE Locate(e) \/ Delete(e) \/ AppendRows(e) \/ Snapshot(e)
  <2>1. lease' = lease /\ pc[e] \in Holding
    BY <1>7 DEF Locate, Delete, AppendRows, Snapshot, Holding
  <2>2. pc'[e] \in Holding /\ job'[e].run = job[e].run
    BY <1>1, <1>3, <1>7
    DEF Locate, Delete, AppendRows, Snapshot, Holding, Goto, Remember, JobType
  <2> QED
    BY <2>1, <2>2
<1>8. ASSUME ~ Fetch(e), ~ Acquire(e), ~ Release(e), ~ Locate(e), ~ Delete(e), ~ AppendRows(e),
             ~ Snapshot(e)
      PROVE  pc'[e] \notin Holding \union {"lease"} /\ lease' = lease
  <2>1. CASE Target(e) \/ Record(e) \/ Verify(e) \/ Compare(e) \/ Persist(e)
    BY <2>1, <1>1, <1>2 DEF Target, Record, Verify, Compare, Persist, Goto, Holding
  <2>2. CASE Begin(e) \/ Mark(e) \/ Note(e) \/ Advance(e) \/ Ready(e) \/ DropNext(e)
    BY <2>2, <1>1 DEF Begin, Mark, Note, Advance, Ready, DropNext, Goto, Holding
  <2>3. CASE MakeNext(e) \/ DropLast(e) \/ Complete(e) \/ Error(e)
    BY <2>3, <1>1 DEF MakeNext, DropLast, Complete, Error, End, Goto, Holding
  <2>4. CASE WorkerFires(e) \/ CompareCalled(e) \/ Crash(e)
    BY <2>4, <1>1 DEF WorkerFires, CompareCalled, Crash, End, Goto, Holding
  <2>5. CASE \E month \in 1..Months : ExportCalled(e, month)
    BY <2>5, <1>1 DEF ExportCalled, Goto, Holding
  <2> QED
    BY <1>8, <2>1, <2>2, <2>3, <2>4, <2>5 DEF Acts, Progress
<1> QED
  BY <1>4, <1>5, <1>6, <1>7, <1>8

\* The lease stays with one execution at a time
LEMMA HoldStep ==
  ASSUME Typed, Holder, OneRun, NEW e \in Execs, Acts(e)
  PROVE  Holder' /\ OneRun'
<1>1. \A f \in Execs : /\ Len(extracts) \in Nat /\ job[f].run \in 0..Len(extracts)
                       /\ pc[f] \in Holding \union {"lease"} => job[f].run # 0
  BY RunPlaced DEF Holding, AtWrite
<1>2. \A f \in Execs : f # e => pc'[f] = pc[f] /\ job'[f] = job[f]
  BY Alone
<1>3. CASE Fetch(e) /\ pc'[e] = "lease" /\ job'[e].run = Len(extracts) + 1 /\ lease' = lease
  <2>1. Holder'
    BY <1>2, <1>3 DEF Holder, Holding
  <2>2. \A f \in Execs : f # e => job'[f].run # job'[e].run
    BY <1>1, <1>2, <1>3
  <2>3. OneRun'
    BY <1>2, <2>2 DEF OneRun
  <2> QED
    BY <2>1, <2>3
<1>4. CASE /\ pc[e] = "lease" /\ pc'[e] = "locate" /\ job'[e].run = job[e].run
           /\ lease = 0 /\ lease' = job[e].run
  <2>1. \A f \in Execs : pc[f] \notin Holding
    BY <1>1, <1>4 DEF Holder
  <2>2. Holder'
    BY <1>2, <1>4, <2>1 DEF Holder
  <2>3. OneRun'
    BY <1>2, <1>4, <2>1 DEF OneRun, Holding
  <2> QED
    BY <2>2, <2>3
<1>5. CASE /\ Release(e) /\ pc[e] = "release" /\ pc'[e] \notin Holding \union {"lease"}
           /\ lease' = IF lease = job[e].run THEN 0 ELSE lease
  <2>1. \A f \in Execs : f # e => pc[f] \notin Holding
    BY <1>5 DEF Holder, OneRun, Holding
  <2> QED
    BY <1>2, <1>5, <2>1 DEF Holder, OneRun
<1>6. CASE /\ pc[e] \in Holding /\ pc'[e] \in Holding /\ job'[e].run = job[e].run
           /\ lease' = lease
  BY <1>2, <1>6 DEF Holder, OneRun
<1>7. CASE pc'[e] \notin Holding \union {"lease"} /\ lease' = lease
  BY <1>2, <1>7 DEF Holder, OneRun
<1> QED
  BY <1>3, <1>4, <1>5, <1>6, <1>7, LeaseMoves

\* The rows an export writes
NewRows(e) ==
  [i \in DOMAIN Rows(job[e].run) |-> [run |-> job[e].run, month |-> job[e].month]]
Deletes(e, b) ==
  /\ pc[e] = "delete" /\ pc'[e] = "delete" /\ b \in job[e].blocks
  /\ \A other \in job[e].blocks : other.start <= b.start
  /\ store' = Without(store, b)
  /\ job'[e].blocks = job[e].blocks \ {b} /\ job'[e].month = job[e].month
  /\ job'[e].run = job[e].run
Appends(e) ==
  /\ pc[e] = "append" /\ pc'[e] = "snapshot" /\ job'[e] = job[e]
  /\ Joins(store, NewRows(e), store')

\* How the sheet changes
LEMMA SheetMoves ==
  ASSUME Typed, NEW e \in Execs, Acts(e)
  PROVE  \/ store' = store /\ (pc'[e] # "delete" \/ Locate(e)) /\ (pc'[e] # "append" \/ Delete(e))
         \/ \E b \in job[e].blocks : Deletes(e, b)
         \/ Appends(e)
<1>1. pc \in [Execs -> Pcs] /\ job \in [Execs -> JobType(Len(extracts))]
  BY DEF Typed, LocalTypes
<1>2. ASSUME Fail(e) \/ Succeed(e) PROVE pc'[e] \notin {"delete", "append"}
  BY <1>1, <1>2 DEF Fail, Succeed, End, Goto
<1>3. ASSUME FailLocked(e) PROVE pc'[e] \notin {"delete", "append"}
  BY <1>1, <1>3 DEF FailLocked, Goto
<1>4. CASE Delete(e)
  <2>1. CASE store' = store /\ pc'[e] # "delete"
    BY <1>4, <2>1
  <2>2. ASSUME NEW b \in job[e].blocks, \A other \in job[e].blocks : other.start <= b.start,
               store' = Without(store, b),
               Remember(e, [job[e] EXCEPT !.blocks = @ \ {b}]), UNCHANGED pc
        PROVE  Deletes(e, b)
    <3>1. pc[e] = "delete" /\ pc'[e] = "delete"
      BY <1>4, <2>2 DEF Delete
    <3>2. /\ job'[e].blocks = job[e].blocks \ {b} /\ job'[e].month = job[e].month
          /\ job'[e].run = job[e].run
      BY <1>1, <2>2 DEF Remember, JobType
    <3> QED
      BY <2>2, <3>1, <3>2 DEF Deletes
  <2>3. CASE Goto(e, "append") /\ store' = store
    <3>1. pc'[e] = "append"
      BY <2>3, <1>1 DEF Goto
    <3> QED
      BY <2>1, <2>3, <3>1
  <2>4. CASE FailLocked(e) /\ store' = store
    BY <2>1, <2>4, <1>3
  <2> QED
    BY <1>4, <2>2, <2>3, <2>4 DEF Delete
<1>5. CASE AppendRows(e)
  <2>1. CASE FailLocked(e) /\ store' = store
    BY <2>1, <1>3
  <2>2. CASE store' = store \o NewRows(e) /\ Goto(e, "snapshot") /\ UNCHANGED job
    <3>1. pc[e] = "append" /\ pc'[e] = "snapshot" /\ job'[e] = job[e]
      BY <1>1, <1>5, <2>2 DEF AppendRows, Goto
    <3> QED
      BY <2>2, <3>1 DEF Appends, Joins
  <2> QED
    BY <1>5, <2>1, <2>2 DEF AppendRows, NewRows
<1>6. CASE Locate(e)
  <2>1. pc'[e] # "append" /\ store' = store
    BY <1>1, <1>3, <1>6 DEF Locate, Goto, sheetVars
  <2> QED
    BY <1>6, <2>1
<1>7. ASSUME ~ Delete(e), ~ AppendRows(e), ~ Locate(e)
      PROVE  store' = store /\ pc'[e] \notin {"delete", "append"}
  <2>1. CASE Fetch(e) \/ Acquire(e) \/ Snapshot(e) \/ Release(e) \/ Target(e) \/ Record(e)
    BY <2>1, <1>1, <1>2, <1>3
    DEF Fetch, Acquire, Snapshot, Release, Target, Record, Goto, sheetVars
  <2>2. CASE Verify(e) \/ Compare(e) \/ Persist(e)
    BY <2>2, <1>1, <1>2 DEF Verify, Compare, Persist, Goto, sheetVars
  <2>3. CASE Begin(e) \/ Mark(e) \/ Note(e) \/ Advance(e) \/ Ready(e) \/ DropNext(e)
    BY <2>3, <1>1 DEF Begin, Mark, Note, Advance, Ready, DropNext, Goto, sheetVars
  <2>4. CASE MakeNext(e) \/ DropLast(e) \/ Complete(e) \/ Error(e)
    BY <2>4, <1>1 DEF MakeNext, DropLast, Complete, Error, End, Goto, sheetVars
  <2>5. CASE WorkerFires(e) \/ CompareCalled(e) \/ Crash(e)
    BY <2>5, <1>1 DEF WorkerFires, CompareCalled, Crash, End, Goto, sheetVars
  <2>6. CASE \E month \in 1..Months : ExportCalled(e, month)
    BY <2>6, <1>1 DEF ExportCalled, Goto, sheetVars
  <2> QED
    BY <1>7, <2>1, <2>2, <2>3, <2>4, <2>5, <2>6 DEF Acts, Progress
<1> QED
  BY <1>4, <1>5, <1>6, <1>7

\* One deletion: the month shrinks by the block, and no other month changes
LEMMA DeleteCounts ==
  ASSUME Typed, Blocked, NEW e \in Execs, NEW b \in job[e].blocks, Deletes(e, b)
  PROVE  /\ Tiles(job'[e].blocks, store', job'[e].month)
         /\ Len(store') \in Nat /\ Len(store') <= Len(store)
         /\ Len(store') - Len(RowsOf(store', job[e].month)) =
              Len(store) - Len(RowsOf(store, job[e].month))
         /\ \A other : other # job[e].month => RowsOf(store', other) = RowsOf(store, other)
<1> DEFINE X == RowType(Len(extracts))
           month == job[e].month
           rest == Without(store, b)
<1>1. store \in Seq(X)
  BY DEF Typed, SheetTypes
<1>2. Stretch(b, store, month) /\ Tiles(job[e].blocks \ {b}, rest, month)
  BY DeleteLeaves DEF Deletes
<1>3. store' = rest /\ job'[e].blocks = job[e].blocks \ {b} /\ job'[e].month = month
  BY DEF Deletes
<1> HIDE DEF X, month, rest
<1>4. /\ Without(store, b) \in Seq(X) /\ Len(Without(store, b)) = Len(store) - b.count
      /\ \A other : other # month => RowsOf(Without(store, b), other) = RowsOf(store, other)
      /\ RowsOf(store, month) \in Seq(X)
      /\ Len(RowsOf(Without(store, b), month)) = Len(RowsOf(store, month)) - b.count
  BY <1>1, <1>2, Deleted
<1>5. b.count \in Nat
  BY <1>2 DEF Stretch
<1>6. Len(store) \in Nat /\ Len(RowsOf(store, month)) \in Nat /\ Len(Without(store, b)) \in Nat
  BY <1>1, <1>4, LenProperties
<1>7. Len(store') <= Len(store)
  BY <1>3, <1>4, <1>5, <1>6 DEF rest
<1>8. Len(store') - Len(RowsOf(store', month)) = Len(store) - Len(RowsOf(store, month))
  BY <1>3, <1>4, <1>5, <1>6 DEF rest
<1>9. \A other : other # month => RowsOf(store', other) = RowsOf(store, other)
  BY <1>3, <1>4 DEF rest
<1> QED
  BY <1>2, <1>3, <1>6, <1>7, <1>8, <1>9 DEF month, rest

\* What an export writes: its own rows, all of its month
LEMMA NewRowsOfRun ==
  ASSUME Typed, NEW e \in Execs, pc[e] \in AtWrite
  PROVE  /\ NewRows(e) \in Seq(RowType(Len(extracts)))
         /\ Len(NewRows(e)) = Len(Rows(job[e].run)) /\ Len(Rows(job[e].run)) \in Nat
         /\ \A i \in 1..Len(NewRows(e)) : NewRows(e)[i] = [run |-> job[e].run, month |-> job[e].month]
<1> DEFINE r == job[e].run
           m == job[e].month
           x == [run |-> r, month |-> m]
<1>1. SheetTypes /\ r \in 1..Len(extracts) /\ m \in Nat
  BY RunPlaced DEF Typed
<1> HIDE DEF r, m
<1>2. /\ Rows(r) \in Seq(LedgerRow) /\ Len(Rows(r)) \in Nat
      /\ [i \in DOMAIN Rows(r) |-> [run |-> r, month |-> m]] \in Seq(RowType(Len(extracts)))
      /\ Len([i \in DOMAIN Rows(r) |-> [run |-> r, month |-> m]]) = Len(Rows(r))
  BY <1>1, RowsFetched
<1>3. NewRows(e) = [i \in DOMAIN Rows(r) |-> [run |-> r, month |-> m]]
  BY DEF NewRows, r, m
<1>4. DOMAIN Rows(r) = 1..Len(Rows(r))
  BY <1>2, LenProperties
<1>5. \A i \in 1..Len(Rows(r)) : NewRows(e)[i] = x
  BY <1>3, <1>4
<1> QED
  BY <1>2, <1>3, <1>5 DEF r, m

\* One append: a month without rows has all the new ones, and no other month changes
LEMMA AppendCounts ==
  ASSUME Typed, MonthEmpty, NEW e \in Execs, Appends(e)
  PROVE  /\ Len(store') = Len(store) + Len(Rows(job[e].run))
         /\ RowsOf(store', job[e].month) = NewRows(e)
         /\ \A other : other # job[e].month => RowsOf(store', other) = RowsOf(store, other)
<1> DEFINE X == RowType(Len(extracts))
           month == job[e].month
           new == NewRows(e)
<1>1. /\ store \in Seq(X) /\ Joins(store, new, store') /\ pc[e] \in AtWrite
      /\ RowsOf(store, month) = <<>>
  BY DEF Typed, SheetTypes, Appends, MonthEmpty, AtWrite, OfMonth
<1>2. /\ new \in Seq(X) /\ Len(new) = Len(Rows(job[e].run)) /\ Len(Rows(job[e].run)) \in Nat
      /\ \A i \in 1..Len(new) : new[i].month = month
  <2>1. \A i \in 1..Len(new) : new[i] = [run |-> job[e].run, month |-> month]
    BY <1>1, NewRowsOfRun
  <2>2. \A i \in 1..Len(new) : new[i].month = month
    <3> HIDE DEF new, month
    <3> QED
      BY <2>1
  <2> QED
    BY <1>1, <2>2, NewRowsOfRun
<1> HIDE DEF X, month, new
<1>3. Len(store') = Len(store) + Len(new)
  BY <1>1, <1>2, ConcatProperties DEF Joins
<1>4. RowsOf(store', month) = new
  <2>1. Joins(<<>>, RowsOf(new, month), RowsOf(store', month))
    <3>1. Joins(RowsOf(store, month), RowsOf(new, month), RowsOf(store', month))
      BY <1>1, <1>2, RowsOfConcat
    <3> QED
      BY <3>1, <1>1
  <2>2. RowsOf(new, month) = new
    BY <1>2, RowsOfAll
  <2>3. <<>> \o new = new
    BY <1>2, ConcatEmptySeq
  <2> QED
    BY <2>1, <2>2, <2>3 DEF Joins
<1>5. ASSUME NEW other, other # month PROVE RowsOf(store', other) = RowsOf(store, other)
  <2>1. /\ RowsOf(store, other) \in Seq(X)
        /\ Joins(RowsOf(store, other), RowsOf(new, other), RowsOf(store', other))
    BY <1>1, <1>2, RowsOfConcat
  <2>2. \A i \in 1..Len(new) : new[i].month # other
    BY <1>2, <1>5
  <2>3. RowsOf(new, other) = <<>>
    BY <1>2, <2>2, RowsOfNone
  <2>4. RowsOf(store, other) \o <<>> = RowsOf(store, other)
    BY <2>1, ConcatEmptySeq
  <2> QED
    BY <2>1, <2>3, <2>4 DEF Joins
<1> QED
  BY <1>2, <1>3, <1>4, <1>5 DEF month, new

\* What an execution finds in the sheet when it is about to delete or to write
Prepared(f) ==
  /\ pc[f] = "delete" => Tiles(job[f].blocks, store, job[f].month)
  /\ pc[f] = "append" => OfMonth(job[f].month) = <<>>
  /\ pc[f] \in {"delete", "append"} => Room(f)

LEMMA MonthRows ==
  ASSUME Typed, NEW month
  PROVE  /\ OfMonth(month) \in Seq(RowType(Len(extracts))) /\ Len(OfMonth(month)) \in Nat
         /\ Len(store) \in Nat
<1>1. store \in Seq(RowType(Len(extracts)))
  BY DEF Typed, SheetTypes
<1> DEFINE none == <<>>
<1>2. none \in Seq(RowType(Len(extracts))) /\ Joins(store, none, store)
  BY <1>1, ConcatEmptySeq, EmptySeq DEF Joins
<1> HIDE DEF none
<1>3. RowsOf(store, month) \in Seq(RowType(Len(extracts)))
  BY <1>1, <1>2, RowsOfConcat
<1> QED
  BY <1>1, <1>3, LenProperties DEF OfMonth

LEMMA StoreStep ==
  ASSUME Typed, Placed, NEW e \in Execs, Acts(e)
  PROVE  Blocked' /\ MonthEmpty' /\ Fits'
<1>1. /\ Len(store) \in Nat /\ Len(store) <= MaxRows /\ MaxRows \in Nat
      /\ \A f \in Execs : /\ job[f].run \in 0..Len(extracts)
                          /\ pc[f] \in AtWrite => job[f].run \in 1..Len(extracts)
  BY MonthRows, RunPlaced, LedgerConstants DEF Placed, Fits
<1>2. /\ Grows /\ \A f \in Execs : f # e => pc'[f] = pc[f] /\ job'[f] = job[f]
  BY Alone, SheetStep DEF Placed
<1>3. \A f \in Execs : Prepared(f)
  BY DEF Placed, Blocked, MonthEmpty, Fits, Prepared
<1>4. \A r \in 1..Len(extracts) : extracts'[r] = extracts[r]
  BY <1>2 DEF Grows
<1>5. ASSUME NEW f \in Execs, pc'[f] = pc[f], job'[f] = job[f], store' = store
      PROVE  Prepared(f)'
  <2>1. pc[f] \in {"delete", "append"} => extracts'[job[f].run] = extracts[job[f].run]
    BY <1>1, <1>4 DEF AtWrite
  <2>2. Prepared(f)
    BY <1>3
  <2> QED
    BY <1>5, <2>1, <2>2 DEF Prepared, Room, Rows, OfMonth
<1>6. ASSUME Len(store') <= MaxRows, Prepared(e)', store' = store \/ pc[e] \in {"delete", "append"}
      PROVE  Blocked' /\ MonthEmpty' /\ Fits'
  <2>1. ASSUME NEW f \in Execs PROVE Prepared(f)'
    <3>1. CASE f = e
      BY <1>6, <3>1
    <3>2. CASE f # e /\ store' = store
      BY <1>2, <1>5, <3>2
    <3>3. CASE f # e /\ pc[e] \in {"delete", "append"}
      <4>1. pc[f] \notin {"delete", "append"}
        BY <3>3, OneHolder DEF Holding
      <4>2. pc'[f] \notin {"delete", "append"}
        BY <4>1, <3>3, <1>2
      <4> QED
        BY <4>2 DEF Prepared
    <3> QED
      BY <1>6, <3>1, <3>2, <3>3
  <2> QED
    BY <1>6, <2>1 DEF Blocked, MonthEmpty, Fits, Prepared
<1>7. CASE store' = store /\ pc'[e] \notin {"delete", "append"}
  <2>1. Prepared(e)'
    BY <1>7 DEF Prepared
  <2> QED
    BY <1>1, <1>6, <1>7, <2>1
<1>8. CASE Locate(e) /\ store' = store /\ pc'[e] \in {"delete", "append"}
  <2> DEFINE month == job[e].month
             r == job[e].run
             replaced == Len(OfMonth(month))
             fetched == Len(Rows(r))
             more == IF fetched > replaced THEN fetched - replaced ELSE 0
  <2>1. pc \in [Execs -> Pcs] /\ job \in [Execs -> JobType(Len(extracts))]
    BY DEF Typed, LocalTypes
  <2>2. ~ FailLocked(e)
    BY <1>8, <2>1 DEF FailLocked, Goto
  <2>3. /\ ~ (Len(store) + more > MaxRows) /\ Goto(e, "delete")
        /\ Remember(e, [job[e] EXCEPT !.blocks = Blocks(month)])
    BY <1>8, <2>2 DEF Locate
  <2>4. /\ pc'[e] = "delete" /\ job'[e].blocks = Blocks(month) /\ job'[e].month = month
        /\ job'[e].run = r
    BY <2>1, <2>3 DEF Goto, Remember, JobType
  <2>5. Tiles(Blocks(month), store, month)
    <3>1. store \in Seq(RowType(Len(extracts)))
      BY DEF Typed, SheetTypes
    <3> HIDE DEF month
    <3> QED
      BY <3>1, BlocksTile
  <2>6. pc[e] \in AtWrite
    BY <1>8 DEF Locate, AtWrite
  <2>7. r \in 1..Len(extracts) /\ fetched \in Nat /\ replaced \in Nat
    BY <1>1, <2>6, NewRowsOfRun, MonthRows
  <2>8. extracts'[r] = extracts[r]
    BY <1>4, <2>7
  <2>9. Len(store) - replaced + fetched <= MaxRows
    <3> HIDE DEF replaced, fetched
    <3> QED
      BY <2>3, <2>7, <1>1
  <2>10. Prepared(e)'
    BY <1>8, <2>4, <2>5, <2>8, <2>9 DEF Prepared, Room, Rows, OfMonth
  <2> QED
    BY <1>1, <1>6, <1>8, <2>10
<1>9. CASE Delete(e) /\ store' = store /\ pc'[e] \in {"delete", "append"}
  <2>1. pc \in [Execs -> Pcs] /\ job \in [Execs -> JobType(Len(extracts))]
    BY DEF Typed, LocalTypes
  <2>2. ~ FailLocked(e)
    BY <1>9, <2>1 DEF FailLocked, Goto
  <2>3. ASSUME NEW b \in job[e].blocks, \A other \in job[e].blocks : other.start <= b.start,
               store' = Without(store, b)
        PROVE  FALSE
    <3>1. pc[e] = "delete" /\ store \in Seq(RowType(Len(extracts)))
      BY <1>9 DEF Delete, Typed, SheetTypes
    <3>2. Stretch(b, store, job[e].month)
      BY <2>3, <3>1, DeleteLeaves DEF Placed
    <3>3. Len(Without(store, b)) = Len(store) - b.count
      BY <3>1, <3>2, Deleted
    <3>4. Without(store, b) = store
      BY <1>9, <2>3
    <3>5. b.count \in Nat \ {0}
      BY <3>2 DEF Stretch
    <3> QED
      BY <1>1, <3>3, <3>4, <3>5
  <2>4. pc[e] = "delete" /\ job[e].blocks = {} /\ Goto(e, "append") /\ UNCHANGED job
    BY <1>9, <2>2, <2>3 DEF Delete
  <2>5. pc'[e] = "append" /\ job'[e] = job[e]
    BY <2>1, <2>4 DEF Goto
  <2>6. Tiles({}, store, job[e].month) /\ Room(e)
    BY <1>3, <2>4 DEF Prepared
  <2>7. RowsOf(store, job[e].month) = <<>>
    BY <2>6, NoTiles DEF Typed, SheetTypes
  <2>8. extracts'[job[e].run] = extracts[job[e].run]
    BY <1>1, <1>4, <2>4 DEF AtWrite
  <2>9. Prepared(e)'
    BY <1>9, <2>5, <2>6, <2>7, <2>8 DEF Prepared, Room, Rows, OfMonth
  <2> QED
    BY <1>1, <1>6, <1>9, <2>9
<1>10. ASSUME NEW b \in job[e].blocks, Deletes(e, b) PROVE Blocked' /\ MonthEmpty' /\ Fits'
  <2>1. /\ pc[e] = "delete" /\ pc'[e] = "delete" /\ job'[e].month = job[e].month
        /\ job'[e].run = job[e].run
    BY <1>10 DEF Deletes
  <2>2. /\ Tiles(job'[e].blocks, store', job'[e].month)
        /\ Len(store') \in Nat /\ Len(store') <= Len(store)
        /\ Len(store') - Len(RowsOf(store', job[e].month)) =
             Len(store) - Len(RowsOf(store, job[e].month))
    BY <1>10, DeleteCounts DEF Placed
  <2>3. Room(e)
    BY <1>3, <2>1 DEF Prepared
  <2>4. extracts'[job[e].run] = extracts[job[e].run]
    BY <1>1, <1>4, <2>1 DEF AtWrite
  <2>5. Room(e)'
    BY <2>1, <2>2, <2>3, <2>4 DEF Room, Rows, OfMonth
  <2>6. Prepared(e)'
    BY <2>1, <2>2, <2>5 DEF Prepared
  <2>7. Len(store') <= MaxRows
    BY <1>1, <2>2
  <2> QED
    BY <1>6, <2>1, <2>6, <2>7
<1>11. CASE Appends(e)
  <2>1. pc[e] = "append" /\ pc'[e] = "snapshot"
    BY <1>11 DEF Appends
  <2>2. Room(e) /\ OfMonth(job[e].month) = <<>>
    BY <1>3, <2>1 DEF Prepared
  <2>3. Len(store') = Len(store) + Len(Rows(job[e].run))
    BY <1>11, AppendCounts DEF Placed
  <2>4. Len(OfMonth(job[e].month)) = 0
    BY <2>2
  <2>5. Len(Rows(job[e].run)) \in Nat
    BY <2>1, NewRowsOfRun DEF AtWrite
  <2>6. Len(store') <= MaxRows
    BY <1>1, <2>2, <2>3, <2>4, <2>5 DEF Room
  <2>7. Prepared(e)'
    BY <2>1 DEF Prepared
  <2> QED
    BY <1>6, <2>1, <2>6, <2>7
<1> QED
  BY <1>7, <1>8, <1>9, <1>10, <1>11, SheetMoves

-----------------------------------------------------------------------------
(* The types and the sheet, for any hazards *)

LEMMA InitTyped ==
  ASSUME Init
  PROVE  Typed /\ Placed
<1>1. <<>> \in Seq(ExtractType) /\ Len(<<>>) = 0
  BY EmptySeq
<1>2. store \in Seq(RowType(0)) /\ Len(store) <= MaxRows
  <2>1. store \in Seq([run : {0}, month : 1..Months]) /\ Len(store) <= MaxRows
    BY StoredFits DEF Init
  <2>2. [run : {0}, month : 1..Months] \subseteq RowType(0)
    BY LedgerConstants DEF RowType
  <2> HIDE DEF RowType
  <2> QED
    BY <2>1, <2>2, SeqWidens
<1>3. SheetTypes
  BY <1>1, <1>2, EmptySeq DEF Init, SheetTypes
<1>4. ChainTypes
  <2>1. 0 \in 0..MaxStarts /\ 0 \in 0..Months /\ "none" \in Statuses
    BY LedgerConstants DEF Statuses
  <2> QED
    BY <2>1 DEF Init, ChainTypes, ChainType
<1>5. CountTypes
  <2>1. MaxCalls \in Nat /\ MaxFaults \in Nat
    BY LedgerConstants
  <2>2. calls = 0 /\ faults = 0
    BY DEF Init
  <2>3. lost \in BOOLEAN
    BY DEF Init
  <2>4. calls \in 0..MaxCalls + 1 /\ faults \in 0..MaxFaults
    BY <2>1, <2>2
  <2> QED
    BY <2>3, <2>4 DEF CountTypes
<1>6. LocalTypes
  <2>1. NoJob \in JobType(Len(extracts))
    BY <1>1, JobsBuilt DEF Init
  <2>2. "idle" \in Pcs
    BY DEF Pcs
  <2> QED
    BY <2>1, <2>2 DEF Init, LocalTypes
<1>7. \A e \in Execs : pc[e] = "idle"
  BY DEF Init
<1>8. Typed
  BY <1>3, <1>4, <1>5, <1>6, <1>7 DEF Typed, Placeable, AtWrite, AtCompare
<1>9. Placed
  BY <1>2, <1>7 DEF Placed, Holder, OneRun, Holding, Blocked, MonthEmpty, Fits
<1> QED
  BY <1>8, <1>9

LEMMA TypedStep ==
  ASSUME Typed, Placed, [Next]_vars
  PROVE  Typed' /\ Placed'
<1>1. CASE UNCHANGED vars
  BY <1>1 DEF vars, sheetVars, chainVars, countVars, Typed, SheetTypes, ChainTypes, CountTypes,
    LocalTypes, Placeable, Placed, Holder, OneRun, Blocked, MonthEmpty, Fits, Room, OfMonth, Rows
<1>2. CASE Operator
  <2>1. UNCHANGED <<sheetVars, lease, pc, job, faults>>
    BY <1>2, OperatorAlone
  <2>2. Placed'
    BY <2>1 DEF sheetVars, Placed, Holder, OneRun, Blocked, MonthEmpty, Fits, Room, OfMonth, Rows
  <2> QED
    BY <1>2, <2>2, OperatorStep
<1>3. ASSUME NEW e \in Execs, Acts(e) PROVE Typed' /\ Placed'
  <2>1. SheetTypes' /\ ChainTypes' /\ CountTypes' /\ LocalTypes' /\ Placeable'
    BY <1>3, SheetStep, ChainStep, CountStep, Alone, PlaceableStep DEF Placed
  <2>2. Placed'
    BY <1>3, HoldStep, StoreStep DEF Placed
  <2> QED
    BY <2>1, <2>2 DEF Typed
<1> QED
  BY <1>1, <1>2, <1>3 DEF Next, Acts

\* Every variable keeps its type but for the range of the months, the local variables of
\* an execution mean what its place says, and the sheet around an export under the write
\* lease is as that export left it, whatever the hazards (modules 52 and 53).
THEOREM TypedInvariant == Spec => [](Typed /\ Placed)
<1>1. Init => Typed /\ Placed
  BY InitTyped
<1>2. (Typed /\ Placed) /\ [Next]_vars => (Typed /\ Placed)'
  BY TypedStep
<1> QED
  BY <1>1, <1>2, PTL DEF Spec

\* Only the export at its last step before the snapshot comes from "append" to "snapshot"
LEMMA AppendTaken ==
  ASSUME Typed, NEW e \in Execs, Acts(e), pc[e] = "append", pc'[e] = "snapshot"
  PROVE  Appends(e)
<1>1. pc \in [Execs -> Pcs] /\ job \in [Execs -> JobType(Len(extracts))]
  BY DEF Typed, LocalTypes
<1>2. AppendRows(e) \/ Crash(e)
  BY DEF Acts, Progress, Fetch, Acquire, Locate, Delete, Snapshot, Release, Target, Record,
    Verify, Compare, Persist, Begin, Mark, Note, Advance, Ready, DropNext, MakeNext, DropLast,
    Complete, Error, WorkerFires, CompareCalled, ExportCalled
<1>3. ~ Crash(e) /\ ~ FailLocked(e)
  BY <1>1 DEF Crash, End, FailLocked, Goto
<1>4. store' = store \o NewRows(e) /\ UNCHANGED job
  BY <1>2, <1>3 DEF AppendRows, NewRows
<1> QED
  BY <1>4 DEF Appends, Joins

LEMMA PeriodStep ==
  ASSUME Typed, Placed, NEW e \in Execs, Acts(e)
  PROVE  /\ \A month : RowsOf(store', month) # RowsOf(store, month) =>
              /\ pc[e] \in {"delete", "append"} /\ job[e].month = month
              /\ lease = job[e].run
         /\ pc[e] = "append" /\ pc'[e] = "snapshot" =>
              /\ job'[e] = job[e]
              /\ {row.run : row \in Range(RowsOf(store', job[e].month))} \subseteq {job[e].run}
              /\ Len(RowsOf(store', job[e].month)) = Len(Rows(job[e].run))
              /\ job[e].run \in 1..Len(extracts)
<1>1. ASSUME NEW month, RowsOf(store', month) # RowsOf(store, month)
      PROVE  pc[e] \in {"delete", "append"} /\ job[e].month = month /\ lease = job[e].run
  <2>1. ASSUME pc[e] \in {"delete", "append"} PROVE lease = job[e].run
    BY <2>1 DEF Placed, Holder, Holding
  <2>2. store' # store
    BY <1>1
  <2>3. ASSUME NEW b \in job[e].blocks, Deletes(e, b)
        PROVE  pc[e] = "delete" /\ job[e].month = month
    <3>1. \A other : other # job[e].month => RowsOf(store', other) = RowsOf(store, other)
      BY <2>3, DeleteCounts DEF Placed
    <3> QED
      BY <1>1, <2>3, <3>1 DEF Deletes
  <2>4. ASSUME Appends(e) PROVE pc[e] = "append" /\ job[e].month = month
    <3>1. \A other : other # job[e].month => RowsOf(store', other) = RowsOf(store, other)
      BY <2>4, AppendCounts DEF Placed
    <3> QED
      BY <1>1, <2>4, <3>1 DEF Appends
  <2> QED
    BY <2>1, <2>2, <2>3, <2>4, SheetMoves
<1>2. ASSUME pc[e] = "append", pc'[e] = "snapshot"
      PROVE  /\ job'[e] = job[e]
             /\ {row.run : row \in Range(RowsOf(store', job[e].month))} \subseteq {job[e].run}
             /\ Len(RowsOf(store', job[e].month)) = Len(Rows(job[e].run))
             /\ job[e].run \in 1..Len(extracts)
  <2> DEFINE new == NewRows(e)
             run == job[e].run
  <2>1. Appends(e) /\ pc[e] \in AtWrite
    BY <1>2, AppendTaken DEF AtWrite
  <2>2. RowsOf(store', job[e].month) = new
    BY <2>1, AppendCounts DEF Placed
  <2>3. /\ new \in Seq(RowType(Len(extracts))) /\ Len(new) = Len(Rows(run))
        /\ \A i \in 1..Len(new) : new[i] = [run |-> run, month |-> job[e].month]
    BY <2>1, NewRowsOfRun
  <2>4. run \in 1..Len(extracts)
    BY <2>1, RunPlaced
  <2>5. ASSUME NEW row \in Range(new) PROVE row.run = run
    <3> HIDE DEF new, run
    <3>1. PICK i \in DOMAIN new : row = new[i]
      BY DEF Range
    <3>2. i \in 1..Len(new)
      BY <2>3, LenProperties
    <3> QED
      BY <2>3, <3>1, <3>2
  <2>6. {row.run : row \in Range(new)} \subseteq {run}
    <3> HIDE DEF new, run
    <3> QED
      BY <2>5
  <2> QED
    BY <2>1, <2>2, <2>3, <2>4, <2>6 DEF Appends
<1> QED
  BY <1>1, <1>2

\* What PeriodReplaced says of one step
ReplacesPeriod ==
  /\ \A month \in 1..Months :
       OfMonth(month)' # OfMonth(month) =>
         \E e \in Execs : /\ pc[e] \in {"delete", "append"} /\ job[e].month = month
                          /\ lease = job[e].run
  /\ \A e \in Execs : pc[e] = "append" /\ pc'[e] = "snapshot" =>
       /\ {row.run : row \in Range(OfMonth(job[e].month)')} \subseteq {job[e].run}
       /\ Len(OfMonth(job[e].month)') = Len(Rows(job[e].run))

LEMMA PeriodNext ==
  ASSUME Typed, Placed, [Next]_vars
  PROVE  [ReplacesPeriod]_vars
<1> SUFFICES ASSUME Next PROVE ReplacesPeriod
  OBVIOUS
<1>1. CASE Operator
  <2>1. UNCHANGED <<sheetVars, lease, pc, job, faults>>
    BY <1>1, OperatorAlone
  <2>2. \A month : OfMonth(month)' = OfMonth(month)
    BY <2>1 DEF OfMonth, sheetVars
  <2>3. pc' = pc
    BY <2>1
  <2> QED
    BY <2>2, <2>3 DEF ReplacesPeriod
<1>2. ASSUME NEW e \in Execs, Acts(e) PROVE ReplacesPeriod
  <2>1. ASSUME NEW month \in 1..Months, OfMonth(month)' # OfMonth(month)
        PROVE  pc[e] \in {"delete", "append"} /\ job[e].month = month /\ lease = job[e].run
    <3>1. RowsOf(store', month) # RowsOf(store, month)
      BY <2>1 DEF OfMonth
    <3> QED
      BY <1>2, <3>1, PeriodStep
  <2>2. ASSUME NEW f \in Execs, pc[f] = "append", pc'[f] = "snapshot"
        PROVE  /\ {row.run : row \in Range(OfMonth(job[f].month)')} \subseteq {job[f].run}
               /\ Len(OfMonth(job[f].month)') = Len(Rows(job[f].run))
    <3>1. f = e
      BY <1>2, <2>2, Alone
    <3>2. /\ job'[e] = job[e]
          /\ {row.run : row \in Range(RowsOf(store', job[e].month))} \subseteq {job[e].run}
          /\ Len(RowsOf(store', job[e].month)) = Len(Rows(job[e].run))
      BY <1>2, <2>2, <3>1, PeriodStep
    <3>3. OfMonth(job[e].month)' = RowsOf(store', job[e].month)
      BY <3>2 DEF OfMonth
    <3> QED
      BY <3>1, <3>2, <3>3
  <2> QED
    BY <2>1, <2>2 DEF ReplacesPeriod
<1> QED
  BY <1>1, <1>2 DEF Next, Acts

\* A step changes the rows of one month only, that of the export which holds the lease,
\* and the rows an export has written are then all there is of its month, however the
\* blocks of that month lay in the sheet and whatever failed or was ended before.
THEOREM PeriodIsReplaced == Spec => PeriodReplaced
<1>1. Typed /\ Placed /\ [Next]_vars => [ReplacesPeriod]_vars
  BY PeriodNext
<1>2. Spec => [][ReplacesPeriod]_vars
  BY <1>1, TypedInvariant, PTL DEF Spec
<1>3. PeriodReplaced <=> [][ReplacesPeriod]_vars
  BY DEF PeriodReplaced, ReplacesPeriod
<1> QED
  BY <1>2, <1>3, PTL

-----------------------------------------------------------------------------
(* The evidence *)

AtRun == AtWrite \union AtCompare
\* Where the backfill has its month exported ...
AtNote == {"note", "advance", "ready", "dropNext", "makeNext", "dropLast", "complete"}
\* ... and where the snapshot of the run is there
AtSnapshot == {"target", "record", "verify"} \union AtCompare \union AtNote
FiledAt(e) == pc[e] \in AtSnapshot \/ (pc[e] = "release" /\ ~ job[e].failed)

Listed == \A i \in 1..Len(registry) : registry[i] \in snapshots
Pairs(c, files, reports) ==
  /\ c.prior \in files /\ c.current \in files
  /\ reports[c.prior].month = reports[c.current].month
Compared == \A i \in 1..Len(changes) : Pairs(changes[i], snapshots, extracts)

\* The runs an execution works with are runs of its month, and fetched by its backfill
OfItsMonth(e) ==
  /\ extracts[job[e].run].month = job[e].month
  /\ job[e].prior # 0 =>
       job[e].prior \in snapshots /\ extracts[job[e].prior].month = job[e].month
OfItsBackfill(e) == extracts[job[e].run].by = job[e].by
Filed(e) ==
  /\ job[e].run \in snapshots /\ extracts[job[e].run].month = job[e].month
  /\ job[e].by # 0 => OfItsBackfill(e)
Known(e) ==
  /\ pc[e] \in AtRun => OfItsMonth(e)
  /\ pc[e] \in AtWrite => OfItsBackfill(e)
  /\ FiledAt(e) => Filed(e)

Evidenced == Listed /\ Compared /\ \A e \in Execs : Known(e)

\* An execution goes on with the run it had
Follows(e) ==
  /\ job'[e].run = job[e].run /\ job'[e].prior = job[e].prior
  /\ job'[e].month = job[e].month /\ job'[e].by = job[e].by
  /\ pc'[e] \in AtRun => pc[e] \in AtRun
  /\ pc'[e] \in AtWrite => pc[e] \in AtWrite
  /\ \/ FiledAt(e)' => FiledAt(e)
     \/ pc[e] \in AtWrite /\ job[e].run \in snapshots'
Leaves(e) == pc'[e] \notin AtRun \union AtNote

LEMMA EvidenceMoves ==
  ASSUME Typed, NEW e \in Execs, Acts(e)
  PROVE  Fetch(e) \/ CompareCalled(e) \/ Follows(e) \/ Leaves(e)
<1>1. /\ pc \in [Execs -> Pcs] /\ job \in [Execs -> JobType(Len(extracts))]
      /\ job[e] \in JobType(Len(extracts))
  BY DEF Typed, LocalTypes
<1>2. ASSUME Fail(e) PROVE Leaves(e)
  BY <1>1, <1>2 DEF Fail, End, Goto, Leaves, AtRun, AtWrite, AtCompare, AtNote
<1>3. ASSUME FailLocked(e), pc[e] \in AtWrite PROVE Follows(e)
  <2>1. /\ pc'[e] = "release" /\ job'[e].failed = TRUE
        /\ job'[e].run = job[e].run /\ job'[e].prior = job[e].prior
        /\ job'[e].month = job[e].month /\ job'[e].by = job[e].by
    BY <1>1, <1>3 DEF FailLocked, Goto, Remember, JobType
  <2>2. ~ FiledAt(e)'
    BY <2>1 DEF FiledAt, AtSnapshot, AtCompare, AtNote
  <2> QED
    BY <1>3, <2>1, <2>2 DEF Follows, AtRun
<1>4. ASSUME job'[e] = job[e], pc[e] \in AtWrite, pc'[e] \in AtWrite,
             \/ pc'[e] \notin AtSnapshot \union {"release"}
             \/ FiledAt(e)
             \/ job[e].run \in snapshots'
      PROVE  Follows(e)
  BY <1>4 DEF Follows, AtRun, FiledAt
<1>5. ASSUME job'[e] = job[e], FiledAt(e), pc'[e] \in AtCompare \union AtNote,
             pc'[e] \in AtCompare => pc[e] \in AtRun
      PROVE  Follows(e)
  BY <1>5 DEF Follows, AtRun, FiledAt, AtWrite, AtCompare, AtNote
<1>6. ASSUME Succeed(e), FiledAt(e) PROVE Follows(e) \/ Leaves(e)
  <2>1. CASE End(e)
    BY <2>1, <1>1 DEF End, Goto, Leaves, AtRun, AtWrite, AtCompare, AtNote
  <2>2. CASE Goto(e, "note") /\ UNCHANGED job
    <3>1. pc'[e] = "note" /\ job'[e] = job[e]
      BY <1>1, <2>2 DEF Goto
    <3> QED
      BY <1>5, <1>6, <3>1 DEF AtCompare, AtNote
  <2> QED
    BY <1>6, <2>1, <2>2 DEF Succeed
<1>7. CASE Acquire(e)
  <2>1. CASE Fail(e)
    BY <1>2, <2>1
  <2>2. CASE Goto(e, "locate") /\ UNCHANGED job
    <3>1. pc'[e] = "locate" /\ pc[e] = "lease" /\ job'[e] = job[e]
      BY <1>1, <1>7, <2>2 DEF Acquire, Goto
    <3> QED
      BY <1>4, <3>1 DEF AtWrite, AtSnapshot, AtCompare, AtNote
  <2> QED
    BY <1>7, <2>1, <2>2 DEF Acquire
<1>8. CASE Locate(e)
  <2>1. pc[e] = "locate"
    BY <1>8 DEF Locate
  <2>2. CASE FailLocked(e)
    BY <1>3, <2>1, <2>2 DEF AtWrite
  <2>3. CASE Goto(e, "delete") /\ Remember(e, [job[e] EXCEPT !.blocks = Blocks(job[e].month)])
    <3>1. /\ pc'[e] = "delete"
          /\ job'[e].run = job[e].run /\ job'[e].prior = job[e].prior
          /\ job'[e].month = job[e].month /\ job'[e].by = job[e].by
      BY <1>1, <2>3 DEF Goto, Remember, JobType
    <3>2. ~ FiledAt(e)'
      BY <3>1 DEF FiledAt, AtSnapshot, AtCompare, AtNote
    <3> QED
      BY <2>1, <3>1, <3>2 DEF Follows, AtRun, AtWrite
  <2> QED
    BY <1>8, <2>2, <2>3 DEF Locate
<1>9. CASE Delete(e)
  <2>1. pc[e] = "delete"
    BY <1>9 DEF Delete
  <2>2. CASE FailLocked(e)
    BY <1>3, <2>1, <2>2 DEF AtWrite
  <2>3. CASE Goto(e, "append") /\ UNCHANGED job
    <3>1. pc'[e] = "append" /\ job'[e] = job[e]
      BY <1>1, <2>3 DEF Goto
    <3> QED
      BY <1>4, <2>1, <3>1 DEF AtWrite, AtSnapshot, AtCompare, AtNote
  <2>4. ASSUME NEW b, Remember(e, [job[e] EXCEPT !.blocks = @ \ {b}]), UNCHANGED pc
        PROVE  Follows(e)
    <3>1. /\ pc'[e] = "delete"
          /\ job'[e].run = job[e].run /\ job'[e].prior = job[e].prior
          /\ job'[e].month = job[e].month /\ job'[e].by = job[e].by
      BY <1>1, <2>1, <2>4 DEF Remember, JobType
    <3>2. ~ FiledAt(e)'
      BY <3>1 DEF FiledAt, AtSnapshot, AtCompare, AtNote
    <3> QED
      BY <2>1, <3>1, <3>2 DEF Follows, AtRun, AtWrite
  <2> QED
    BY <1>9, <2>2, <2>3, <2>4 DEF Delete
<1>10. CASE AppendRows(e)
  <2>1. pc[e] = "append"
    BY <1>10 DEF AppendRows
  <2>2. CASE FailLocked(e)
    BY <1>3, <2>1, <2>2 DEF AtWrite
  <2>3. CASE Goto(e, "snapshot") /\ UNCHANGED job
    <3>1. pc'[e] = "snapshot" /\ job'[e] = job[e]
      BY <1>1, <2>3 DEF Goto
    <3> QED
      BY <1>4, <2>1, <3>1 DEF AtWrite, AtSnapshot, AtCompare, AtNote
  <2> QED
    BY <1>10, <2>2, <2>3 DEF AppendRows
<1>11. CASE Snapshot(e)
  <2>1. pc[e] = "snapshot"
    BY <1>11 DEF Snapshot
  <2>2. CASE FailLocked(e)
    BY <1>3, <2>1, <2>2 DEF AtWrite
  <2>3. CASE snapshots' = snapshots \union {job[e].run} /\ Goto(e, "release") /\ UNCHANGED job
    <3>1. pc'[e] = "release" /\ job'[e] = job[e] /\ job[e].run \in snapshots'
      BY <1>1, <2>3 DEF Goto
    <3> QED
      BY <1>4, <2>1, <3>1 DEF AtWrite
  <2> QED
    BY <1>11, <2>2, <2>3 DEF Snapshot
<1>12. CASE Release(e)
  <2>1. CASE Fail(e)
    BY <1>2, <2>1
  <2>2. CASE ~ job[e].failed /\ Goto(e, "target") /\ UNCHANGED job
    <3>1. pc'[e] = "target" /\ job'[e] = job[e] /\ pc[e] = "release" /\ FiledAt(e)
      BY <1>1, <1>12, <2>2 DEF Release, Goto, FiledAt
    <3> QED
      BY <1>4, <3>1 DEF AtWrite
  <2> QED
    BY <1>12, <2>1, <2>2 DEF Release
<1>13. CASE Target(e)
  <2>1. /\ pc[e] = "target" /\ pc'[e] = "record"
        /\ job'[e].run = job[e].run /\ job'[e].prior = job[e].prior
        /\ job'[e].month = job[e].month /\ job'[e].by = job[e].by
    BY <1>1, <1>13 DEF Target, Goto, Remember, JobType
  <2>2. FiledAt(e)
    BY <2>1 DEF FiledAt, AtSnapshot
  <2> QED
    BY <2>1, <2>2 DEF Follows, AtRun, AtWrite
<1>14. CASE Record(e)
  <2>1. CASE Fail(e)
    BY <1>2, <2>1
  <2>2. CASE Goto(e, "verify") /\ UNCHANGED job
    <3>1. pc'[e] = "verify" /\ job'[e] = job[e] /\ pc[e] = "record"
      BY <1>1, <1>14, <2>2 DEF Record, Goto
    <3> QED
      BY <1>4, <3>1 DEF AtWrite, FiledAt, AtSnapshot
  <2> QED
    BY <1>14, <2>1, <2>2 DEF Record
<1>15. CASE Verify(e)
  <2>1. CASE Fail(e)
    BY <1>2, <2>1
  <2>2. pc[e] = "verify" /\ FiledAt(e)
    BY <1>15 DEF Verify, FiledAt, AtSnapshot
  <2>3. CASE Succeed(e)
    BY <1>6, <2>2, <2>3
  <2>4. CASE Goto(e, "compare") /\ UNCHANGED job
    <3>1. pc'[e] = "compare" /\ job'[e] = job[e]
      BY <1>1, <2>4 DEF Goto
    <3> QED
      BY <1>5, <2>2, <3>1 DEF AtRun, AtWrite, AtCompare
  <2> QED
    BY <1>15, <2>1, <2>3, <2>4 DEF Verify
<1>16. CASE Compare(e)
  <2>1. CASE Fail(e)
    BY <1>2, <2>1
  <2>2. pc[e] = "compare" /\ FiledAt(e)
    BY <1>16 DEF Compare, FiledAt, AtSnapshot, AtCompare
  <2>3. CASE Succeed(e)
    BY <1>6, <2>2, <2>3
  <2>4. CASE Goto(e, "persist") /\ Remember(e, [job[e] EXCEPT !.target = Len(changes) + 1])
    <3>1. /\ pc'[e] = "persist"
          /\ job'[e].run = job[e].run /\ job'[e].prior = job[e].prior
          /\ job'[e].month = job[e].month /\ job'[e].by = job[e].by
      BY <1>1, <2>4 DEF Goto, Remember, JobType
    <3> QED
      BY <2>2, <3>1 DEF Follows, AtRun, AtWrite, AtCompare
  <2> QED
    BY <1>16, <2>1, <2>3, <2>4 DEF Compare
<1>17. CASE Persist(e)
  <2>1. CASE Fail(e)
    BY <1>2, <2>1
  <2>2. FiledAt(e)
    BY <1>17 DEF Persist, FiledAt, AtSnapshot, AtCompare
  <2> QED
    BY <1>6, <1>17, <2>1, <2>2 DEF Persist
<1>18. ASSUME pc[e] \in AtNote, pc'[e] \in AtNote, job'[e] = job[e] PROVE Follows(e)
  BY <1>5, <1>18 DEF FiledAt, AtSnapshot, AtCompare, AtNote
<1>19. CASE Note(e) \/ Advance(e) \/ Ready(e) \/ DropNext(e) \/ DropLast(e)
  <2>1. pc[e] \in AtNote /\ pc'[e] \in AtNote /\ job'[e] = job[e]
    BY <1>1, <1>19 DEF Note, Advance, Ready, DropNext, DropLast, Goto, AtNote
  <2> QED
    BY <1>18, <2>1
<1>20. CASE Begin(e) \/ Mark(e) \/ MakeNext(e) \/ Complete(e) \/ Error(e)
  BY <1>1, <1>20 DEF Begin, Mark, MakeNext, Complete, Error, End, Goto, Leaves, AtRun, AtWrite,
    AtCompare, AtNote
<1>21. CASE WorkerFires(e) \/ Crash(e) \/ \E month \in 1..Months : ExportCalled(e, month)
  BY <1>1, <1>21 DEF WorkerFires, Crash, ExportCalled, End, Goto, Leaves, AtRun, AtWrite,
    AtCompare, AtNote
<1> QED
  BY <1>7, <1>8, <1>9, <1>10, <1>11, <1>12, <1>13, <1>14, <1>15, <1>16, <1>17, <1>19, <1>20,
     <1>21
  DEF Acts, Progress

\* The lines of the registry and of the change sheet
LEMMA LinesKept ==
  ASSUME Typed, Blocked, Evidenced, NEW e \in Execs, Acts(e)
  PROVE  Listed' /\ Compared'
<1>1. /\ registry \in Seq(1..Len(extracts)) /\ changes \in Seq(PairType(Len(extracts)))
      /\ snapshots \subseteq 1..Len(extracts) /\ Len(registry) \in Nat /\ Len(changes) \in Nat
      /\ DOMAIN registry = 1..Len(registry) /\ DOMAIN changes = 1..Len(changes)
  BY LenProperties DEF Typed, SheetTypes
<1>2. /\ snapshots \subseteq snapshots'
      /\ \A i \in 1..Len(extracts) : extracts'[i] = extracts[i]
      /\ SheetTypes'
  BY SheetStep DEF Grows
<1>3. ASSUME pc[e] \in AtRun, FiledAt(e), job[e].prior # 0
      PROVE  Pairs(Comparison(e), snapshots, extracts)
  BY <1>3 DEF Evidenced, Known, OfItsMonth, Filed, Pairs, Comparison
<1>4. ASSUME NEW c, Pairs(c, snapshots, extracts) PROVE Pairs(c, snapshots', extracts')
  <2>1. c.prior \in 1..Len(extracts) /\ c.current \in 1..Len(extracts)
    BY <1>1, <1>4 DEF Pairs
  <2> QED
    BY <1>2, <1>4, <2>1 DEF Pairs
<1>5. \A i \in 1..Len(registry) : registry[i] \in snapshots'
  BY <1>2 DEF Evidenced, Listed
<1>6. \A i \in 1..Len(changes) : Pairs(changes[i], snapshots', extracts')
  BY <1>4 DEF Evidenced, Compared
<1>7. CASE Record(e)
  <2>1. pc[e] = "record" /\ changes' = changes /\ snapshots' = snapshots
    BY <1>7 DEF Record
  <2>2. job[e].run \in snapshots
    BY <2>1 DEF Evidenced, Known, FiledAt, AtSnapshot, Filed
  <2>3. job[e].target \in 1..(Len(registry) + 1)
    BY <2>1 DEF Typed, Placeable
  <2>4. \/ registry' = registry \/ registry' = Append(registry, job[e].run)
        \/ registry' = [registry EXCEPT ![job[e].target] = job[e].run]
    BY <1>7 DEF Record
  <2>5. CASE registry' = Append(registry, job[e].run)
    <3>1. job[e].run \in 1..Len(extracts)
      BY <1>1, <2>2
    <3>2. /\ Len(registry') = Len(registry) + 1
          /\ \A i \in 1..Len(registry) : registry'[i] = registry[i]
          /\ registry'[Len(registry) + 1] = job[e].run
      BY <1>1, <2>5, <3>1, AppendProperties
    <3>3. Listed'
      BY <1>1, <1>5, <2>1, <2>2, <3>2 DEF Listed
    <3> QED
      BY <3>3, <1>6, <2>1 DEF Compared
  <2>6. CASE registry' = registry
    BY <1>5, <1>6, <2>1, <2>6 DEF Listed, Compared
  <2>7. CASE registry' = [registry EXCEPT ![job[e].target] = job[e].run]
    <3>1. DOMAIN registry' = 1..Len(registry)
      BY <1>1, <2>7
    <3>2. DOMAIN registry' = 1..Len(registry')
      BY <1>2, LenProperties DEF SheetTypes
    <3>3. \A i \in 1..Len(registry) : registry'[i] = job[e].run \/ registry'[i] = registry[i]
      BY <1>1, <2>7
    <3>4. Listed'
      BY <1>5, <2>1, <2>2, <3>1, <3>2, <3>3 DEF Listed
    <3> QED
      BY <3>4, <1>6, <2>1 DEF Compared
  <2> QED
    BY <2>4, <2>5, <2>6, <2>7
<1>8. CASE Persist(e)
  <2> DEFINE n == Cardinality(Changes(Rows(job[e].prior), Rows(job[e].run)))
             block == job[e].target..(job[e].target + n - 1)
  <2>1. pc[e] = "persist" /\ registry' = registry
    BY <1>8 DEF Persist
  <2>2. \/ changes' = changes
        \/ changes' = [i \in DOMAIN changes \union block |->
                         IF i \in block THEN Comparison(e) ELSE changes[i]]
    BY <1>8 DEF Persist
  <2>3. Listed'
    BY <1>5, <2>1 DEF Listed
  <2>4. Pairs(Comparison(e), snapshots', extracts')
    <3>1. pc[e] \in AtRun /\ FiledAt(e) /\ job[e].prior # 0
      BY <2>1 DEF AtRun, AtCompare, FiledAt, AtSnapshot, Typed, Placeable
    <3> QED
      BY <1>3, <1>4, <3>1
  <2>5. CASE changes' = changes
    BY <1>6, <2>3, <2>5 DEF Compared
  <2>6. CASE changes' = [i \in DOMAIN changes \union block |->
                           IF i \in block THEN Comparison(e) ELSE changes[i]]
    <3> HIDE DEF block
    <3>1. \A i \in DOMAIN changes' : \/ changes'[i] = Comparison(e)
                                     \/ i \in 1..Len(changes) /\ changes'[i] = changes[i]
      BY <1>1, <2>6
    <3>2. DOMAIN changes' = 1..Len(changes')
      BY <1>2, LenProperties DEF SheetTypes
    <3>3. Compared'
      BY <1>6, <2>4, <3>1, <3>2 DEF Compared
    <3> QED
      BY <2>3, <3>3
  <2> QED
    BY <2>2, <2>5, <2>6
<1>9. ASSUME ~ Record(e), ~ Persist(e) PROVE registry' = registry /\ changes' = changes
  BY <1>9 DEF Acts, Progress, Fetch, Acquire, Locate, Delete, AppendRows, Snapshot, Release, Target,
    Verify, Compare, Begin, Mark, Note, Advance, Ready, DropNext, MakeNext,
    DropLast, Complete, Error, WorkerFires, CompareCalled, Crash, ExportCalled, sheetVars
<1> QED
  BY <1>5, <1>6, <1>7, <1>8, <1>9 DEF Listed, Compared

\* What is known of the run of an execution that takes no step
LEMMA StillKnown ==
  ASSUME Typed, Grows, NEW f \in Execs, Known(f), pc'[f] = pc[f], job'[f] = job[f]
  PROVE  Known(f)'
<1>1. /\ snapshots \subseteq 1..Len(extracts) /\ snapshots \subseteq snapshots'
      /\ \A i \in 1..Len(extracts) : extracts'[i] = extracts[i]
  BY DEF Typed, SheetTypes, Grows
<1>2. ASSUME pc[f] \in AtRun
      PROVE  extracts'[job[f].run] = extracts[job[f].run]
  BY <1>1, <1>2, RunPlaced DEF AtRun
<1>3. ASSUME pc[f] \in AtRun PROVE OfItsMonth(f)'
  BY <1>1, <1>2, <1>3 DEF OfItsMonth, Known
<1>4. ASSUME pc[f] \in AtWrite PROVE OfItsBackfill(f)'
  BY <1>2, <1>4 DEF OfItsBackfill, Known, AtRun
<1>5. ASSUME FiledAt(f) PROVE Filed(f)'
  <2>1. Filed(f)
    BY <1>5 DEF Known
  <2>2. extracts'[job[f].run] = extracts[job[f].run] /\ job[f].run \in snapshots'
    BY <1>1, <2>1 DEF Filed
  <2> QED
    BY <2>1, <2>2 DEF Filed, OfItsBackfill
<1> QED
  BY <1>3, <1>4, <1>5 DEF Known, FiledAt

\* What is known of the run an execution goes on with
LEMMA FollowsKnown ==
  ASSUME Typed, Grows, NEW e \in Execs, Known(e), Follows(e)
  PROVE  Known(e)'
<1>1. /\ snapshots \subseteq 1..Len(extracts) /\ snapshots \subseteq snapshots'
      /\ \A i \in 1..Len(extracts) : extracts'[i] = extracts[i]
  BY DEF Typed, SheetTypes, Grows
<1>2. /\ job'[e].run = job[e].run /\ job'[e].prior = job[e].prior
      /\ job'[e].month = job[e].month /\ job'[e].by = job[e].by
      /\ pc'[e] \in AtRun => pc[e] \in AtRun
      /\ pc'[e] \in AtWrite => pc[e] \in AtWrite
  BY DEF Follows
<1>3. ASSUME pc[e] \in AtRun PROVE extracts'[job[e].run] = extracts[job[e].run]
  BY <1>1, <1>3, RunPlaced DEF AtRun
<1>4. ASSUME pc'[e] \in AtRun PROVE OfItsMonth(e)'
  BY <1>1, <1>2, <1>3, <1>4 DEF OfItsMonth, Known
<1>5. ASSUME pc'[e] \in AtWrite PROVE OfItsBackfill(e)'
  BY <1>2, <1>3, <1>5 DEF OfItsBackfill, Known, AtRun
<1>6. ASSUME FiledAt(e)' PROVE Filed(e)'
  <2>1. CASE FiledAt(e)
    <3>1. Filed(e)
      BY <2>1 DEF Known
    <3>2. extracts'[job[e].run] = extracts[job[e].run] /\ job[e].run \in snapshots'
      BY <1>1, <3>1 DEF Filed
    <3> QED
      BY <1>2, <3>1, <3>2 DEF Filed, OfItsBackfill
  <2>2. CASE pc[e] \in AtWrite /\ job[e].run \in snapshots'
    <3>1. OfItsMonth(e) /\ OfItsBackfill(e)
      BY <2>2 DEF Known, AtRun
    <3>2. extracts'[job[e].run] = extracts[job[e].run]
      BY <1>3, <2>2 DEF AtRun
    <3> QED
      BY <1>2, <2>2, <3>1, <3>2 DEF OfItsMonth, OfItsBackfill, Filed
  <2> QED
    BY <1>6, <2>1, <2>2 DEF Follows
<1> QED
  BY <1>4, <1>5, <1>6 DEF Known

\* The latest run of a month in the registry is one with a snapshot
LEMMA LatestFiled ==
  ASSUME SheetTypes, Listed, NEW month, Latest(month, registry) # 0
  PROVE  /\ Latest(month, registry) \in snapshots
         /\ extracts[Latest(month, registry)].month = month
<1>1. Len(extracts) \in Nat /\ registry \in Seq(1..Len(extracts))
  BY LenProperties DEF SheetTypes
<1>2. PICK i \in 1..Len(registry) : /\ Latest(month, registry) = registry[i]
                                    /\ extracts[registry[i]].month = month
  BY <1>1, LatestLine
<1> QED
  BY <1>2 DEF Listed

\* ... as is the latest one before the last line
LEMMA EarlierFiled ==
  ASSUME SheetTypes, Listed, NEW month, registry # <<>>,
         Latest(month, SubSeq(registry, 1, Len(registry) - 1)) # 0
  PROVE  /\ Latest(month, SubSeq(registry, 1, Len(registry) - 1)) \in snapshots
         /\ extracts[Latest(month, SubSeq(registry, 1, Len(registry) - 1))].month = month
<1> DEFINE N == Len(extracts)
           L == Len(registry) - 1
           lines == SubSeq(registry, 1, L)
<1>1. N \in Nat /\ registry \in Seq(1..N)
  BY LenProperties DEF SheetTypes
<1>2. L \in Nat /\ \A i \in 1..L : registry[i] \in 1..N
  <2>1. Len(registry) \in Nat /\ Len(registry) # 0
    BY <1>1, EmptySeq, LenProperties
  <2> QED
    BY <1>1, <2>1, ElementOfSeq
<1> HIDE DEF N, L
<1>3. /\ lines \in Seq(1..N) /\ Len(lines) = IF 1 <= L THEN L - 1 + 1 ELSE 0
      /\ \A i \in 1..(L - 1 + 1) : lines[i] = registry[1 + i - 1]
  BY <1>2, SubSeqProperties
<1> HIDE DEF lines
<1>4. Latest(month, lines) # 0
  BY DEF lines, L
<1>5. PICK i \in 1..Len(lines) : /\ Latest(month, lines) = lines[i]
                                 /\ extracts[lines[i]].month = month
  BY <1>1, <1>3, <1>4, LatestLine
<1>6. i \in 1..L /\ lines[i] = registry[i]
  <2>1. Len(lines) = L
    BY <1>2, <1>3
  <2>2. i \in 1..L
    BY <2>1
  <2> QED
    BY <1>2, <1>3, <2>2
<1>7. registry[i] \in snapshots
  <2>1. i \in 1..Len(registry)
    BY <1>1, <1>2, <1>6, LenProperties DEF L
  <2> QED
    BY <2>1 DEF Listed
<1> QED
  BY <1>5, <1>6, <1>7 DEF lines, L

LEMMA EvidenceStep ==
  ASSUME Typed, Placed, Evidenced, NEW e \in Execs, Acts(e)
  PROVE  Evidenced'
<1>1. /\ Len(extracts) \in Nat /\ extracts \in Seq(ExtractType)
      /\ snapshots \subseteq 1..Len(extracts)
      /\ pc \in [Execs -> Pcs] /\ job \in [Execs -> JobType(Len(extracts))]
      /\ job[e] \in JobType(Len(extracts))
  BY LenProperties DEF Typed, SheetTypes, LocalTypes
<1>2. SheetTypes' /\ Grows /\ Listed' /\ Compared'
  BY SheetStep, LinesKept DEF Placed
<1>3. ASSUME NEW f \in Execs, f # e PROVE Known(f)'
  <2>1. pc'[f] = pc[f] /\ job'[f] = job[f] /\ Known(f)
    BY <1>3, Alone DEF Evidenced
  <2> QED
    BY <1>2, <2>1, StillKnown
<1>4. CASE Leaves(e)
  <2>1. pc'[e] \notin AtRun \/ (pc'[e] = "release" /\ FALSE)
    BY <1>4 DEF Leaves
  <2>2. ~ FiledAt(e)'
    BY <1>4 DEF Leaves, FiledAt, AtSnapshot, AtRun, AtWrite
  <2>3. Known(e)'
    BY <2>1, <2>2 DEF Known, AtRun
  <2> QED
    BY <1>2, <1>3, <2>3 DEF Evidenced
<1>5. CASE Follows(e)
  <2>1. Known(e)'
    BY <1>2, <1>5, FollowsKnown DEF Evidenced
  <2> QED
    BY <1>2, <1>3, <2>1 DEF Evidenced
<1>6. CASE Fetch(e)
  <2> DEFINE q == Latest(job[e].month, registry)
  <2>1. CASE UNCHANGED extracts /\ Fail(e)
    <3>1. Leaves(e)
      BY <2>1, <1>1 DEF Fail, End, Goto, Leaves, AtRun, AtWrite, AtCompare, AtNote
    <3> QED
      BY <3>1, <1>4
  <2>2. ASSUME NEW report \in Returned(Len(extracts) + 1),
               extracts' = Append(extracts, [month |-> job[e].month, rows |-> report,
                                             by |-> job[e].by]),
               Remember(e, [job[e] EXCEPT !.run = Len(extracts'), !.prior = q]),
               Goto(e, "lease")
        PROVE  Evidenced'
    <3>1. /\ pc'[e] = "lease" /\ job'[e].run = Len(extracts') /\ job'[e].prior = q
          /\ job'[e].month = job[e].month /\ job'[e].by = job[e].by
      BY <2>2, <1>1 DEF Goto, Remember, JobType
    <3>2. [month |-> job[e].month, rows |-> report, by |-> job[e].by] \in ExtractType
      <4>1. Len(extracts) + 1 \in Nat \ {0} /\ job[e] \in JobType(Len(extracts))
        BY <1>1
      <4>2. report \in Seq(LedgerRow)
        BY <4>1, ReturnedRows
      <4>3. job[e].month \in Nat /\ job[e].by \in 0..MaxStarts
        BY <4>1, JobFields
      <4> QED
        BY <4>2, <4>3 DEF ExtractType
    <3>3. /\ Len(extracts') = Len(extracts) + 1
          /\ extracts'[Len(extracts) + 1] = [month |-> job[e].month, rows |-> report,
                                             by |-> job[e].by]
      BY <1>1, <2>2, <3>2, AppendProperties
    <3>4. OfItsBackfill(e)'
      BY <3>1, <3>3 DEF OfItsBackfill
    <3>5. ASSUME q # 0 PROVE q \in snapshots' /\ extracts'[q].month = job[e].month
      <4>1. q \in snapshots /\ extracts[q].month = job[e].month
        <5>1. SheetTypes /\ Listed
          BY DEF Typed, Evidenced
        <5> QED
          BY <3>5, <5>1, LatestFiled
      <4> HIDE DEF q
      <4> QED
        BY <4>1, <1>1, <1>2 DEF Grows
    <3>6. OfItsMonth(e)'
      <4> HIDE DEF q
      <4> QED
        BY <3>1, <3>3, <3>5 DEF OfItsMonth
    <3>7. ~ FiledAt(e)'
      BY <3>1 DEF FiledAt, AtSnapshot, AtCompare, AtNote
    <3>8. Known(e)'
      BY <3>4, <3>6, <3>7 DEF Known
    <3> QED
      BY <1>2, <1>3, <3>8 DEF Evidenced
  <2> QED
    BY <1>6, <2>1, <2>2 DEF Fetch
<1>7. CASE CompareCalled(e)
  <2> DEFINE current == registry[Len(registry)]
             month == extracts[current].month
             prior == Latest(month, SubSeq(registry, 1, Len(registry) - 1))
  <2>1. /\ pc' = [pc EXCEPT ![e] = "compare"] /\ prior # 0 /\ registry # <<>>
        /\ job' = [job EXCEPT ![e] = [NoJob EXCEPT !.month = month, !.prior = prior,
                                                  !.run = current]]
        /\ UNCHANGED <<extracts, snapshots>>
    BY <1>7 DEF CompareCalled, Goto, Remember, sheetVars
  <2>2. current \in snapshots
    <3>1. registry \in Seq(1..Len(extracts))
      BY DEF Typed, SheetTypes
    <3>2. Len(registry) \in 1..Len(registry)
      BY <2>1, <3>1, EmptySeq, LenProperties
    <3> QED
      BY <3>2 DEF Evidenced, Listed
  <2>3. prior \in snapshots /\ extracts[prior].month = month
    <3>1. SheetTypes /\ Listed
      BY DEF Typed, Evidenced
    <3> HIDE DEF month
    <3> QED
      BY <2>1, <3>1, EarlierFiled
  <2> HIDE DEF current, prior
  <2>4. /\ pc'[e] = "compare" /\ job'[e].prior = prior /\ job'[e].run = current
        /\ job'[e].month = month /\ job'[e].by = 0
    BY <2>1, <1>1 DEF NoJob
  <2>5. OfItsMonth(e)' /\ Filed(e)'
    BY <2>1, <2>2, <2>3, <2>4 DEF OfItsMonth, Filed
  <2>6. Known(e)'
    BY <2>4, <2>5 DEF Known, AtWrite
  <2> QED
    BY <1>2, <1>3, <2>6 DEF Evidenced
<1> QED
  BY <1>4, <1>5, <1>6, <1>7, EvidenceMoves

LEMMA EvidenceNext ==
  ASSUME Typed, Placed, Evidenced, [Next]_vars
  PROVE  Evidenced'
<1>1. CASE UNCHANGED vars
  BY <1>1 DEF vars, sheetVars, Evidenced, Listed, Compared, Known, FiledAt, OfItsMonth,
    OfItsBackfill, Filed
<1>2. CASE Operator
  <2>1. UNCHANGED <<sheetVars, lease, pc, job, faults>>
    BY <1>2, OperatorAlone
  <2> QED
    BY <2>1 DEF sheetVars, Evidenced, Listed, Compared, Known, FiledAt, OfItsMonth,
      OfItsBackfill, Filed
<1>3. ASSUME NEW e \in Execs, Acts(e) PROVE Evidenced'
  BY <1>3, EvidenceStep
<1> QED
  BY <1>1, <1>2, <1>3 DEF Next, Acts

LEMMA InitEvidenced ==
  ASSUME Init
  PROVE  Evidenced
<1>1. Len(registry) = 0 /\ Len(changes) = 0
  BY EmptySeq DEF Init
<1>2. \A e \in Execs : pc[e] = "idle"
  BY DEF Init
<1>3. Listed /\ Compared
  BY <1>1 DEF Listed, Compared
<1> QED
  BY <1>2, <1>3 DEF Evidenced, Known, FiledAt, AtSnapshot, AtRun, AtWrite, AtCompare, AtNote

LEMMA EvidenceSays ==
  ASSUME Typed, Evidenced
  PROVE  EvidenceExact
<1>1. /\ registry \in Seq(1..Len(extracts)) /\ changes \in Seq(PairType(Len(extracts)))
      /\ snapshots \subseteq 1..Len(extracts)
      /\ DOMAIN registry = 1..Len(registry) /\ DOMAIN changes = 1..Len(changes)
  BY LenProperties DEF Typed, SheetTypes
<1>2. Range(registry) \subseteq snapshots
  BY <1>1 DEF Evidenced, Listed, Range
<1>3. ASSUME NEW c \in Range(changes)
      PROVE  /\ {c.prior, c.current} \subseteq snapshots
             /\ extracts[c.prior].month = extracts[c.current].month
             /\ Exact(Rows(c.prior), Rows(c.current))
  <2>1. PICK i \in 1..Len(changes) : c = changes[i]
    BY <1>1 DEF Range
  <2>2. Pairs(c, snapshots, extracts)
    BY <2>1 DEF Evidenced, Compared
  <2>3. c.prior \in 1..Len(extracts) /\ c.current \in 1..Len(extracts)
    BY <1>1, <2>2 DEF Pairs
  <2>4. \A r \in 1..Len(extracts) : Rows(r) \in Seq(LedgerRow)
    <3> SUFFICES ASSUME NEW r \in 1..Len(extracts) PROVE Rows(r) \in Seq(LedgerRow)
      OBVIOUS
    <3>1. SheetTypes /\ 0 \in Nat
      BY DEF Typed
    <3> QED
      BY <3>1, RowsFetched
  <2>5. Exact(Rows(c.prior), Rows(c.current))
    BY <2>3, <2>4, ComparisonExact
  <2> QED
    BY <2>2, <2>5 DEF Pairs
<1> QED
  BY <1>2, <1>3 DEF EvidenceExact

\* Every line of the registry and of the change sheet is about runs with a validated
\* snapshot, and the change rows of two runs account for every row of both, whatever
\* exports and comparisons run at the same time and whatever terminations there were.
THEOREM EvidenceIsExact == Spec => []EvidenceExact
<1>1. Init => Evidenced
  BY InitEvidenced
<1>2. (Typed /\ Placed /\ Evidenced) /\ [Next]_vars => Evidenced'
  BY EvidenceNext
<1>3. Typed /\ Evidenced => EvidenceExact
  BY EvidenceSays
<1> QED
  BY <1>1, <1>2, <1>3, TypedInvariant, PTL DEF Spec

-----------------------------------------------------------------------------
(* The triggers *)

Makers == {e \in Execs : pc[e] = "makeNext"}
\* A trigger is installed for an operator's command, and one more for every worker that
\* has found none and is about to install the next
Triggered == triggers + Cardinality(Makers) <= Cardinality(Execs) + 1

LEMMA MakersCounted ==
  /\ Cardinality(Execs) \in Nat /\ IsFiniteSet(Makers) /\ Cardinality(Makers) \in Nat
  /\ Cardinality(Makers) <= Cardinality(Execs)
<1>1. IsFiniteSet(Execs) /\ Makers \subseteq Execs
  BY LedgerConstants DEF Makers
<1>2. IsFiniteSet(Makers) /\ Cardinality(Makers) <= Cardinality(Execs)
  BY <1>1, FS_Subset
<1> QED
  BY <1>1, <1>2, FS_CardinalityType

LEMMA TriggerMoves ==
  ASSUME Typed, NEW e \in Execs, Acts(e)
  PROVE  \/ triggers' = 0 /\ Begin(e)
         \/ triggers' = 0 /\ pc'[e] \in {"makeNext", "complete"}
         \/ triggers' = triggers + 1 /\ pc[e] = "makeNext" /\ pc'[e] # "makeNext"
         \/ triggers' = triggers - 1 /\ pc'[e] # "makeNext"
         \/ triggers' = triggers /\ pc'[e] # "makeNext"
<1>1. pc \in [Execs -> Pcs]
  BY DEF Typed, LocalTypes
<1>2. ASSUME Fail(e) \/ Succeed(e) \/ FailLocked(e) PROVE pc'[e] # "makeNext"
  BY <1>1, <1>2 DEF Fail, Succeed, FailLocked, End, Goto
<1>3. CASE Begin(e)
  BY <1>3 DEF Begin
<1>4. CASE DropNext(e) \/ DropLast(e)
  BY <1>1, <1>4 DEF DropNext, DropLast, Goto
<1>5. CASE MakeNext(e)
  BY <1>1, <1>5 DEF MakeNext, End, Goto
<1>6. CASE WorkerFires(e)
  BY <1>1, <1>6 DEF WorkerFires, Goto
<1>7. CASE Fetch(e) \/ Acquire(e) \/ Locate(e) \/ Delete(e) \/ AppendRows(e)
  BY <1>1, <1>2, <1>7 DEF Fetch, Acquire, Locate, Delete, AppendRows, Goto, chainVars
<1>8. CASE Snapshot(e) \/ Release(e) \/ Target(e) \/ Record(e) \/ Verify(e) \/ Compare(e)
  BY <1>1, <1>2, <1>8 DEF Snapshot, Release, Target, Record, Verify, Compare, Goto, chainVars
<1>9. CASE Persist(e) \/ Mark(e) \/ Note(e) \/ Advance(e) \/ Ready(e)
  BY <1>1, <1>2, <1>9 DEF Persist, Mark, Note, Advance, Ready, Goto, chainVars
<1>10. CASE Complete(e) \/ Error(e) \/ CompareCalled(e) \/ Crash(e)
  BY <1>1, <1>10 DEF Complete, Error, CompareCalled, Crash, End, Goto, chainVars
<1>11. CASE \E month \in 1..Months : ExportCalled(e, month)
  BY <1>1, <1>11 DEF ExportCalled, Goto, chainVars
<1> QED
  BY <1>3, <1>4, <1>5, <1>6, <1>7, <1>8, <1>9, <1>10, <1>11 DEF Acts, Progress

LEMMA TriggeredStep ==
  ASSUME Typed, Triggered, NEW e \in Execs, Acts(e)
  PROVE  Triggered'
<1>1. /\ Cardinality(Execs) \in Nat /\ IsFiniteSet(Makers) /\ Cardinality(Makers) \in Nat
      /\ IsFiniteSet(Makers') /\ Cardinality(Makers') \in Nat
      /\ Cardinality(Makers') <= Cardinality(Execs) /\ triggers \in Nat
  <2>1. /\ Cardinality(Execs) \in Nat /\ IsFiniteSet(Makers) /\ Cardinality(Makers) \in Nat
        /\ Makers' \subseteq Execs
    BY MakersCounted DEF Makers
  <2>2. IsFiniteSet(Makers') /\ Cardinality(Makers') <= Cardinality(Execs)
    BY <2>1, FS_Subset, LedgerConstants
  <2> QED
    BY <2>1, <2>2, FS_CardinalityType DEF Typed, ChainTypes
<1>2. \A f \in Execs : f # e => pc'[f] = pc[f]
  BY Alone
<1>3. CASE triggers' = 0
  BY <1>1, <1>3 DEF Triggered
<1>4. ASSUME pc'[e] # "makeNext" PROVE Makers' = Makers \ {e}
  BY <1>2, <1>4 DEF Makers
<1>5. CASE triggers' = triggers + 1 /\ pc[e] = "makeNext" /\ pc'[e] # "makeNext"
  <2>1. e \in Makers
    BY <1>5 DEF Makers
  <2>2. Cardinality(Makers') = Cardinality(Makers) - 1
    BY <1>1, <1>4, <1>5, <2>1, FS_RemoveElement
  <2> QED
    BY <1>1, <1>5, <2>2 DEF Triggered
<1>6. CASE (triggers' = triggers - 1 \/ triggers' = triggers) /\ pc'[e] # "makeNext"
  <2>1. Makers' \subseteq Makers
    BY <1>4, <1>6
  <2>2. Cardinality(Makers') <= Cardinality(Makers)
    BY <1>1, <2>1, FS_Subset
  <2> QED
    BY <1>1, <1>6, <2>2 DEF Triggered
<1> QED
  BY <1>3, <1>5, <1>6, TriggerMoves

LEMMA TriggeredNext ==
  ASSUME Typed, Triggered, [Next]_vars
  PROVE  Triggered'
<1>1. CASE UNCHANGED vars
  BY <1>1 DEF vars, chainVars, Triggered, Makers
<1>2. CASE Operator
  <2>1. pc' = pc
    BY <1>2, OperatorAlone
  <2>2. triggers' \in {0, 1} \/ triggers' = triggers
    BY <1>2 DEF Operator, Start, Resume, Cancel, Repair
  <2>3. Makers' = Makers
    BY <2>1 DEF Makers
  <2> QED
    BY <2>2, <2>3, MakersCounted DEF Triggered
<1>3. ASSUME NEW e \in Execs, Acts(e) PROVE Triggered'
  BY <1>3, TriggeredStep
<1> QED
  BY <1>1, <1>2, <1>3 DEF Next, Acts

-----------------------------------------------------------------------------
(* The chain of workers, one backfill at a time *)

\* Where only a worker of the backfill is
AtWork == AtNote \union {"mark", "error"}

WorkPlace(e) ==
  /\ pc[e] \in AtWork => job[e].by # 0
  /\ pc[e] \in {"idle", "begin"} => job[e].by = 0
  /\ pc[e] = "advance" => job[e].month # job[e].last
  /\ pc[e] \in {"dropLast", "complete"} => job[e].month = job[e].last
SameWork(e) ==
  job'[e].by = job[e].by /\ job'[e].month = job[e].month /\ job'[e].last = job[e].last

\* A worker keeps the position it has read until it ends
LEMMA WorkMoves ==
  ASSUME Typed, NEW e \in Execs, Acts(e), WorkPlace(e), pc[e] = "begin" => backfill.run # 0
  PROVE  /\ WorkPlace(e)'
         /\ \/ Begin(e)
            \/ pc'[e] = "idle" /\ job'[e] = NoJob
            \/ ExportCalled(e, job'[e].month) /\ job'[e].by = 0 /\ job'[e].month \in 1..Months
            \/ CompareCalled(e) /\ job'[e].by = 0
            \/ SameWork(e)
<1> DEFINE Good ==
      /\ WorkPlace(e)'
      /\ \/ Begin(e)
         \/ pc'[e] = "idle" /\ job'[e] = NoJob
         \/ ExportCalled(e, job'[e].month) /\ job'[e].by = 0 /\ job'[e].month \in 1..Months
         \/ CompareCalled(e) /\ job'[e].by = 0
         \/ SameWork(e)
<1> SUFFICES Good
  OBVIOUS
<1>1. /\ pc \in [Execs -> Pcs] /\ job \in [Execs -> JobType(Len(extracts))]
      /\ job[e] \in JobType(Len(extracts))
  BY DEF Typed, LocalTypes
<1>2. ASSUME pc' = [pc EXCEPT ![e] = "idle"], job' = [job EXCEPT ![e] = NoJob] PROVE Good
  <2>1. pc'[e] = "idle" /\ job'[e] = NoJob
    BY <1>1, <1>2
  <2>2. job'[e].by = 0
    BY <2>1 DEF NoJob
  <2>3. WorkPlace(e)'
    BY <2>1, <2>2 DEF WorkPlace, AtWork, AtNote
  <2> QED
    BY <2>1, <2>3
<1>3. ASSUME job'[e] = job[e], job[e].by # 0, pc'[e] \in {"note", "error"} PROVE Good
  BY <1>3 DEF WorkPlace, SameWork
<1>4. ASSUME Fail(e) \/ Succeed(e) PROVE Good
  <2>1. CASE End(e)
    BY <1>2, <2>1 DEF End, Goto, Remember
  <2>2. CASE job[e].by # 0 /\ (Goto(e, "note") \/ Goto(e, "error")) /\ UNCHANGED job
    <3>1. pc'[e] \in {"note", "error"} /\ job'[e] = job[e]
      BY <1>1, <2>2 DEF Goto
    <3> QED
      BY <1>3, <2>2, <3>1
  <2> QED
    BY <1>4, <2>1, <2>2 DEF Fail, Succeed
<1>5. ASSUME SameWork(e), pc'[e] \in AtRun \union {"fetch"} PROVE Good
  <2>1. pc'[e] \notin AtWork /\ pc'[e] \notin {"idle", "begin"}
    BY <1>5 DEF AtRun, AtWrite, AtCompare, AtWork, AtNote
  <2>2. WorkPlace(e)'
    BY <2>1 DEF WorkPlace, AtWork, AtNote
  <2> QED
    BY <1>5, <2>2
<1>6. ASSUME FailLocked(e) PROVE Good
  <2>1. pc'[e] = "release" /\ SameWork(e)
    BY <1>1, <1>6 DEF FailLocked, Goto, Remember, SameWork, JobType
  <2> QED
    BY <1>5, <2>1 DEF AtRun, AtWrite
<1>7. CASE Fetch(e)
  <2>1. CASE Goto(e, "lease") /\ \E r, q : Remember(e, [job[e] EXCEPT !.run = r, !.prior = q])
    <3>1. pc'[e] = "lease" /\ SameWork(e)
      BY <1>1, <2>1 DEF Goto, Remember, SameWork, JobType
    <3> QED
      BY <1>5, <3>1 DEF AtRun, AtWrite
  <2>2. CASE Fail(e)
    BY <1>4, <2>2
  <2> QED
    BY <1>7, <2>1, <2>2 DEF Fetch
<1>8. CASE Acquire(e)
  <2>1. CASE Goto(e, "locate") /\ UNCHANGED job
    <3>1. pc'[e] = "locate" /\ SameWork(e)
      BY <1>1, <2>1 DEF Goto, SameWork
    <3> QED
      BY <1>5, <3>1 DEF AtRun, AtWrite
  <2>2. CASE Fail(e)
    BY <1>4, <2>2
  <2> QED
    BY <1>8, <2>1, <2>2 DEF Acquire
<1>9. CASE Locate(e)
  <2>1. CASE Goto(e, "delete") /\ \E B : Remember(e, [job[e] EXCEPT !.blocks = B])
    <3>1. pc'[e] = "delete" /\ SameWork(e)
      BY <1>1, <2>1 DEF Goto, Remember, SameWork, JobType
    <3> QED
      BY <1>5, <3>1 DEF AtRun, AtWrite
  <2> QED
    BY <1>6, <1>9, <2>1 DEF Locate
<1>10. CASE Delete(e)
  <2>1. ASSUME NEW b, Remember(e, [job[e] EXCEPT !.blocks = @ \ {b}]), UNCHANGED pc PROVE Good
    <3>1. pc'[e] = "delete" /\ SameWork(e)
      BY <1>1, <1>10, <2>1 DEF Delete, Remember, SameWork, JobType
    <3> QED
      BY <1>5, <3>1 DEF AtRun, AtWrite
  <2>2. CASE Goto(e, "append") /\ UNCHANGED job
    <3>1. pc'[e] = "append" /\ SameWork(e)
      BY <1>1, <2>2 DEF Goto, SameWork
    <3> QED
      BY <1>5, <3>1 DEF AtRun, AtWrite
  <2> QED
    BY <1>6, <1>10, <2>1, <2>2 DEF Delete
<1>11. CASE AppendRows(e) \/ Snapshot(e)
  <2>1. CASE (Goto(e, "snapshot") \/ Goto(e, "release")) /\ UNCHANGED job
    <3>1. pc'[e] \in {"snapshot", "release"} /\ SameWork(e)
      BY <1>1, <2>1 DEF Goto, SameWork
    <3> QED
      BY <1>5, <3>1 DEF AtRun, AtWrite
  <2> QED
    BY <1>6, <1>11, <2>1 DEF AppendRows, Snapshot
<1>12. CASE Release(e) \/ Record(e)
  <2>1. CASE (Goto(e, "target") \/ Goto(e, "verify")) /\ UNCHANGED job
    <3>1. pc'[e] \in {"target", "verify"} /\ SameWork(e)
      BY <1>1, <2>1 DEF Goto, SameWork
    <3> QED
      BY <1>5, <3>1 DEF AtRun, AtWrite
  <2> QED
    BY <1>4, <1>12, <2>1 DEF Release, Record
<1>13. CASE Target(e)
  <2>1. pc'[e] = "record" /\ SameWork(e)
    BY <1>1, <1>13 DEF Target, Goto, Remember, SameWork, JobType
  <2> QED
    BY <1>5, <2>1 DEF AtRun, AtWrite
<1>14. CASE Verify(e)
  <2>1. CASE Goto(e, "compare") /\ UNCHANGED job
    <3>1. pc'[e] = "compare" /\ SameWork(e)
      BY <1>1, <2>1 DEF Goto, SameWork
    <3> QED
      BY <1>5, <3>1 DEF AtRun, AtCompare
  <2> QED
    BY <1>4, <1>14, <2>1 DEF Verify
<1>15. CASE Compare(e)
  <2>1. CASE Goto(e, "persist") /\ Remember(e, [job[e] EXCEPT !.target = Len(changes) + 1])
    <3>1. pc'[e] = "persist" /\ SameWork(e)
      BY <1>1, <2>1 DEF Goto, Remember, SameWork, JobType
    <3> QED
      BY <1>5, <3>1 DEF AtRun, AtCompare
  <2> QED
    BY <1>4, <1>15, <2>1 DEF Compare
<1>16. CASE Persist(e)
  BY <1>4, <1>16 DEF Persist
<1>17. CASE Begin(e)
  <2>1. pc[e] = "begin" /\ pc'[e] = "mark" /\ job'[e].by = backfill.run
    BY <1>1, <1>17 DEF Begin, Goto, Remember, NoJob
  <2>2. WorkPlace(e)'
    BY <2>1 DEF WorkPlace
  <2> QED
    BY <1>17, <2>2
<1>18. CASE Mark(e)
  <2>1. pc'[e] = "fetch" /\ SameWork(e)
    BY <1>1, <1>18 DEF Mark, Goto, SameWork
  <2> QED
    BY <1>5, <2>1
<1>19. CASE Note(e)
  <2>1. /\ job'[e] = job[e] /\ pc[e] = "note"
        /\ pc'[e] = IF job[e].month = job[e].last THEN "dropLast" ELSE "advance"
    BY <1>1, <1>19 DEF Note, Goto
  <2>2. job[e].by # 0
    BY <2>1 DEF WorkPlace, AtWork, AtNote
  <2> QED
    BY <2>1, <2>2 DEF WorkPlace, SameWork
<1>20. CASE Advance(e) \/ Ready(e) \/ DropNext(e)
  <2>1. job'[e] = job[e] /\ pc[e] \in AtNote /\ pc'[e] \in {"ready", "dropNext", "makeNext"}
    BY <1>1, <1>20 DEF Advance, Ready, DropNext, Goto, AtNote
  <2>2. job[e].by # 0
    BY <2>1 DEF WorkPlace, AtWork
  <2> QED
    BY <2>1, <2>2 DEF WorkPlace, SameWork
<1>21. CASE DropLast(e)
  <2>1. job'[e] = job[e] /\ pc[e] = "dropLast" /\ pc'[e] = "complete"
    BY <1>1, <1>21 DEF DropLast, Goto
  <2>2. job[e].by # 0 /\ job[e].month = job[e].last
    BY <2>1 DEF WorkPlace, AtWork, AtNote
  <2> QED
    BY <2>1, <2>2 DEF WorkPlace, SameWork
<1>22. CASE MakeNext(e) \/ Complete(e) \/ Error(e) \/ Crash(e)
  BY <1>2, <1>22 DEF MakeNext, Complete, Error, Crash, End, Goto, Remember
<1>23. CASE WorkerFires(e)
  <2>1. job'[e] = job[e] /\ pc[e] = "idle" /\ pc'[e] = "begin"
    BY <1>1, <1>23 DEF WorkerFires, Goto
  <2>2. job[e].by = 0
    BY <2>1 DEF WorkPlace
  <2> QED
    BY <2>1, <2>2 DEF WorkPlace, SameWork, AtWork, AtNote
<1>24. CASE CompareCalled(e)
  <2>1. pc'[e] = "compare" /\ job'[e].by = 0
    BY <1>1, <1>24 DEF CompareCalled, Goto, Remember, NoJob
  <2>2. WorkPlace(e)'
    BY <2>1 DEF WorkPlace, AtWork, AtNote
  <2> QED
    BY <1>24, <2>1, <2>2
<1>25. ASSUME NEW month \in 1..Months, ExportCalled(e, month) PROVE Good
  <2>1. pc'[e] = "fetch" /\ job'[e].by = 0 /\ job'[e].month = month
    BY <1>1, <1>25 DEF ExportCalled, Goto, Remember, NoJob
  <2>2. WorkPlace(e)'
    BY <2>1 DEF WorkPlace, AtWork, AtNote
  <2> QED
    BY <1>25, <2>1, <2>2
<1> QED
  <2> HIDE DEF Good
  <2> QED
    BY <1>7, <1>8, <1>9, <1>10, <1>11, <1>12, <1>13, <1>14, <1>15, <1>16, <1>17, <1>18, <1>19,
       <1>20, <1>21, <1>22, <1>23, <1>24, <1>25
    DEF Acts, Progress

\* A month has a snapshot fetched by a backfill, and so have all from the first to before n
Backed(b, m, files, reports) ==
  \E r \in files : reports[r].month = m /\ reports[r].by = b
Covered(b, first, n, files, reports) ==
  \A m \in first..(n - 1) : Backed(b, m, files, reports)

\* The position of a backfill, and that of a worker of it
Position(b, files, reports) ==
  b.run # 0 =>
    /\ 1 <= b.first /\ b.first <= b.month /\ b.month <= b.last
    /\ Covered(b.run, b.first, b.month, files, reports)
    /\ b.status = "COMPLETE" => Covered(b.run, b.first, b.last + 1, files, reports)
    /\ b.done # 0 => Backed(b.run, b.done, files, reports)
Linked(j, b, files, reports) ==
  j.by # 0 =>
    /\ j.by = b.run /\ j.last = b.last /\ b.first <= j.month /\ j.month <= j.last
    /\ Covered(b.run, b.first, j.month, files, reports)

Chained ==
  /\ Position(backfill, snapshots, extracts)
  /\ triggers > 0 => backfill.run # 0
  /\ \A e \in Execs : pc[e] = "begin" => backfill.run # 0
  /\ \A e \in Execs : WorkPlace(e) /\ Linked(job[e], backfill, snapshots, extracts)

LEMMA BackedStays ==
  ASSUME Typed, Grows, NEW b, NEW m, Backed(b, m, snapshots, extracts)
  PROVE  Backed(b, m, snapshots', extracts')
<1>1. PICK r \in snapshots : extracts[r].month = m /\ extracts[r].by = b
  BY DEF Backed
<1>2. r \in snapshots' /\ extracts'[r] = extracts[r]
  BY <1>1 DEF Typed, SheetTypes, Grows
<1> QED
  BY <1>1, <1>2 DEF Backed

LEMMA CoveredStays ==
  ASSUME Typed, Grows, NEW b, NEW first, NEW n, Covered(b, first, n, snapshots, extracts)
  PROVE  Covered(b, first, n, snapshots', extracts')
BY BackedStays DEF Covered

LEMMA PositionStays ==
  ASSUME Typed, Grows, NEW b, Position(b, snapshots, extracts)
  PROVE  Position(b, snapshots', extracts')
BY BackedStays, CoveredStays DEF Position

LEMMA LinkedStays ==
  ASSUME Typed, Grows, NEW j, NEW b, NEW k, NEW c, Linked(j, b, snapshots, extracts),
         c.run = b.run, c.first = b.first, c.last = b.last,
         k.by = j.by, k.month = j.month, k.last = j.last
  PROVE  Linked(k, c, snapshots', extracts')
<1> SUFFICES ASSUME k.by # 0
             PROVE  /\ k.by = c.run /\ k.last = c.last /\ c.first <= k.month /\ k.month <= k.last
                    /\ Covered(c.run, c.first, k.month, snapshots', extracts')
  BY DEF Linked
<1>1. /\ j.by = b.run /\ j.last = b.last /\ b.first <= j.month /\ j.month <= j.last
      /\ Covered(b.run, b.first, j.month, snapshots, extracts)
  BY DEF Linked
<1>2. Covered(b.run, b.first, j.month, snapshots', extracts')
  BY <1>1, CoveredStays
<1> QED
  BY <1>1, <1>2

\* How a worker changes the properties of the backfill
LEMMA BackfillMoves ==
  ASSUME Typed, NEW e \in Execs, Acts(e)
  PROVE  \/ backfill' = backfill
         \/ \E status \in Statuses \ {"COMPLETE"} :
              backfill' = [backfill EXCEPT !.status = status]
         \/ pc[e] = "complete" /\ backfill' = [backfill EXCEPT !.status = "COMPLETE"]
         \/ pc[e] = "note" /\ backfill' = [backfill EXCEPT !.done = job[e].month]
         \/ pc[e] = "advance" /\ backfill' = [backfill EXCEPT !.month = job[e].month + 1]
<1>1. {"RUNNING", "READY", "ERROR"} \subseteq Statuses \ {"COMPLETE"}
  BY DEF Statuses
<1>2. CASE Mark(e) \/ Ready(e) \/ Error(e)
  BY <1>1, <1>2 DEF Mark, Ready, Error, SetStatus
<1>3. CASE Complete(e) \/ Note(e) \/ Advance(e)
  BY <1>3 DEF Complete, Note, Advance, SetStatus
<1>4. ASSUME ~ Mark(e), ~ Ready(e), ~ Error(e), ~ Complete(e), ~ Note(e), ~ Advance(e)
      PROVE  backfill' = backfill
  BY <1>4 DEF Acts, Progress, Fetch, Acquire, Locate, Delete, AppendRows, Snapshot, Release, Target,
    Record, Verify, Compare, Persist, Begin, DropNext, MakeNext, DropLast, WorkerFires,
    CompareCalled, Crash, ExportCalled, chainVars
<1> QED
  BY <1>2, <1>3, <1>4

\* A worker that has noted its month, or is about to, has all months up to it covered
LEMMA MonthBacked ==
  ASSUME Typed, Evidenced, Chained, NEW e \in Execs, pc[e] \in AtNote
  PROVE  /\ backfill.run # 0 /\ backfill.last = job[e].last /\ backfill.first <= job[e].month
         /\ job[e].month <= job[e].last /\ job[e].month \in Nat
         /\ Backed(backfill.run, job[e].month, snapshots, extracts)
         /\ Covered(backfill.run, backfill.first, job[e].month + 1, snapshots, extracts)
<1>1. job[e].month \in Nat /\ backfill.first \in Nat
  <2>1. backfill \in ChainType
    BY DEF Typed, ChainTypes
  <2> QED
    BY <2>1, RunPlaced, LedgerConstants DEF ChainType
<1>2. job[e].by # 0 /\ Linked(job[e], backfill, snapshots, extracts)
  BY DEF Chained, WorkPlace, AtWork
<1>3. /\ job[e].by = backfill.run /\ job[e].last = backfill.last
      /\ backfill.first <= job[e].month /\ job[e].month <= job[e].last
      /\ Covered(backfill.run, backfill.first, job[e].month, snapshots, extracts)
  BY <1>2 DEF Linked
<1>4. Filed(e)
  BY DEF Evidenced, Known, FiledAt, AtSnapshot
<1>5. Backed(backfill.run, job[e].month, snapshots, extracts)
  BY <1>2, <1>3, <1>4 DEF Filed, OfItsBackfill, Backed
<1>6. ASSUME NEW m \in backfill.first..((job[e].month + 1) - 1)
      PROVE  Backed(backfill.run, m, snapshots, extracts)
  <2>1. m = job[e].month \/ m \in backfill.first..(job[e].month - 1)
    BY <1>1, <1>6
  <2> QED
    BY <1>3, <1>5, <2>1 DEF Covered
<1>7. Covered(backfill.run, backfill.first, job[e].month + 1, snapshots, extracts)
  BY <1>6 DEF Covered
<1> QED
  BY <1>1, <1>2, <1>3, <1>5, <1>7

LEMMA PositionStep ==
  ASSUME Typed, Grows, Evidenced, Chained, NEW e \in Execs, Acts(e)
  PROVE  /\ Position(backfill', snapshots', extracts')
         /\ backfill'.run = backfill.run /\ backfill'.first = backfill.first
         /\ backfill'.last = backfill.last
<1>1. backfill \in ChainType
  BY DEF Typed, ChainTypes
<1>2. Position(backfill, snapshots', extracts')
  BY PositionStays DEF Chained
<1>3. ASSUME NEW status, status # "COMPLETE", backfill' = [backfill EXCEPT !.status = status]
      PROVE  /\ Position(backfill', snapshots', extracts')
             /\ backfill'.run = backfill.run /\ backfill'.first = backfill.first
             /\ backfill'.last = backfill.last
  <2>1. /\ backfill'.run = backfill.run /\ backfill'.first = backfill.first
        /\ backfill'.last = backfill.last /\ backfill'.month = backfill.month
        /\ backfill'.done = backfill.done /\ backfill'.status = status
    BY <1>1, <1>3 DEF ChainType
  <2> QED
    BY <1>2, <1>3, <2>1 DEF Position
<1>4. CASE pc[e] = "complete" /\ backfill' = [backfill EXCEPT !.status = "COMPLETE"]
  <2>1. /\ backfill'.run = backfill.run /\ backfill'.first = backfill.first
        /\ backfill'.last = backfill.last /\ backfill'.month = backfill.month
        /\ backfill'.done = backfill.done
    BY <1>1, <1>4 DEF ChainType
  <2>2. pc[e] \in AtNote /\ job[e].month = job[e].last
    BY <1>4 DEF AtNote, Chained, WorkPlace
  <2>3. Covered(backfill.run, backfill.first, backfill.last + 1, snapshots, extracts)
    BY <2>2, MonthBacked
  <2>4. Covered(backfill.run, backfill.first, backfill.last + 1, snapshots', extracts')
    BY <2>3, CoveredStays
  <2> QED
    BY <1>2, <2>1, <2>4 DEF Position
<1>5. CASE pc[e] = "note" /\ backfill' = [backfill EXCEPT !.done = job[e].month]
  <2>1. /\ backfill'.run = backfill.run /\ backfill'.first = backfill.first
        /\ backfill'.last = backfill.last /\ backfill'.month = backfill.month
        /\ backfill'.done = job[e].month /\ backfill'.status = backfill.status
    BY <1>1, <1>5 DEF ChainType
  <2>2. pc[e] \in AtNote
    BY <1>5 DEF AtNote
  <2>3. Backed(backfill.run, job[e].month, snapshots', extracts')
    BY <2>2, MonthBacked, BackedStays
  <2> QED
    BY <1>2, <2>1, <2>3 DEF Position
<1>6. CASE pc[e] = "advance" /\ backfill' = [backfill EXCEPT !.month = job[e].month + 1]
  <2>1. /\ backfill'.run = backfill.run /\ backfill'.first = backfill.first
        /\ backfill'.last = backfill.last /\ backfill'.month = job[e].month + 1
        /\ backfill'.done = backfill.done /\ backfill'.status = backfill.status
    BY <1>1, <1>6 DEF ChainType
  <2>2. pc[e] \in AtNote /\ job[e].month # job[e].last
    BY <1>6 DEF AtNote, Chained, WorkPlace
  <2>3. /\ backfill.last = job[e].last /\ backfill.first <= job[e].month
        /\ job[e].month <= job[e].last /\ job[e].month \in Nat
        /\ Covered(backfill.run, backfill.first, job[e].month + 1, snapshots, extracts)
    BY <2>2, MonthBacked
  <2>4. Covered(backfill.run, backfill.first, job[e].month + 1, snapshots', extracts')
    BY <2>3, CoveredStays
  <2>5. backfill.first \in Nat /\ backfill.last \in Nat
    BY <1>1, LedgerConstants DEF ChainType
  <2>6. backfill.first <= job[e].month + 1 /\ job[e].month + 1 <= backfill.last
    BY <2>2, <2>3, <2>5
  <2> QED
    BY <1>2, <2>1, <2>4, <2>6 DEF Position
<1> QED
  BY <1>2, <1>3, <1>4, <1>5, <1>6, BackfillMoves

\* A worker starts from a trigger
LEMMA BegunByTrigger ==
  ASSUME Typed, NEW e \in Execs, Acts(e), pc'[e] = "begin"
  PROVE  triggers > 0
<1>1. pc \in [Execs -> Pcs]
  BY DEF Typed, LocalTypes
<1>2. ASSUME Fail(e) \/ Succeed(e) \/ FailLocked(e) PROVE FALSE
  BY <1>1, <1>2 DEF Fail, Succeed, FailLocked, End, Goto
<1>3. ~ (Fetch(e) \/ Acquire(e) \/ Locate(e) \/ Delete(e) \/ AppendRows(e))
  BY <1>1, <1>2 DEF Fetch, Acquire, Locate, Delete, AppendRows, Goto
<1>4. ~ (Snapshot(e) \/ Release(e) \/ Target(e) \/ Record(e) \/ Verify(e) \/ Compare(e))
  BY <1>1, <1>2 DEF Snapshot, Release, Target, Record, Verify, Compare, Goto
<1>5. ~ (Persist(e) \/ Begin(e) \/ Mark(e) \/ Note(e) \/ Advance(e) \/ Ready(e))
  BY <1>1, <1>2 DEF Persist, Begin, Mark, Note, Advance, Ready, Goto
<1>6. ~ (DropNext(e) \/ MakeNext(e) \/ DropLast(e) \/ Complete(e) \/ Error(e))
  BY <1>1 DEF DropNext, MakeNext, DropLast, Complete, Error, End, Goto
<1>7. ~ (CompareCalled(e) \/ Crash(e) \/ \E month \in 1..Months : ExportCalled(e, month))
  BY <1>1 DEF CompareCalled, Crash, ExportCalled, End, Goto
<1>8. WorkerFires(e)
  BY <1>3, <1>4, <1>5, <1>6, <1>7 DEF Acts, Progress
<1> QED
  BY <1>8 DEF WorkerFires

LEMMA ChainedStep ==
  ASSUME Typed, Placed, Evidenced, Chained, NEW e \in Execs, Acts(e)
  PROVE  Chained'
<1>1. /\ Grows /\ backfill \in ChainType /\ triggers \in Nat
      /\ pc \in [Execs -> Pcs] /\ job \in [Execs -> JobType(Len(extracts))]
  BY SheetStep DEF Placed, Typed, ChainTypes, LocalTypes
<1>2. /\ Position(backfill', snapshots', extracts')
      /\ backfill'.run = backfill.run /\ backfill'.first = backfill.first
      /\ backfill'.last = backfill.last
  BY <1>1, PositionStep
<1>3. \A f \in Execs : f # e => pc'[f] = pc[f] /\ job'[f] = job[f]
  BY Alone
<1>4. triggers' > 0 => backfill'.run # 0
  <2>1. CASE pc[e] = "makeNext"
    <3>1. pc[e] \in AtNote
      BY <2>1 DEF AtNote
    <3> QED
      BY <1>2, <3>1, MonthBacked
  <2>2. CASE pc[e] # "makeNext"
    <3>1. triggers' = 0 \/ triggers' = triggers - 1 \/ triggers' = triggers
      BY <2>2, TriggerMoves
    <3>2. triggers' > 0 => triggers > 0
      BY <1>1, <3>1
    <3> QED
      BY <1>2, <3>2 DEF Chained
  <2> QED
    BY <2>1, <2>2
<1>5. \A f \in Execs : pc'[f] = "begin" => backfill'.run # 0
  <2>1. pc'[e] = "begin" => backfill.run # 0
    BY BegunByTrigger DEF Chained
  <2> QED
    BY <1>2, <1>3, <2>1 DEF Chained
<1>6. ASSUME NEW f \in Execs, f # e
      PROVE  WorkPlace(f)' /\ Linked(job'[f], backfill', snapshots', extracts')
  <2>1. pc'[f] = pc[f] /\ job'[f] = job[f]
    BY <1>3, <1>6
  <2>2. WorkPlace(f) /\ Linked(job[f], backfill, snapshots, extracts)
    BY DEF Chained
  <2>3. Linked(job'[f], backfill', snapshots', extracts')
    BY <1>1, <1>2, <2>1, <2>2, LinkedStays
  <2> QED
    BY <2>1, <2>2, <2>3 DEF WorkPlace
<1>7. /\ WorkPlace(e)'
      /\ Begin(e) \/ job'[e].by = 0 \/ SameWork(e)
  <2>1. WorkPlace(e) /\ (pc[e] = "begin" => backfill.run # 0)
    BY DEF Chained
  <2>2. NoJob.by = 0
    BY DEF NoJob
  <2> QED
    BY <2>1, <2>2, WorkMoves
<1>8. Linked(job'[e], backfill', snapshots', extracts')
  <2>1. CASE job'[e].by = 0
    BY <2>1 DEF Linked
  <2>2. CASE SameWork(e)
    <3>1. Linked(job[e], backfill, snapshots, extracts)
      BY DEF Chained
    <3> QED
      BY <1>1, <1>2, <2>2, <3>1, LinkedStays DEF SameWork
  <2>3. CASE Begin(e)
    <3>1. /\ backfill' = backfill /\ job'[e].by = backfill.run
          /\ job'[e].month = backfill.month /\ job'[e].last = backfill.last
      BY <1>1, <2>3 DEF Begin, Remember, NoJob
    <3> QED
      BY <1>2, <3>1 DEF Position, Linked
  <2> QED
    BY <1>7, <2>1, <2>2, <2>3
<1>9. \A f \in Execs : WorkPlace(f)' /\ Linked(job'[f], backfill', snapshots', extracts')
  BY <1>6, <1>7, <1>8
<1> QED
  BY <1>2, <1>4, <1>5, <1>9 DEF Chained

LEMMA ChainedOperator ==
  ASSUME "restart" \notin Hazards, Typed, Chained, Operator
  PROVE  Chained'
<1>1. /\ backfill \in ChainType /\ triggers \in Nat
      /\ backfill.run \in Nat /\ backfill.first \in Nat /\ backfill.last \in Nat
  <2>1. backfill \in ChainType /\ triggers \in Nat
    BY DEF Typed, ChainTypes
  <2> QED
    BY <2>1, LedgerConstants DEF ChainType
<1>2. UNCHANGED <<snapshots, extracts, pc, job>>
  BY OperatorAlone DEF sheetVars
<1>3. ASSUME NEW b, b.run = backfill.run, b.first = backfill.first, b.last = backfill.last,
             Position(b, snapshots, extracts), backfill' = b,
             triggers' \in {0, 1} \/ triggers' = triggers, triggers' # 1 \/ backfill.run # 0
      PROVE  Chained'
  <2>1. triggers' > 0 => backfill'.run # 0
    BY <1>1, <1>3 DEF Chained
  <2>2. \A e \in Execs : pc'[e] = "begin" => backfill'.run # 0
    BY <1>2, <1>3 DEF Chained
  <2>3. \A e \in Execs : WorkPlace(e)' /\ Linked(job'[e], backfill', snapshots', extracts')
    BY <1>2, <1>3 DEF Chained, WorkPlace, Linked
  <2> QED
    BY <1>2, <1>3, <2>1, <2>2, <2>3 DEF Chained
<1>4. Position(backfill, snapshots, extracts)
  BY DEF Chained
<1>5. ASSUME NEW status, backfill' = [backfill EXCEPT !.status = status],
             status = "COMPLETE" => Covered(backfill.run, backfill.first, backfill.last + 1,
                                            snapshots, extracts),
             triggers' \in {0, 1} \/ triggers' = triggers, backfill.run # 0
      PROVE  Chained'
  <2> DEFINE b == [backfill EXCEPT !.status = status]
  <2>1. /\ b.run = backfill.run /\ b.first = backfill.first /\ b.last = backfill.last
        /\ b.month = backfill.month /\ b.done = backfill.done /\ b.status = status
    BY <1>1 DEF ChainType
  <2>2. Position(b, snapshots, extracts)
    <3> HIDE DEF b
    <3> QED
      BY <1>4, <1>5, <2>1 DEF Position
  <2>3. backfill' = b
    BY <1>5
  <2> HIDE DEF b
  <2> QED
    BY <1>3, <1>5, <2>1, <2>2, <2>3
<1>6. ASSUME NEW first \in 1..Months, NEW last \in 1..Months, first <= last, Start(first, last)
      PROVE  Chained'
  <2>1. CASE triggers' = 0 /\ backfill' = backfill
    BY <1>3, <1>4, <2>1
  <2>2. CASE /\ backfill' = [run |-> backfill.run + 1, first |-> first, last |-> last,
                             month |-> first, done |-> 0, status |-> "READY"]
    <3>1. \A e \in Execs : job[e].by = 0 /\ pc[e] # "begin"
      BY <1>6 DEF Start, Working
    <3>2. first \in Nat /\ last \in Nat /\ 1 <= first
      BY LedgerConstants
    <3>3. /\ backfill'.run # 0 /\ backfill'.first = first /\ backfill'.last = last
          /\ backfill'.month = first /\ backfill'.done = 0 /\ backfill'.status = "READY"
      BY <1>1, <2>2
    <3>4. Covered(backfill'.run, backfill'.first, backfill'.month, snapshots', extracts')
      BY <3>2, <3>3 DEF Covered
    <3>5. Position(backfill', snapshots', extracts')
      BY <1>6, <3>2, <3>3, <3>4 DEF Position
    <3>6. \A e \in Execs : WorkPlace(e)' /\ Linked(job'[e], backfill', snapshots', extracts')
      BY <1>2, <3>1 DEF Chained, WorkPlace, Linked
    <3> QED
      BY <3>3, <3>5, <3>6 DEF Chained
  <2> QED
    BY <1>6, <2>1, <2>2 DEF Start
<1>7. CASE Resume
  <2>1. backfill.run # 0
    BY <1>7 DEF Resume
  <2>2. CASE triggers' = 0 /\ backfill' = backfill
    BY <1>3, <1>4, <2>2
  <2>3. CASE SetStatus("READY") /\ triggers' = 1
    BY <1>5, <2>1, <2>3 DEF SetStatus
  <2> QED
    BY <1>7, <2>2, <2>3 DEF Resume
<1>8. CASE Cancel
  <2>1. backfill.run # 0 /\ triggers' = 0
    BY <1>8 DEF Cancel
  <2>2. CASE backfill' = backfill
    BY <1>3, <1>4, <2>1, <2>2
  <2>3. CASE SetStatus("CANCELLED")
    BY <1>5, <2>1, <2>3 DEF SetStatus
  <2> QED
    BY <1>8, <2>2, <2>3 DEF Cancel
<1>9. CASE Repair
  <2>1. /\ backfill.run # 0 /\ triggers' = triggers
        /\ backfill.month = backfill.last /\ backfill.done = backfill.last
        /\ backfill' = [backfill EXCEPT !.status = "COMPLETE"]
    BY <1>9 DEF Repair, SetStatus
  <2>2. /\ 1 <= backfill.first /\ backfill.first <= backfill.last
        /\ Covered(backfill.run, backfill.first, backfill.last, snapshots, extracts)
        /\ backfill.done # 0 => Backed(backfill.run, backfill.last, snapshots, extracts)
    BY <1>4, <2>1 DEF Position
  <2>3. Backed(backfill.run, backfill.last, snapshots, extracts)
    BY <1>1, <2>1, <2>2
  <2>4. ASSUME NEW m \in backfill.first..((backfill.last + 1) - 1)
        PROVE  Backed(backfill.run, m, snapshots, extracts)
    <3>1. m = backfill.last \/ m \in backfill.first..(backfill.last - 1)
      BY <1>1, <2>4
    <3> QED
      BY <2>2, <2>3, <3>1 DEF Covered
  <2>5. Covered(backfill.run, backfill.first, backfill.last + 1, snapshots, extracts)
    BY <2>4 DEF Covered
  <2> QED
    BY <1>5, <2>1, <2>5
<1> QED
  BY <1>6, <1>7, <1>8, <1>9 DEF Operator

-----------------------------------------------------------------------------
(* The months, one backfill at a time *)

MonthRow(n) == [run : 0..n, month : 1..Months]
MonthReport == [month : 1..Months, rows : Seq(LedgerRow), by : 0..MaxStarts]
BlockType == [start : 1..MaxRows, count : 1..MaxRows]
MonthOf(e) ==
  /\ job[e].month \in 0..Months /\ (pc[e] \notin {"idle", "begin"} => job[e].month # 0)
  /\ job[e].blocks \subseteq BlockType

Monthly ==
  /\ extracts \in Seq(MonthReport) /\ store \in Seq(MonthRow(Len(extracts)))
  /\ backfill.month \in 0..Months /\ backfill.done \in 0..Months
  /\ \A e \in Execs : MonthOf(e)

\* Only the blocks found under the lease are added
LEMMA BlocksMove ==
  ASSUME Typed, NEW e \in Execs, Acts(e)
  PROVE  \/ job'[e].blocks \subseteq job[e].blocks
         \/ Locate(e) /\ job'[e].blocks = Blocks(job[e].month)
<1> DEFINE Kept == job'[e].blocks \subseteq job[e].blocks
<1>1. job \in [Execs -> JobType(Len(extracts))] /\ job[e] \in JobType(Len(extracts))
  BY DEF Typed, LocalTypes
<1>2. ASSUME End(e) \/ job' = job PROVE Kept
  BY <1>1, <1>2 DEF End, Remember, NoJob
<1>3. ASSUME Fail(e) \/ Succeed(e) PROVE Kept
  BY <1>2, <1>3 DEF Fail, Succeed
<1>4. ASSUME FailLocked(e) PROVE Kept
  BY <1>1, <1>4 DEF FailLocked, Remember, JobType
<1>5. CASE Fetch(e)
  <2>1. ASSUME NEW r, NEW q, Remember(e, [job[e] EXCEPT !.run = r, !.prior = q]) PROVE Kept
    BY <1>1, <2>1 DEF Remember, JobType
  <2> HIDE DEF Kept
  <2>2. Kept
    BY <1>3, <1>5, <2>1 DEF Fetch
  <2> QED
    BY <2>2 DEF Kept
<1>6. CASE Locate(e)
  <2>1. CASE Remember(e, [job[e] EXCEPT !.blocks = Blocks(job[e].month)])
    BY <1>1, <1>6, <2>1 DEF Remember, JobType
  <2> QED
    BY <1>4, <1>6, <2>1 DEF Locate
<1>7. CASE Delete(e)
  <2>1. ASSUME NEW b, Remember(e, [job[e] EXCEPT !.blocks = @ \ {b}]) PROVE Kept
    BY <1>1, <2>1 DEF Remember, JobType
  <2> HIDE DEF Kept
  <2>2. Kept
    BY <1>2, <1>4, <1>7, <2>1 DEF Delete
  <2> QED
    BY <2>2 DEF Kept
<1>8. CASE Target(e) \/ Compare(e)
  <2>1. ASSUME NEW t, Remember(e, [job[e] EXCEPT !.target = t]) PROVE Kept
    BY <1>1, <2>1 DEF Remember, JobType
  <2> HIDE DEF Kept
  <2>2. Kept
    BY <1>3, <1>8, <2>1 DEF Target, Compare
  <2> QED
    BY <2>2 DEF Kept
<1>9. CASE Begin(e) \/ CompareCalled(e) \/ \E month \in 1..Months : ExportCalled(e, month)
  <2>1. job'[e].blocks = {}
    BY <1>1, <1>9 DEF Begin, CompareCalled, ExportCalled, Remember, NoJob
  <2> QED
    BY <2>1
<1>10. CASE Acquire(e) \/ AppendRows(e) \/ Snapshot(e) \/ Release(e) \/ Record(e) \/ Verify(e)
            \/ Persist(e)
  BY <1>2, <1>3, <1>4, <1>10
  DEF Acquire, AppendRows, Snapshot, Release, Record, Verify, Persist
<1>11. CASE Mark(e) \/ Note(e) \/ Advance(e) \/ Ready(e) \/ DropNext(e) \/ MakeNext(e)
            \/ DropLast(e) \/ Complete(e) \/ Error(e) \/ WorkerFires(e) \/ Crash(e)
  BY <1>2, <1>11 DEF Mark, Note, Advance, Ready, DropNext, MakeNext, DropLast, Complete, Error,
    WorkerFires, Crash
<1> QED
  BY <1>5, <1>6, <1>7, <1>8, <1>9, <1>10, <1>11 DEF Acts, Progress

LEMMA BlocksFit ==
  ASSUME Typed, Fits, NEW month
  PROVE  Blocks(month) \subseteq BlockType
<1> DEFINE mine == {i \in DOMAIN store : store[i].month = month}
<1>1. Len(store) \in Nat /\ DOMAIN store = 1..Len(store) /\ Len(store) <= MaxRows /\ MaxRows \in Nat
  BY LenProperties, LedgerConstants DEF Typed, SheetTypes, Fits
<1>2. mine \subseteq 1..MaxRows /\ 1..Len(store) \subseteq 1..MaxRows
  BY <1>1
<1>3. Blocks(month) \subseteq [start : mine, count : 1..Len(store)]
  BY DEF Blocks
<1> HIDE DEF mine
<1> QED
  BY <1>2, <1>3 DEF BlockType

\* What leaves a place where no month is chosen
LEMMA IdleMoves ==
  ASSUME NEW e \in Execs, Acts(e), pc[e] \in {"idle", "begin"}
  PROVE  \/ WorkerFires(e) \/ CompareCalled(e) \/ Begin(e) \/ Crash(e)
         \/ \E month \in 1..Months : ExportCalled(e, month)
BY DEF Acts, Progress, Fetch, Acquire, Locate, Delete, AppendRows, Snapshot, Release, Target,
  Record, Verify, Compare, Persist, Mark, Note, Advance, Ready, DropNext, MakeNext, DropLast,
  Complete, Error

LEMMA SheetMonthly ==
  ASSUME Typed, Placed, Monthly, NEW e \in Execs, Acts(e)
  PROVE  extracts' \in Seq(MonthReport) /\ store' \in Seq(MonthRow(Len(extracts')))
<1> DEFINE N == Len(extracts)
           X == MonthRow(N)
<1>1. extracts \in Seq(MonthReport) /\ store \in Seq(X)
  BY DEF Monthly
<1>2. N \in Nat /\ job[e] \in JobType(N)
  BY RunPlaced
<1>3. extracts' \in Seq(MonthReport)
  <2>1. CASE extracts' = extracts
    BY <1>1, <2>1
  <2>2. ASSUME NEW report \in Returned(N + 1), pc[e] = "fetch",
               extracts' = Append(extracts, [month |-> job[e].month, rows |-> report,
                                             by |-> job[e].by])
        PROVE  extracts' \in Seq(MonthReport)
    <3>1. report \in Seq(LedgerRow)
      <4>1. N + 1 \in Nat \ {0}
        BY <1>2
      <4> QED
        BY <4>1, ReturnedRows
    <3>2. job[e].by \in 0..MaxStarts
      BY <1>2, JobFields
    <3>3. job[e].month \in 1..Months
      <4>1. job[e].month \in 0..Months /\ job[e].month # 0
        BY <2>2 DEF Monthly, MonthOf
      <4> QED
        BY <4>1, LedgerConstants
    <3>4. [month |-> job[e].month, rows |-> report, by |-> job[e].by] \in MonthReport
      BY <3>1, <3>2, <3>3 DEF MonthReport
    <3> QED
      BY <1>1, <2>2, <3>4, AppendProperties
  <2>3. ASSUME ~ Fetch(e) PROVE extracts' = extracts
    BY <2>3 DEF Acts, Progress, Acquire, Locate, Delete, AppendRows, Snapshot, Release, Target,
      Record, Verify, Compare, Persist, Begin, Mark, Note, Advance, Ready, DropNext, MakeNext,
      DropLast, Complete, Error, WorkerFires, CompareCalled, Crash, ExportCalled, sheetVars
  <2> QED
    BY <2>1, <2>2, <2>3 DEF Fetch
<1>4. store' \in Seq(X)
  <2>1. CASE store' = store
    BY <1>1, <2>1
  <2>2. ASSUME NEW b \in job[e].blocks, Deletes(e, b) PROVE store' \in Seq(X)
    <3>1. Stretch(b, store, job[e].month)
      BY <2>2, DeleteLeaves DEF Placed, Deletes
    <3> HIDE DEF X
    <3>2. Without(store, b) \in Seq(X)
      BY <1>1, <3>1, Deleted
    <3> QED
      BY <2>2, <3>2 DEF Deletes
  <2>3. CASE Appends(e)
    <3> DEFINE new == NewRows(e)
    <3>1. /\ pc[e] \in AtWrite /\ Joins(store, new, store')
          /\ job[e].month \in 0..Months /\ job[e].month # 0
      BY <2>3 DEF Appends, AtWrite, Monthly, MonthOf
    <3>2. /\ new \in Seq(RowType(N))
          /\ \A i \in 1..Len(new) : new[i] = [run |-> job[e].run, month |-> job[e].month]
      BY <3>1, NewRowsOfRun
    <3>3. job[e].run \in 0..N /\ job[e].month \in 1..Months
      BY <3>1, RunPlaced, LedgerConstants
    <3>4. [run |-> job[e].run, month |-> job[e].month] \in X
      BY <3>3 DEF MonthRow
    <3> HIDE DEF new, X, N
    <3>5. new \in Seq(X)
      <4>1. Len(new) \in Nat /\ DOMAIN new = 1..Len(new)
        BY <3>2, LenProperties
      <4>2. \A i \in 1..Len(new) : new[i] \in X
        BY <3>2, <3>4
      <4>3. new \in [1..Len(new) -> X]
        BY <3>2, <4>1, <4>2, LenProperties
      <4> QED
        BY <4>1, <4>3
    <3> QED
      BY <1>1, <3>1, <3>5, ConcatProperties DEF Joins
  <2> QED
    BY <2>1, <2>2, <2>3, SheetMoves
<1>5. X \subseteq MonthRow(Len(extracts'))
  <2>1. Len(extracts') \in Nat /\ N <= Len(extracts')
    <3>1. Grows
      BY SheetStep DEF Placed
    <3> QED
      BY <1>3, <3>1, LenProperties DEF Grows
  <2> QED
    BY <1>2, <2>1 DEF MonthRow
<1> HIDE DEF X
<1> QED
  BY <1>3, <1>4, <1>5, SeqWidens

LEMMA MonthlyStep ==
  ASSUME Typed, Placed, Evidenced, Chained, Monthly, NEW e \in Execs, Acts(e)
  PROVE  Monthly'
<1>1. /\ backfill \in ChainType /\ pc \in [Execs -> Pcs]
      /\ job \in [Execs -> JobType(Len(extracts))] /\ Months \in Nat
      /\ backfill.month \in 0..Months /\ backfill.done \in 0..Months
      /\ job[e].month \in 0..Months
  BY LedgerConstants DEF Typed, ChainTypes, LocalTypes, Monthly, MonthOf
<1>2. extracts' \in Seq(MonthReport) /\ store' \in Seq(MonthRow(Len(extracts')))
  BY SheetMonthly
<1>3. backfill'.month \in 0..Months /\ backfill'.done \in 0..Months
  <2>1. CASE backfill' = backfill
    BY <1>1, <2>1
  <2>2. ASSUME NEW status, backfill' = [backfill EXCEPT !.status = status]
        PROVE  backfill'.month \in 0..Months /\ backfill'.done \in 0..Months
    BY <1>1, <2>2 DEF ChainType
  <2>3. CASE pc[e] = "note" /\ backfill' = [backfill EXCEPT !.done = job[e].month]
    BY <1>1, <2>3 DEF ChainType
  <2>4. CASE pc[e] = "advance" /\ backfill' = [backfill EXCEPT !.month = job[e].month + 1]
    <3>1. job[e].month # job[e].last /\ pc[e] \in AtNote
      BY <2>4 DEF Chained, WorkPlace, AtNote
    <3>2. job[e].month <= job[e].last /\ job[e].last = backfill.last
      BY <3>1, MonthBacked
    <3>3. backfill.last \in 0..Months
      BY <1>1 DEF ChainType
    <3>4. job[e].month + 1 \in 0..Months
      BY <1>1, <3>1, <3>2, <3>3
    <3>5. backfill'.month = job[e].month + 1 /\ backfill'.done = backfill.done
      BY <1>1, <2>4 DEF ChainType
    <3> QED
      BY <1>1, <3>4, <3>5
  <2> QED
    BY <2>1, <2>2, <2>3, <2>4, BackfillMoves
<1>4. job'[e].blocks \subseteq BlockType
  <2>1. job[e].blocks \subseteq BlockType
    BY DEF Monthly, MonthOf
  <2> QED
    BY <2>1, BlocksMove, BlocksFit DEF Placed
<1>5. job'[e].month \in 0..Months /\ (pc'[e] \notin {"idle", "begin"} => job'[e].month # 0)
  <2>1. CASE Begin(e)
    <3>1. job'[e].month = backfill.month /\ pc[e] = "begin"
      BY <1>1, <2>1 DEF Begin, Remember, NoJob
    <3>2. 1 <= backfill.first /\ backfill.first <= backfill.month
      BY <3>1 DEF Chained, Position
    <3>3. backfill.first \in Nat
      BY <1>1 DEF ChainType
    <3> QED
      BY <1>1, <3>1, <3>2, <3>3
  <2>2. CASE pc'[e] = "idle" /\ job'[e] = NoJob
    <3>1. job'[e].month = 0
      BY <2>2 DEF NoJob
    <3> QED
      BY <1>1, <2>2, <3>1
  <2>3. CASE job'[e].month \in 1..Months
    BY <1>1, <2>3
  <2>4. CASE CompareCalled(e)
    <3> DEFINE current == registry[Len(registry)]
    <3>1. job'[e].month = extracts[current].month /\ registry # <<>>
      BY <1>1, <2>4 DEF CompareCalled, Remember, NoJob
    <3>2. current \in 1..Len(extracts)
      <4>1. registry \in Seq(1..Len(extracts))
        BY DEF Typed, SheetTypes
      <4>2. Len(registry) \in 1..Len(registry)
        BY <3>1, <4>1, EmptySeq, LenProperties
      <4> QED
        BY <4>1, <4>2, ElementOfSeq
    <3> HIDE DEF current
    <3>3. extracts[current] \in MonthReport
      BY <3>2, ElementOfSeq DEF Monthly
    <3> QED
      BY <2>3, <3>1, <3>3 DEF MonthReport
  <2>5. CASE SameWork(e) /\ pc[e] \notin {"idle", "begin"}
    <3>1. job[e].month # 0 /\ job'[e].month = job[e].month
      BY <2>5 DEF Monthly, MonthOf, SameWork
    <3> QED
      BY <1>1, <3>1
  <2>6. CASE SameWork(e) /\ pc[e] \in {"idle", "begin"}
    <3>1. WorkerFires(e) \/ Crash(e) => pc'[e] \in {"idle", "begin"}
      BY <1>1 DEF WorkerFires, Crash, End, Goto
    <3>2. ASSUME NEW month \in 1..Months, ExportCalled(e, month) PROVE job'[e].month \in 1..Months
      BY <1>1, <3>2 DEF ExportCalled, Remember, NoJob
    <3>3. \/ pc'[e] \in {"idle", "begin"} \/ CompareCalled(e) \/ Begin(e)
          \/ job'[e].month \in 1..Months
      BY <2>6, <3>1, <3>2, IdleMoves
    <3>4. job'[e].month = job[e].month
      BY <2>6 DEF SameWork
    <3> QED
      BY <1>1, <2>1, <2>3, <2>4, <3>3, <3>4
  <2>7. WorkPlace(e) /\ (pc[e] = "begin" => backfill.run # 0)
    BY DEF Chained
  <2> QED
    BY <2>1, <2>2, <2>3, <2>4, <2>5, <2>6, <2>7, WorkMoves
<1>6. ASSUME NEW f \in Execs PROVE MonthOf(f)'
  <2>1. CASE f = e
    BY <1>4, <1>5, <2>1 DEF MonthOf
  <2>2. CASE f # e
    <3>1. pc'[f] = pc[f] /\ job'[f] = job[f] /\ MonthOf(f)
      BY <2>2, Alone DEF Monthly
    <3> QED
      BY <3>1 DEF MonthOf
  <2> QED
    BY <2>1, <2>2
<1> QED
  BY <1>2, <1>3, <1>6 DEF Monthly

LEMMA MonthlyOperator ==
  ASSUME Typed, Monthly, Operator
  PROVE  Monthly'
<1>1. UNCHANGED <<extracts, store, pc, job>>
  BY OperatorAlone DEF sheetVars
<1>2. /\ backfill \in ChainType /\ backfill.month \in 0..Months /\ backfill.done \in 0..Months
      /\ Months \in Nat
  BY LedgerConstants DEF Typed, ChainTypes, Monthly
<1>3. ASSUME NEW status, backfill' = [backfill EXCEPT !.status = status]
      PROVE  backfill'.month \in 0..Months /\ backfill'.done \in 0..Months
  BY <1>2, <1>3 DEF ChainType
<1>4. ASSUME NEW first \in 1..Months, NEW last \in 1..Months, Start(first, last)
      PROVE  backfill'.month \in 0..Months /\ backfill'.done \in 0..Months
  <2>1. backfill' = backfill \/ (backfill'.month = first /\ backfill'.done = 0)
    BY <1>4 DEF Start
  <2> QED
    BY <1>2, <2>1
<1>5. backfill'.month \in 0..Months /\ backfill'.done \in 0..Months
  <2>1. CASE Resume \/ Cancel \/ Repair
    BY <1>2, <1>3, <2>1 DEF Resume, Cancel, Repair, SetStatus
  <2> QED
    BY <1>4, <2>1 DEF Operator
<1> QED
  BY <1>1, <1>5 DEF Monthly, MonthOf

-----------------------------------------------------------------------------
(* The backfill and its months *)

Inv == Typed /\ Placed /\ Evidenced /\ Triggered /\ Chained /\ Monthly

LEMMA InitInv ==
  ASSUME Init
  PROVE  Inv
<1>1. \A e \in Execs : pc[e] = "idle" /\ job[e] = NoJob
  BY DEF Init
<1>2. backfill.run = 0 /\ backfill.month = 0 /\ backfill.done = 0 /\ triggers = 0
  BY DEF Init
<1>3. Triggered
  <2>1. Makers = {}
    BY <1>1 DEF Makers
  <2> QED
    BY <1>2, <2>1, FS_EmptySet, MakersCounted DEF Triggered
<1>4. NoJob.by = 0 /\ NoJob.month = 0 /\ NoJob.blocks = {}
  BY DEF NoJob
<1>5. Chained
  BY <1>1, <1>2, <1>4 DEF Chained, Position, Linked, WorkPlace, AtWork, AtNote
<1>6. Monthly
  <2>1. extracts = <<>> /\ extracts \in Seq(MonthReport) /\ Len(extracts) = 0
    BY EmptySeq DEF Init
  <2>2. store \in Seq(MonthRow(0))
    <3>1. store \in Seq([run : {0}, month : 1..Months])
      BY StoredFits DEF Init
    <3>2. [run : {0}, month : 1..Months] \subseteq MonthRow(0)
      BY DEF MonthRow
    <3> HIDE DEF MonthRow
    <3> QED
      BY <3>1, <3>2, SeqWidens
  <2>3. 0 \in 0..Months
    BY LedgerConstants
  <2> QED
    BY <1>1, <1>2, <1>4, <2>1, <2>2, <2>3 DEF Monthly, MonthOf
<1> QED
  BY <1>3, <1>5, <1>6, InitTyped, InitEvidenced DEF Inv

LEMMA InvNext ==
  ASSUME "restart" \notin Hazards, Inv, [Next]_vars
  PROVE  Inv'
<1>1. Typed' /\ Placed' /\ Evidenced' /\ Triggered'
  BY TypedStep, EvidenceNext, TriggeredNext DEF Inv
<1>2. CASE UNCHANGED vars
  <2>1. Chained'
    BY <1>2 DEF Inv, vars, sheetVars, chainVars, Chained, WorkPlace
  <2>2. Monthly'
    BY <1>2 DEF Inv, vars, sheetVars, chainVars, Monthly, MonthOf
  <2> QED
    BY <1>1, <2>1, <2>2 DEF Inv
<1>3. CASE Operator
  BY <1>1, <1>3, ChainedOperator, MonthlyOperator DEF Inv
<1>4. ASSUME NEW e \in Execs, Acts(e) PROVE Inv'
  BY <1>1, <1>4, ChainedStep, MonthlyStep DEF Inv
<1> QED
  BY <1>2, <1>3, <1>4 DEF Next, Acts

LEMMA InvSays ==
  ASSUME Inv
  PROVE  MonthsProved /\ TypeOK
<1>1. MonthsProved
  <2> SUFFICES ASSUME backfill.run # 0,
                      NEW m \in backfill.first..(IF backfill.status = "COMPLETE"
                                                 THEN backfill.last ELSE backfill.month - 1)
               PROVE  Backed(backfill.run, m, snapshots, extracts)
    BY DEF MonthsProved, Backed
  <2>1. /\ Covered(backfill.run, backfill.first, backfill.month, snapshots, extracts)
        /\ backfill.status = "COMPLETE" =>
             Covered(backfill.run, backfill.first, backfill.last + 1, snapshots, extracts)
    BY DEF Inv, Chained, Position
  <2>2. backfill.last \in Nat
    BY LedgerConstants DEF Inv, Typed, ChainTypes, ChainType
  <2>3. CASE backfill.status = "COMPLETE"
    <3>1. m \in backfill.first..((backfill.last + 1) - 1)
      BY <2>2, <2>3
    <3> QED
      BY <2>1, <2>3, <3>1 DEF Covered
  <2>4. CASE backfill.status # "COMPLETE"
    BY <2>1, <2>4 DEF Covered
  <2> QED
    BY <2>3, <2>4
<1>2. TypeOK
  <2>1. /\ Typed /\ Monthly /\ Triggered /\ Len(store) <= MaxRows
    BY DEF Inv, Placed, Fits
  <2>2. Len(extracts) \in Nat /\ DOMAIN extracts = 1..Len(extracts)
    BY <2>1, LenProperties DEF Typed, SheetTypes
  <2>3. /\ store \in Seq([run : 0..Len(extracts), month : 1..Months])
        /\ extracts \in Seq([month : 1..Months, rows : Seq(LedgerRow), by : 0..MaxStarts])
    BY <2>1 DEF Monthly, MonthRow, MonthReport
  <2>4. /\ lease \in 0..Len(extracts) /\ snapshots \subseteq Runs /\ registry \in Seq(Runs)
        /\ changes \in Seq([prior : Runs, current : Runs])
    BY <2>1, <2>2 DEF Typed, SheetTypes, Runs, PairType
  <2>5. backfill \in [run : 0..MaxStarts, first : 0..Months, last : 0..Months,
                      month : 0..Months, done : 0..Months, status : Statuses]
    BY <2>1 DEF Typed, ChainTypes, ChainType, Monthly
  <2>6. triggers \in 0..Cardinality(Execs) + 1
    <3>1. /\ Cardinality(Execs) \in Nat /\ Cardinality(Makers) \in Nat /\ triggers \in Nat
          /\ triggers + Cardinality(Makers) <= Cardinality(Execs) + 1
      BY <2>1, MakersCounted DEF Typed, ChainTypes, Triggered
    <3> QED
      BY <3>1
  <2>7. job \in [Execs -> [by : 0..MaxStarts, month : 0..Months, last : 0..Months,
                           prior : 0..Len(extracts), run : 0..Len(extracts),
                           blocks : SUBSET [start : 1..MaxRows, count : 1..MaxRows],
                           target : Nat, failed : BOOLEAN]]
    <3>1. job \in [Execs -> JobType(Len(extracts))] /\ \A e \in Execs : MonthOf(e)
      BY <2>1 DEF Typed, LocalTypes, Monthly
    <3>2. ASSUME NEW e \in Execs
          PROVE  job[e] \in [by : 0..MaxStarts, month : 0..Months, last : 0..Months,
                             prior : 0..Len(extracts), run : 0..Len(extracts),
                             blocks : SUBSET [start : 1..MaxRows, count : 1..MaxRows],
                             target : Nat, failed : BOOLEAN]
      BY <3>1 DEF JobType, MonthOf, BlockType
    <3> QED
      BY <3>1, <3>2
  <2>8. /\ pc \in [Execs -> Pcs]
        /\ calls \in 0..MaxCalls + 1 /\ faults \in 0..MaxFaults /\ lost \in BOOLEAN
    BY <2>1 DEF Typed, LocalTypes, CountTypes
  <2> QED
    BY <2>1, <2>3, <2>4, <2>5, <2>6, <2>7, <2>8 DEF TypeOK
<1> QED
  BY <1>1, <1>2

\* The code allows a start as soon as the status of the last backfill is a final one,
\* and a worker of it may still be running; its late writes then move the position of
\* the new backfill.  Unless that happens:
LEMMA Invariant ==
  ASSUME "restart" \notin Hazards
  PROVE  Spec => []Inv
<1>1. Init => Inv
  BY InitInv
<1>2. Inv /\ [Next]_vars => Inv'
  BY InvNext
<1> QED
  BY <1>1, <1>2, PTL DEF Spec

\* Every variable keeps its type and the store fits in the workbook, as long as no backfill
\* is started over a worker of an earlier one: such a worker may set a position beyond
\* the last month of the new backfill.
THEOREM TypesHold ==
  ASSUME "restart" \notin Hazards
  PROVE  Spec => []TypeOK
<1>1. Spec => []Inv
  BY Invariant
<1>2. Inv => TypeOK
  BY InvSays
<1> QED
  BY <1>1, <1>2, PTL

\* The months a backfill stands behind, and all of them once it is COMPLETE, have snapshots
\* fetched by this very backfill, whatever terminations, resumes, repairs and overlapping
\* workers there were, as long as no backfill is started over a worker of an earlier one.
THEOREM MonthsAreProved ==
  ASSUME "restart" \notin Hazards
  PROVE  Spec => []MonthsProved
<1>1. Spec => []Inv
  BY Invariant
<1>2. Inv => MonthsProved
  BY InvSays
<1> QED
  BY <1>1, <1>2, PTL
=============================================================================
