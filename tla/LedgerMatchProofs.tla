------------------------- MODULE LedgerMatchProofs --------------------------
(***************************************************************************)
(* A comparison of two snapshots accounts for both exactly, whatever their *)
(* rows are: the proof of Exact for all sequences of rows.                 *)
(***************************************************************************)
EXTENDS LedgerMatch, FiniteSetTheorems, SequenceTheorems, TLAPS

-----------------------------------------------------------------------------
(* Induction and recursion *)

\* A nonempty set of naturals has a least element
LEMMA LeastOf ==
  ASSUME NEW S, S \subseteq Nat, S # {}
  PROVE  \E x \in S : \A y \in S : x <= y
<1> DEFINE R == OpToRel(<, Nat)
<1>1. PICK x \in S : \A y \in S : <<y, x>> \notin R
  BY NatLessThanWellFounded, WFMin
<1>2. \A y \in S : ~ (y < x)
  BY <1>1 DEF OpToRel
<1> QED
  BY <1>2

\* Induction over the natural numbers, for a set
LEMMA NatSetInduction ==
  ASSUME NEW S, 0 \in S, \A n \in Nat : n \in S => n + 1 \in S
  PROVE  Nat \subseteq S
<1> SUFFICES ASSUME Nat \ S # {} PROVE FALSE
  OBVIOUS
<1>1. PICK x \in Nat \ S : \A y \in Nat \ S : x <= y
  BY LeastOf
<1>2. x - 1 \in Nat /\ (x - 1) + 1 = x /\ ~ (x <= x - 1)
  BY <1>1
<1> QED
  BY <1>1, <1>2

IsRecursion(f, S, a, N, step) ==
  /\ f \in [0..N -> S] /\ f[0] = a
  /\ \A n \in 1..N : f[n] = step[n][f[n - 1]]

\* A function defined by recursion over 0..N exists and takes its values in S
LEMMA Recursion ==
  ASSUME NEW S, NEW a \in S, NEW N \in Nat, NEW step \in [1..N -> [S -> S]]
  PROVE  \E f : IsRecursion(f, S, a, N, step)
<1> DEFINE Built == {n \in Nat : n <= N =>
                       \E f \in [0..n -> S] :
                         f[0] = a /\ \A k \in 1..n : f[k] = step[k][f[k - 1]]}
<1>1. 0 \in Built
  <2> DEFINE f == [k \in 0..0 |-> a]
  <2>1. f \in [0..0 -> S] /\ f[0] = a /\ \A k \in 1..0 : f[k] = step[k][f[k - 1]]
    OBVIOUS
  <2> QED
    BY <2>1
<1>2. ASSUME NEW n \in Nat, n \in Built, n + 1 <= N PROVE n + 1 \in Built
  <2>1. PICK f \in [0..n -> S] : f[0] = a /\ \A k \in 1..n : f[k] = step[k][f[k - 1]]
    BY <1>2
  <2> DEFINE g == [k \in 0..(n + 1) |-> IF k <= n THEN f[k] ELSE step[n + 1][f[n]]]
  <2>2. step[n + 1] \in [S -> S] /\ f[n] \in S
    BY <1>2, <2>1
  <2>3. g \in [0..(n + 1) -> S] /\ g[0] = a
    BY <2>1, <2>2
  <2>4. ASSUME NEW k \in 1..(n + 1) PROVE g[k] = step[k][g[k - 1]]
    <3>1. CASE k <= n
      BY <2>1, <3>1
    <3>2. CASE k = n + 1
      <4>1. g[k - 1] = f[n] /\ g[k] = step[n + 1][f[n]]
        BY <3>2
      <4> QED
        BY <4>1, <3>2
    <3> QED
      BY <3>1, <3>2
  <2> HIDE DEF g
  <2>5. \E h \in [0..(n + 1) -> S] : h[0] = a /\ \A k \in 1..(n + 1) : h[k] = step[k][h[k - 1]]
    BY <2>3, <2>4
  <2> QED
    BY <2>5
<1>3. ASSUME NEW n \in Nat, n \in Built PROVE n + 1 \in Built
  <2>1. CASE n + 1 <= N
    BY <1>2, <1>3, <2>1
  <2>2. CASE ~ (n + 1 <= N)
    BY <2>2
  <2> QED
    BY <2>1, <2>2
<1>4. Nat \subseteq Built
  <2> HIDE DEF Built
  <2> QED
    BY <1>1, <1>3, NatSetInduction
<1> QED
  BY <1>4 DEF IsRecursion

-----------------------------------------------------------------------------
(* Sums *)

\* A table of the sums of f over all sets of its arguments, as the fold computes it
IsSumTable(f, h) ==
  h = [s \in SUBSET DOMAIN f |->
         IF s = {} THEN 0 ELSE LET x == CHOOSE x \in s : TRUE IN f[x] + h[s \ {x}]]

LEMMA SumFunctionUnfolds ==
  ASSUME NEW f
  PROVE  SumFunction(f) = (CHOOSE h : IsSumTable(f, h))[DOMAIN f]
  BY Zenon DEF IsSumTable, SumFunction, SumFunctionOnSet, FoldFunctionOnSet, MapThenFoldSet

LEMMA SumTableExists ==
  ASSUME NEW D, IsFiniteSet(D), NEW f \in [D -> Int]
  PROVE  \E h : IsSumTable(f, h)
<1> DEFINE pick(s) == CHOOSE x \in s : TRUE
           Small(n) == {s \in SUBSET D : Cardinality(s) <= n}
           Built == {n \in Nat : \E h \in [SUBSET D -> Int] :
                       \A s \in Small(n) : h[s] = IF s = {} THEN 0 ELSE f[pick(s)] + h[s \ {pick(s)}]}
<1>0. \A s \in SUBSET D : IsFiniteSet(s) /\ Cardinality(s) \in Nat
  BY FS_Subset, FS_CardinalityType
<1>a. ASSUME NEW s \in SUBSET D, s # {}
      PROVE  pick(s) \in s /\ s \ {pick(s)} \in SUBSET D /\ Cardinality(s \ {pick(s)}) = Cardinality(s) - 1
  BY <1>a, <1>0, FS_RemoveElement
<1> HIDE DEF pick
<1>1. 0 \in Built
  <2> DEFINE h == [s \in SUBSET D |-> 0]
  <2>1. \A s \in Small(0) : s = {}
    BY <1>0, FS_EmptySet
  <2>2. h \in [SUBSET D -> Int] /\ \A s \in Small(0) : h[s] = IF s = {} THEN 0 ELSE f[pick(s)] + h[s \ {pick(s)}]
    BY <2>1
  <2> QED
    BY <2>2
<1>2. ASSUME NEW n \in Nat, n \in Built PROVE n + 1 \in Built
  <2>1. PICK h \in [SUBSET D -> Int] :
           \A s \in Small(n) : h[s] = IF s = {} THEN 0 ELSE f[pick(s)] + h[s \ {pick(s)}]
    BY <1>2
  <2> DEFINE g == [s \in SUBSET D |-> IF s = {} THEN 0 ELSE f[pick(s)] + h[s \ {pick(s)}]]
  <2>2. ASSUME NEW s \in SUBSET D PROVE g[s] \in Int
    <3>1. CASE s = {}
      BY <3>1
    <3>2. CASE s # {}
      <4>1. f[pick(s)] \in Int /\ h[s \ {pick(s)}] \in Int
        BY <3>2, <1>a
      <4> QED
        BY <3>2, <4>1
    <3> QED
      BY <3>1, <3>2
  <2>3. g \in [SUBSET D -> Int]
    BY <2>2
  <2>4. \A s \in Small(n) : g[s] = h[s]
    BY <2>1
  <2>5. ASSUME NEW s \in Small(n + 1), s # {} PROVE g[s] = f[pick(s)] + g[s \ {pick(s)}]
    <3>1. s \ {pick(s)} \in Small(n)
      BY <2>5, <1>a, <1>0
    <3> HIDE DEF g
    <3>2. g[s \ {pick(s)}] = h[s \ {pick(s)}]
      BY <3>1, <2>4
    <3> QED
      BY <2>5, <3>2 DEF g
  <2>6. g[{}] = 0
    OBVIOUS
  <2> HIDE DEF g
  <2>7. \A s \in Small(n + 1) : g[s] = IF s = {} THEN 0 ELSE f[pick(s)] + g[s \ {pick(s)}]
    BY <2>5, <2>6
  <2> QED
    BY <2>3, <2>7
<1>3. \A n \in Nat : n \in Built => n + 1 \in Built
  BY <1>2
<1>4. Cardinality(D) \in Built
  <2> HIDE DEF Built
  <2> QED
    BY <1>1, <1>3, NatSetInduction, FS_CardinalityType
<1>5. PICK h \in [SUBSET D -> Int] :
        \A s \in Small(Cardinality(D)) : h[s] = IF s = {} THEN 0 ELSE f[pick(s)] + h[s \ {pick(s)}]
  BY <1>4
<1>6. \A s \in SUBSET D : s \in Small(Cardinality(D))
  BY FS_Subset
<1>7. h = [s \in SUBSET D |-> IF s = {} THEN 0 ELSE f[pick(s)] + h[s \ {pick(s)}]]
  BY <1>5, <1>6
<1> QED
  BY <1>7 DEF pick, IsSumTable

\* The sums of f over all parts of D, with what each element adds
IsTotals(f, D, h) ==
  /\ h \in [SUBSET D -> Int] /\ SumFunction(f) = h[D] /\ h[{}] = 0
  /\ \A s \in SUBSET D : \A x \in s : h[s] = f[x] + h[s \ {x}]

LEMMA SumTable ==
  ASSUME NEW D, IsFiniteSet(D), NEW f \in [D -> Int]
  PROVE  \E h : IsTotals(f, D, h)
<1> DEFINE pick(s) == CHOOSE x \in s : TRUE
           h == CHOOSE h : IsSumTable(f, h)
<1>1. SumFunction(f) = h[D]
  BY SumFunctionUnfolds
<1>2. IsSumTable(f, h)
  BY SumTableExists
<1> HIDE DEF h
<1>3. DOMAIN h = SUBSET D /\ h[{}] = 0
  BY <1>2 DEF IsSumTable
<1>4. ASSUME NEW s \in SUBSET D, s # {} PROVE h[s] = f[pick(s)] + h[s \ {pick(s)}]
  BY <1>2, <1>4 DEF IsSumTable
<1>5. \A s \in SUBSET D : IsFiniteSet(s) /\ Cardinality(s) \in Nat
  BY FS_Subset, FS_CardinalityType
<1>6. \A s \in SUBSET D : \A x \in s : Cardinality(s \ {x}) = Cardinality(s) - 1
  BY <1>5, FS_RemoveElement
<1>7. \A s \in SUBSET D : s # {} => pick(s) \in s
  OBVIOUS
<1>0. \A s \in SUBSET D : Cardinality(s) = 0 => s = {}
  BY <1>5, FS_EmptySet
<1> HIDE DEF pick
<1>8. \A s \in SUBSET D : h[s] \in Int
  <2> DEFINE Good == {n \in Nat : \A s \in SUBSET D : Cardinality(s) = n => h[s] \in Int}
  <2>1. 0 \in Good
    <3>1. ASSUME NEW s \in SUBSET D, Cardinality(s) = 0 PROVE h[s] \in Int
      <4>1. s = {}
        BY <1>0, <3>1
      <4>2. h[s] = 0
        BY <1>3, <4>1
      <4> QED
        BY <4>2
    <3> QED
      BY <3>1
  <2>2. ASSUME NEW n \in Nat, n \in Good PROVE n + 1 \in Good
    <3> SUFFICES ASSUME NEW s \in SUBSET D, Cardinality(s) = n + 1 PROVE h[s] \in Int
      OBVIOUS
    <3>1. s # {}
      BY FS_EmptySet
    <3>2. s \ {pick(s)} \in SUBSET D /\ Cardinality(s \ {pick(s)}) = n /\ f[pick(s)] \in Int
      BY <3>1, <1>6, <1>7
    <3> QED
      BY <3>1, <3>2, <2>2, <1>4
  <2>3. Nat \subseteq Good
    <3> HIDE DEF Good
    <3> QED
      BY <2>1, <2>2, NatSetInduction
  <2> QED
    BY <2>3, <1>5
<1>9. \A s \in SUBSET D : \A x \in s : h[s] = f[x] + h[s \ {x}]
  <2> DEFINE Good == {n \in Nat : \A s \in SUBSET D : Cardinality(s) = n =>
                        \A x \in s : h[s] = f[x] + h[s \ {x}]}
  <2>1. 0 \in Good
    BY <1>0
  <2>2. ASSUME NEW n \in Nat, n \in Good PROVE n + 1 \in Good
    <3> SUFFICES ASSUME NEW s \in SUBSET D, Cardinality(s) = n + 1, NEW x \in s
                 PROVE  h[s] = f[x] + h[s \ {x}]
      OBVIOUS
    <3>1. PICK y \in s : h[s] = f[y] + h[s \ {y}]
      BY <1>4, <1>7
    <3>2. CASE x = y
      BY <3>1, <3>2
    <3>3. CASE x # y
      <4> DEFINE rest == s \ {x, y}
      <4>1. /\ s \ {x} \in SUBSET D /\ Cardinality(s \ {x}) = n /\ y \in s \ {x}
            /\ s \ {y} \in SUBSET D /\ Cardinality(s \ {y}) = n /\ x \in s \ {y}
        BY <3>3, <1>6
      <4>2. (s \ {x}) \ {y} = rest /\ (s \ {y}) \ {x} = rest /\ rest \in SUBSET D
        OBVIOUS
      <4>3. h[s \ {x}] = f[y] + h[rest] /\ h[s \ {y}] = f[x] + h[rest]
        BY <4>1, <4>2, <2>2
      <4>4. f[x] \in Int /\ f[y] \in Int /\ h[rest] \in Int
        BY <4>2, <1>8
      <4> HIDE DEF rest
      <4> QED
        BY <3>1, <4>3, <4>4
    <3> QED
      BY <3>2, <3>3
  <2>3. Nat \subseteq Good
    <3> HIDE DEF Good
    <3> QED
      BY <2>1, <2>2, NatSetInduction
  <2> QED
    BY <2>3, <1>5
<1>10. h \in [SUBSET D -> Int]
  <2>1. h = [s \in SUBSET D |-> h[s]]
    BY <1>2 DEF IsSumTable
  <2> QED
    BY <2>1, <1>8
<1>11. IsTotals(f, D, h)
  BY <1>1, <1>3, <1>9, <1>10 DEF IsTotals
<1> QED
  BY <1>11

\* Induction over the parts of a finite set
LEMMA PartInduction ==
  ASSUME NEW P, IsFiniteSet(P), NEW G, {} \in G,
         \A s \in SUBSET P : \A x \in s : s \ {x} \in G => s \in G
  PROVE  P \in G
<1> DEFINE Good == {n \in Nat : \A s \in SUBSET P : Cardinality(s) = n => s \in G}
<1>1. \A s \in SUBSET P : IsFiniteSet(s) /\ Cardinality(s) \in Nat
  BY FS_Subset, FS_CardinalityType
<1>2. 0 \in Good
  BY <1>1, FS_EmptySet
<1>3. ASSUME NEW n \in Nat, n \in Good PROVE n + 1 \in Good
  <2> SUFFICES ASSUME NEW s \in SUBSET P, Cardinality(s) = n + 1 PROVE s \in G
    OBVIOUS
  <2>1. s # {}
    BY FS_EmptySet
  <2>2. PICK x \in s : TRUE
    BY <2>1
  <2>a. IsFiniteSet(s)
    BY <1>1
  <2>b. Cardinality(s \ {x}) = Cardinality(s) - 1
    BY <2>a, FS_RemoveElement
  <2>3. s \ {x} \in SUBSET P /\ Cardinality(s \ {x}) = n
    BY <2>b
  <2>4. s \ {x} \in G
    BY <2>3, <1>3
  <2> QED
    BY <2>4
<1>4. Nat \subseteq Good
  <2> HIDE DEF Good
  <2> QED
    BY <1>2, <1>3, NatSetInduction
<1> QED
  BY <1>1, <1>4

\* Sums are subtracted argument by argument
IsDifference(d, u, v, P) ==
  /\ u \in [P -> Int] /\ v \in [P -> Int] /\ d \in [P -> Int]
  /\ \A p \in P : d[p] = u[p] - v[p]

LEMMA SumOfDifferences ==
  ASSUME NEW P, IsFiniteSet(P), NEW d, NEW u, NEW v, IsDifference(d, u, v, P)
  PROVE  SumFunction(d) = SumFunction(u) - SumFunction(v)
<1>0. /\ u \in [P -> Int] /\ v \in [P -> Int] /\ d \in [P -> Int]
      /\ \A p \in P : d[p] = u[p] - v[p]
  BY DEF IsDifference
<1>1. PICK h : IsTotals(d, P, h)
  BY <1>0, SumTable
<1>2. PICK a : IsTotals(u, P, a)
  BY <1>0, SumTable
<1>3. PICK b : IsTotals(v, P, b)
  BY <1>0, SumTable
<1> DEFINE G == {s \in SUBSET P : h[s] = a[s] - b[s]}
<1>4. {} \in G
  BY <1>1, <1>2, <1>3 DEF IsTotals
<1>5. ASSUME NEW s \in SUBSET P, NEW x \in s, s \ {x} \in G PROVE s \in G
  <2> DEFINE rest == s \ {x}
  <2>1. h[s] = d[x] + h[rest] /\ a[s] = u[x] + a[rest] /\ b[s] = v[x] + b[rest]
    BY <1>1, <1>2, <1>3 DEF IsTotals
  <2>2. a[rest] \in Int /\ b[rest] \in Int /\ u[x] \in Int /\ v[x] \in Int
    BY <1>0, <1>2, <1>3 DEF IsTotals
  <2>3. h[rest] = a[rest] - b[rest] /\ d[x] = u[x] - v[x]
    BY <1>0, <1>5
  <2> HIDE DEF rest
  <2> QED
    BY <2>1, <2>2, <2>3
<1>6. P \in G
  <2> HIDE DEF G
  <2> QED
    BY <1>4, <1>5, PartInduction
<1> QED
  BY <1>6, <1>1, <1>2, <1>3 DEF IsTotals

\* A sum is the same over the elements and over what names each of them once; 0 names none
AreNamed(u, P, l, f, D) ==
  /\ f \in [D -> Int] /\ u \in [P -> Int] /\ l \in [P -> D \union {0}] /\ 0 \notin D
  /\ \A p, q \in P : l[p] = l[q] /\ l[p] # 0 => p = q
  /\ \A x \in D : \E p \in P : l[p] = x
  /\ \A p \in P : u[p] = IF l[p] = 0 THEN 0 ELSE f[l[p]]

LEMMA SumOfNamed ==
  ASSUME NEW P, IsFiniteSet(P), NEW D, IsFiniteSet(D), NEW l, NEW f, NEW u,
         AreNamed(u, P, l, f, D)
  PROVE  SumFunction(u) = SumFunction(f)
<1>0. /\ f \in [D -> Int] /\ u \in [P -> Int] /\ l \in [P -> D \union {0}] /\ 0 \notin D
      /\ \A p, q \in P : l[p] = l[q] /\ l[p] # 0 => p = q
      /\ \A x \in D : \E p \in P : l[p] = x
      /\ \A p \in P : u[p] = IF l[p] = 0 THEN 0 ELSE f[l[p]]
  BY DEF AreNamed
<1>1. PICK a : IsTotals(u, P, a)
  BY <1>0, SumTable
<1>2. PICK b : IsTotals(f, D, b)
  BY <1>0, SumTable
<1> DEFINE Named(s) == {x \in D : \E p \in s : l[p] = x}
           G == {s \in SUBSET P : a[s] = b[Named(s)]}
<1>3. {} \in G
  BY <1>1, <1>2 DEF IsTotals
<1>4. ASSUME NEW s \in SUBSET P, NEW p \in s, s \ {p} \in G PROVE s \in G
  <2> DEFINE rest == s \ {p}
  <2>1. a[s] = u[p] + a[rest] /\ a[rest] = b[Named(rest)]
    BY <1>1, <1>4 DEF IsTotals
  <2>2. Named(s) \in SUBSET D /\ Named(rest) \in SUBSET D
    OBVIOUS
  <2>3. CASE l[p] = 0
    <3>1. Named(s) = Named(rest)
      BY <2>3, <1>0
    <3>2. u[p] = 0 /\ b[Named(rest)] \in Int
      BY <2>3, <2>2, <1>0, <1>2 DEF IsTotals
    <3> HIDE DEF Named, rest
    <3> QED
      BY <2>1, <3>1, <3>2
  <2>4. CASE l[p] # 0
    <3>1. l[p] \in Named(s) /\ Named(s) \ {l[p]} = Named(rest) /\ u[p] = f[l[p]]
      BY <2>4, <1>0
    <3>2. b[Named(s)] = f[l[p]] + b[Named(rest)]
      <4> DEFINE x == l[p]
      <4> HIDE DEF Named, rest, x
      <4>1. x \in Named(s) /\ Named(s) \ {x} = Named(rest)
        BY <3>1 DEF x
      <4>2. b[Named(s)] = f[x] + b[Named(s) \ {x}]
        BY <4>1, <2>2, <1>2 DEF IsTotals
      <4> QED
        BY <4>1, <4>2 DEF x
    <3> HIDE DEF Named, rest
    <3> QED
      BY <2>1, <3>1, <3>2
  <2> QED
    BY <2>3, <2>4
<1>5. P \in G
  <2> HIDE DEF G
  <2> QED
    BY <1>3, <1>4, PartInduction
<1>6. Named(P) = D
  BY <1>0
<1> QED
  BY <1>5, <1>6, <1>1, <1>2 DEF IsTotals

-----------------------------------------------------------------------------
(* Pass 1: the k-th row with a fingerprint meets the k-th one with it *)

\* Within a finite set of numbers every element has a rank of its own, and no rank is left out
LEMMA Ranks ==
  ASSUME NEW E, E \subseteq Nat, IsFiniteSet(E)
  PROVE  LET rank(i) == Cardinality({j \in E : j < i}) IN
         /\ \A i \in E : rank(i) \in 0..(Cardinality(E) - 1)
         /\ \A i, k \in E : rank(i) = rank(k) => i = k
         /\ \A r \in 0..(Cardinality(E) - 1) : \E i \in E : rank(i) = r
<1> DEFINE below(i) == {j \in E : j < i}
           rank(i) == Cardinality(below(i))
<1>1. \A i : IsFiniteSet(below(i)) /\ rank(i) \in Nat
  BY FS_Subset, FS_CardinalityType
<1>2. Cardinality(E) \in Nat
  BY FS_CardinalityType
<1>3. ASSUME NEW i \in E PROVE rank(i) \in 0..(Cardinality(E) - 1)
  <2>1. below(i) \in SUBSET (E \ {i})
    OBVIOUS
  <2>2. IsFiniteSet(E \ {i}) /\ Cardinality(E \ {i}) = Cardinality(E) - 1
    BY FS_RemoveElement
  <2>3. rank(i) <= Cardinality(E \ {i})
    BY <2>1, <2>2, FS_Subset
  <2> QED
    BY <1>1, <1>2, <2>2, <2>3
<1>4. ASSUME NEW i \in E, NEW k \in E, i < k PROVE rank(i) < rank(k)
  <2>0. i \in Nat /\ k \in Nat /\ i \notin below(i)
    OBVIOUS
  <2>1. below(i) \union {i} \subseteq below(k)
    <3>1. ASSUME NEW j \in below(i) PROVE j \in below(k)
      BY <2>0, <1>4
    <3> QED
      BY <3>1, <1>4
  <2>2. Cardinality(below(i) \union {i}) = rank(i) + 1
    <3> HIDE DEF below
    <3> QED
      BY <1>1, <2>0, FS_AddElement
  <2>3. Cardinality(below(i) \union {i}) <= rank(k)
    BY <1>1, <2>1, FS_Subset
  <2> QED
    BY <1>1, <2>2, <2>3
<1> HIDE DEF rank
<1>5. ASSUME NEW i \in E, NEW k \in E, rank(i) = rank(k) PROVE i = k
  <2>1. i < k => rank(i) < rank(k)
    BY <1>4
  <2>2. k < i => rank(k) < rank(i)
    BY <1>4
  <2>3. rank(i) \in Nat /\ rank(k) \in Nat
    BY <1>1
  <2> QED
    BY <1>5, <2>1, <2>2, <2>3
<1>6. ASSUME NEW r \in 0..(Cardinality(E) - 1) PROVE \E i \in E : rank(i) = r
  <2> DEFINE f == [i \in E |-> rank(i)]
             T == 0..(Cardinality(E) - 1)
  <2>1. f \in Injection(E, T)
    BY <1>3, <1>5 DEF Injection, IsInjective
  <2>2. IsFiniteSet(T) /\ Cardinality(T) = Cardinality(E)
    BY <1>2, FS_Interval
  <2>3. f \in Surjection(E, T)
    BY <2>1, <2>2, FS_Injection
  <2> QED
    BY <2>3 DEF Surjection
<1> QED
  BY <1>3, <1>5, <1>6 DEF rank

\* Rank numbers the rows of one identity and fingerprint
LEMMA EqualRows ==
  ASSUME NEW rows \in Seq(LedgerRow), NEW row
  PROVE  /\ Equal(rows, row) \subseteq 1..Len(rows) /\ IsFiniteSet(Equal(rows, row))
         /\ \A i \in Equal(rows, row) : Rank(rows, i) \in 0..(Cardinality(Equal(rows, row)) - 1)
         /\ \A i, k \in Equal(rows, row) : Rank(rows, i) = Rank(rows, k) => i = k
         /\ \A r \in 0..(Cardinality(Equal(rows, row)) - 1) :
              \E i \in Equal(rows, row) : Rank(rows, i) = r
<1>1. DOMAIN rows = 1..Len(rows) /\ Len(rows) \in Nat
  BY LenProperties
<1>2. Equal(rows, row) \subseteq 1..Len(rows)
  BY <1>1 DEF Equal
<1>3. IsFiniteSet(Equal(rows, row))
  <2>1. IsFiniteSet(1..Len(rows))
    BY <1>1, FS_Interval
  <2> QED
    BY <1>2, <2>1, FS_Subset
<1>4. ASSUME NEW i \in Equal(rows, row)
      PROVE  Rank(rows, i) = Cardinality({j \in Equal(rows, row) : j < i})
  <2>1. {j \in Group(rows, rows[i].key) : j < i /\ Matches(rows[j], rows[i])}
          = {j \in Equal(rows, row) : j < i}
    BY DEF Equal, Group, Matches
  <2> QED
    BY <2>1 DEF Rank
<1> DEFINE E == Equal(rows, row)
           rank(i) == Cardinality({j \in E : j < i})
<1>5. E \subseteq Nat /\ IsFiniteSet(E)
  BY <1>1, <1>2, <1>3
<1> HIDE DEF E
<1>6. /\ \A i \in E : rank(i) \in 0..(Cardinality(E) - 1)
      /\ \A i, k \in E : rank(i) = rank(k) => i = k
      /\ \A r \in 0..(Cardinality(E) - 1) : \E i \in E : rank(i) = r
  BY <1>5, Ranks
<1>7. \A i \in E : Rank(rows, i) = rank(i)
  BY <1>4 DEF E
<1> HIDE DEF rank
<1>8. /\ \A i \in E : Rank(rows, i) \in 0..(Cardinality(E) - 1)
      /\ \A i, k \in E : Rank(rows, i) = Rank(rows, k) => i = k
      /\ \A r \in 0..(Cardinality(E) - 1) : \E i \in E : Rank(rows, i) = r
  BY <1>6, <1>7
<1> QED
  BY <1>2, <1>3, <1>8 DEF E

\* No row is matched twice, and no two rows left alone have one fingerprint
LEMMA ExactMatching ==
  ASSUME NEW prior \in Seq(LedgerRow), NEW current \in Seq(LedgerRow), NEW key
  PROVE  LET X == ExactPairs(prior, current, key) IN
         /\ \A p, q \in X : p.before = q.before \/ p.after = q.after => p = q
         /\ \A a \in Group(prior, key) \ Befores(X) :
              \A b \in Group(current, key) \ Afters(X) : ~ Matches(prior[a], current[b])
<1> DEFINE X == ExactPairs(prior, current, key)
<1>1. ASSUME NEW p \in X, NEW q \in X, p.before = q.before PROVE p = q
  <2> DEFINE E == Equal(current, prior[p.before])
  <2>1. p.after \in E /\ q.after \in E
    BY <1>1 DEF ExactPairs, Equal, Group, Matches
  <2>2. Rank(current, p.after) = Rank(current, q.after)
    BY <1>1 DEF ExactPairs
  <2>3. p.after = q.after
    BY <2>1, <2>2, EqualRows
  <2> QED
    BY <1>1, <2>3 DEF ExactPairs
<1>2. ASSUME NEW p \in X, NEW q \in X, p.after = q.after PROVE p = q
  <2> DEFINE E == Equal(prior, current[p.after])
  <2>1. p.before \in E /\ q.before \in E
    BY <1>2 DEF ExactPairs, Equal, Group, Matches
  <2>2. Rank(prior, p.before) = Rank(prior, q.before)
    BY <1>2 DEF ExactPairs
  <2>3. p.before = q.before
    BY <2>1, <2>2, EqualRows
  <2> QED
    BY <1>2, <2>3 DEF ExactPairs
<1>3. ASSUME NEW a \in Group(prior, key) \ Befores(X), NEW b \in Group(current, key) \ Afters(X),
             Matches(prior[a], current[b])
      PROVE  FALSE
  <2> DEFINE E == Equal(prior, prior[a])
             F == Equal(current, prior[a])
  <2>1. a \in E /\ b \in F
    BY <1>3 DEF Equal, Group, Matches
  <2>2. \A i \in E : \A j \in F : /\ i \in Group(prior, key) /\ j \in Group(current, key)
                               /\ Matches(prior[i], current[j])
    BY <1>3 DEF Equal, Group, Matches
  <2>3. /\ Rank(prior, a) \in 0..(Cardinality(E) - 1)
        /\ Rank(current, b) \in 0..(Cardinality(F) - 1)
    BY <2>1, EqualRows
  <2>4. Cardinality(E) \in Nat /\ Cardinality(F) \in Nat
    BY EqualRows, FS_CardinalityType
  <2>5. ASSUME Rank(prior, a) \in 0..(Cardinality(F) - 1) PROVE FALSE
    <3>1. PICK j \in F : Rank(current, j) = Rank(prior, a)
      BY <2>5, EqualRows
    <3>2. [before |-> a, after |-> j] \in X
      BY <2>1, <2>2, <3>1 DEF ExactPairs
    <3> QED
      BY <3>2 DEF Befores
  <2>6. ASSUME Rank(current, b) \in 0..(Cardinality(E) - 1) PROVE FALSE
    <3>1. PICK i \in E : Rank(prior, i) = Rank(current, b)
      BY <2>6, EqualRows
    <3>2. [before |-> i, after |-> b] \in X
      BY <2>1, <2>2, <3>1 DEF ExactPairs
    <3> QED
      BY <3>2 DEF Afters
  <2> QED
    BY <2>3, <2>4, <2>5, <2>6
<1> QED
  BY <1>1, <1>2, <1>3

-----------------------------------------------------------------------------
(* Pass 2: round after round the best candidate is taken *)

LEMMA LeastBy ==
  ASSUME NEW C, C # {}, NEW f \in [C -> Nat]
  PROVE  \E p \in C : \A q \in C : f[p] <= f[q]
<1>1. PICK n \in {f[p] : p \in C} : \A m \in {f[p] : p \in C} : n <= m
  <2>1. {f[p] : p \in C} \subseteq Nat /\ {f[p] : p \in C} # {}
    OBVIOUS
  <2> QED
    BY <2>1, LeastOf
<1> QED
  BY <1>1

LEMMA BeforeOfFour ==
  ASSUME NEW a1 \in Nat, NEW a2 \in Nat, NEW a3 \in Nat, NEW a4 \in Nat,
         NEW b1 \in Nat, NEW b2 \in Nat, NEW b3 \in Nat, NEW b4 \in Nat,
         \/ a1 < b1
         \/ a1 = b1 /\ a2 < b2
         \/ a1 = b1 /\ a2 = b2 /\ a3 < b3
         \/ a1 = b1 /\ a2 = b2 /\ a3 = b3 /\ a4 < b4
  PROVE  Before(<<a1, a2, a3, a4>>, <<b1, b2, b3, b4>>)
<1> DEFINE s == <<a1, a2, a3, a4>>
           t == <<b1, b2, b3, b4>>
<1>1. /\ DOMAIN s = 1..4
      /\ s[1] = a1 /\ s[2] = a2 /\ s[3] = a3 /\ s[4] = a4
      /\ t[1] = b1 /\ t[2] = b2 /\ t[3] = b3 /\ t[4] = b4
  OBVIOUS
<1> HIDE DEF s, t
<1>2. \E i \in 1..4 : s[i] < t[i] /\ \A j \in 1..(i - 1) : s[j] = t[j]
  <2>1. CASE a1 < b1
    <3>1. 1 \in 1..4 /\ s[1] < t[1] /\ \A j \in 1..(1 - 1) : s[j] = t[j]
      BY <1>1, <2>1
    <3> QED
      BY <3>1
  <2>2. CASE a1 = b1 /\ a2 < b2
    <3>1. 2 \in 1..4 /\ s[2] < t[2] /\ \A j \in 1..(2 - 1) : s[j] = t[j]
      BY <1>1, <2>2
    <3> QED
      BY <3>1
  <2>3. CASE a1 = b1 /\ a2 = b2 /\ a3 < b3
    <3>0. \A j \in 1..(3 - 1) : j = 1 \/ j = 2
      OBVIOUS
    <3>1. 3 \in 1..4 /\ s[3] < t[3] /\ \A j \in 1..(3 - 1) : s[j] = t[j]
      BY <1>1, <2>3, <3>0
    <3> QED
      BY <3>1
  <2>4. CASE a1 = b1 /\ a2 = b2 /\ a3 = b3 /\ a4 < b4
    <3>0. \A j \in 1..(4 - 1) : j = 1 \/ j = 2 \/ j = 3
      OBVIOUS
    <3>1. 4 \in 1..4 /\ s[4] < t[4] /\ \A j \in 1..(4 - 1) : s[j] = t[j]
      BY <1>1, <2>4, <3>0
    <3> QED
      BY <3>1
  <2> QED
    BY <2>1, <2>2, <2>3, <2>4
<1> QED
  BY <1>1, <1>2 DEF Before, s, t

\* Of finitely or infinitely many candidates one is the best
LEMMA BestExists ==
  ASSUME NEW prior \in Seq(LedgerRow), NEW current \in Seq(LedgerRow),
         NEW L, L \subseteq DOMAIN prior, NEW R, R \subseteq DOMAIN current,
         [before : L, after : R] # {}
  PROVE  Best(prior, current, [before : L, after : R]) \in [before : L, after : R]
<1> DEFINE C == [before : L, after : R]
           changed == [p \in C |-> Changed(prior[p.before], current[p.after])]
           distance == [p \in C |-> Distance(prior[p.before], current[p.after])]
           before == [p \in C |-> p.before]
           after == [p \in C |-> p.after]
<1>1. \A p \in C : /\ p.before \in Nat /\ p.after \in Nat
                  /\ prior[p.before] \in LedgerRow /\ current[p.after] \in LedgerRow
  <2>1. DOMAIN prior = 1..Len(prior) /\ DOMAIN current = 1..Len(current)
        /\ Len(prior) \in Nat /\ Len(current) \in Nat
    BY LenProperties
  <2>2. \A p \in C : p.before \in 1..Len(prior) /\ p.after \in 1..Len(current)
    BY <2>1
  <2> QED
    BY <2>1, <2>2, ElementOfSeq
<1>2. before \in [C -> Nat] /\ after \in [C -> Nat]
  BY <1>1
<1>3. ASSUME NEW a \in LedgerRow, NEW b \in LedgerRow
      PROVE  Changed(a, b) \in Nat /\ Distance(a, b) \in Nat
  <2>1. a.amount \in Int /\ b.amount \in Int
    BY DEF LedgerRow
  <2>2. Distance(a, b) \in Nat
    BY <2>1 DEF Distance
  <2>3. Changed(a, b) \in Nat
    BY DEF Changed
  <2> QED
    BY <2>2, <2>3
<1>4. changed \in [C -> Nat] /\ distance \in [C -> Nat]
  BY <1>1, <1>3
<1>5. \A p \in C : Order(prior, current, p) = <<changed[p], distance[p], before[p], after[p]>>
  BY DEF Order
<1>6. \A p, q \in C : before[p] = before[q] /\ after[p] = after[q] => p = q
  OBVIOUS
<1> HIDE DEF C, changed, distance, before, after
<1>7. \E p \in C : \A q \in C :
        \/ p = q
        \/ changed[p] < changed[q]
        \/ changed[p] = changed[q] /\ distance[p] < distance[q]
        \/ changed[p] = changed[q] /\ distance[p] = distance[q] /\ before[p] < before[q]
        \/ /\ changed[p] = changed[q] /\ distance[p] = distance[q]
           /\ before[p] = before[q] /\ after[p] < after[q]
  <2>1. PICK p1 \in C : \A q \in C : changed[p1] <= changed[q]
    BY <1>4, LeastBy DEF C
  <2> DEFINE C2 == {p \in C : changed[p] = changed[p1]}
  <2>2. PICK p2 \in C2 : \A q \in C2 : distance[p2] <= distance[q]
    <3> DEFINE f == [p \in C2 |-> distance[p]]
    <3>1. f \in [C2 -> Nat] /\ C2 # {}
      BY <1>4, <2>1
    <3>2. \E p \in C2 : \A q \in C2 : f[p] <= f[q]
      BY <3>1, LeastBy
    <3> QED
      BY <3>2
  <2> DEFINE C3 == {p \in C2 : distance[p] = distance[p2]}
  <2>3. PICK p3 \in C3 : \A q \in C3 : before[p3] <= before[q]
    <3> DEFINE f == [p \in C3 |-> before[p]]
    <3>1. f \in [C3 -> Nat] /\ C3 # {}
      BY <1>2, <2>2
    <3>2. \E p \in C3 : \A q \in C3 : f[p] <= f[q]
      BY <3>1, LeastBy
    <3> QED
      BY <3>2
  <2> DEFINE C4 == {p \in C3 : before[p] = before[p3]}
  <2>4. PICK p4 \in C4 : \A q \in C4 : after[p4] <= after[q]
    <3> DEFINE f == [p \in C4 |-> after[p]]
    <3>1. f \in [C4 -> Nat] /\ C4 # {}
      BY <1>2, <2>3
    <3>2. \E p \in C4 : \A q \in C4 : f[p] <= f[q]
      BY <3>1, LeastBy
    <3> QED
      BY <3>2
  <2>5. \A q \in C : changed[q] \in Nat /\ distance[q] \in Nat /\ before[q] \in Nat /\ after[q] \in Nat
    BY <1>2, <1>4
  <2> WITNESS p4 \in C
  <2> TAKE q \in C
  <2>6. CASE changed[q] # changed[p4]
    BY <2>1, <2>5, <2>6
  <2>7. CASE q \in C2 /\ distance[q] # distance[p4]
    BY <2>2, <2>5, <2>7
  <2>8. CASE q \in C3 /\ before[q] # before[p4]
    BY <2>3, <2>5, <2>8
  <2>9. CASE q \in C4
    BY <2>4, <2>5, <2>9, <1>6
  <2> QED
    BY <2>6, <2>7, <2>8, <2>9
<1>8. \A p \in C : changed[p] \in Nat /\ distance[p] \in Nat /\ before[p] \in Nat /\ after[p] \in Nat
  BY <1>2, <1>4
<1>9. \E p \in C : \A q \in C :
        p = q \/ Before(Order(prior, current, p), Order(prior, current, q))
  <2>1. ASSUME NEW p \in C, NEW q \in C,
               \/ changed[p] < changed[q]
               \/ changed[p] = changed[q] /\ distance[p] < distance[q]
               \/ changed[p] = changed[q] /\ distance[p] = distance[q] /\ before[p] < before[q]
               \/ /\ changed[p] = changed[q] /\ distance[p] = distance[q]
                  /\ before[p] = before[q] /\ after[p] < after[q]
        PROVE  Before(Order(prior, current, p), Order(prior, current, q))
    <3>1. Before(<<changed[p], distance[p], before[p], after[p]>>,
                 <<changed[q], distance[q], before[q], after[q]>>)
      BY <1>8, <2>1, BeforeOfFour
    <3> QED
      BY <1>5, <3>1
  <2> QED
    BY <1>7, <2>1
<1>10. Best(prior, current, C) \in C
  BY <1>9 DEF Best
<1> QED
  BY <1>10 DEF C

\* The pairs used after each round
IsTaken(prior, current, left, right, T) ==
  T = [n \in 0..Cardinality(left) |->
         IF n = 0 THEN {} ELSE Round(prior, current, left, right, T[n - 1])]

\* A round adds at most one pair, of rows not used before; it adds none only when one
\* side is used up
LEMMA OneRound ==
  ASSUME NEW prior \in Seq(LedgerRow), NEW current \in Seq(LedgerRow),
         NEW left, left \subseteq DOMAIN prior, NEW right, right \subseteq DOMAIN current,
         NEW used, used \subseteq [before : left, after : right]
  PROVE  LET next == Round(prior, current, left, right, used) IN
         \/ /\ next = used
            /\ left \subseteq Befores(used) \/ right \subseteq Afters(used)
         \/ \E p \in [before : left, after : right] :
              /\ p.before \notin Befores(used) /\ p.after \notin Afters(used)
              /\ next = used \union {p}
<1> DEFINE L == left \ Befores(used)
           R == right \ Afters(used)
           C == [before : L, after : R]
<1>1. CASE C = {}
  <2>1. L = {} \/ R = {}
    <3> SUFFICES ASSUME NEW a \in L, NEW b \in R PROVE FALSE
      OBVIOUS
    <3>1. [before |-> a, after |-> b] \in C
      OBVIOUS
    <3> QED
      BY <1>1, <3>1
  <2> QED
    BY <1>1, <2>1 DEF Round
<1>2. CASE C # {}
  <2>1. Best(prior, current, C) \in C
    <3> HIDE DEF L, R
    <3>1. L \subseteq DOMAIN prior /\ R \subseteq DOMAIN current
      BY DEF L, R
    <3> QED
      BY <1>2, <3>1, BestExists
  <2> DEFINE p == Best(prior, current, C)
  <2>2. p \in [before : left, after : right]
        /\ p.before \notin Befores(used) /\ p.after \notin Afters(used)
    BY <2>1
  <2>3. Round(prior, current, left, right, used) = used \union {p}
    BY <1>2 DEF Round
  <2> QED
    BY <2>2, <2>3
<1> QED
  BY <1>1, <1>2

LEMMA TakenExists ==
  ASSUME NEW prior \in Seq(LedgerRow), NEW current \in Seq(LedgerRow),
         NEW left, left \subseteq DOMAIN prior, NEW right, right \subseteq DOMAIN current,
         IsFiniteSet(left)
  PROVE  \E T : IsTaken(prior, current, left, right, T)
<1> DEFINE S == SUBSET [before : left, after : right]
           N == Cardinality(left)
           next(used) == Round(prior, current, left, right, used)
           step == [n \in 1..N |-> [used \in S |-> next(used)]]
<1>1. \A used \in S : next(used) \in S
  BY OneRound
<1>2. N \in Nat
  BY FS_CardinalityType
<1> HIDE DEF next
<1>3. step \in [1..N -> [S -> S]]
  BY <1>1
<1>4. PICK T \in [0..N -> S] : T[0] = {} /\ \A n \in 1..N : T[n] = step[n][T[n - 1]]
  <2> DEFINE none == {}
  <2>1. none \in S
    OBVIOUS
  <2> HIDE DEF S, N, step, none
  <2>2. \E T : IsRecursion(T, S, none, N, step)
    BY <1>2, <1>3, <2>1, Recursion
  <2> QED
    BY <2>2 DEF none, IsRecursion
<1>5. ASSUME NEW n \in 1..N PROVE T[n] = next(T[n - 1])
  <2>1. T[n - 1] \in S
    BY <1>2
  <2> QED
    BY <1>4, <2>1
<1>6. T = [n \in 0..N |-> IF n = 0 THEN {} ELSE next(T[n - 1])]
  <2>1. \A n \in 0..N : n # 0 => n \in 1..N
    BY <1>2
  <2> QED
    BY <1>4, <1>5, <2>1
<1> QED
  BY <1>6 DEF next, IsTaken

\* Pass 2 uses no row twice, and goes on until one side is used up
LEMMA ResidualMatching ==
  ASSUME NEW prior \in Seq(LedgerRow), NEW current \in Seq(LedgerRow),
         NEW left, left \subseteq DOMAIN prior, NEW right, right \subseteq DOMAIN current,
         IsFiniteSet(left)
  PROVE  LET P == ResidualPairs(prior, current, left, right) IN
         /\ P \subseteq [before : left, after : right]
         /\ \A p, q \in P : p.before = q.before \/ p.after = q.after => p = q
         /\ left \subseteq Befores(P) \/ right \subseteq Afters(P)
<1> DEFINE T == CHOOSE T : IsTaken(prior, current, left, right, T)
           N == Cardinality(left)
           next(used) == Round(prior, current, left, right, used)
<1>1. IsTaken(prior, current, left, right, T)
  BY TakenExists
<1>2. ResidualPairs(prior, current, left, right) = T[N]
  BY Zenon DEF ResidualPairs, IsTaken
<1> HIDE DEF T
<1>3. N \in Nat
  BY FS_CardinalityType
<1>4. T[0] = {} /\ \A n \in 1..N : T[n] = next(T[n - 1])
  <2>1. 0 \in 0..N /\ \A n \in 1..N : n \in 0..N /\ n # 0
    BY <1>3
  <2>2. T = [n \in 0..N |-> IF n = 0 THEN {} ELSE next(T[n - 1])]
    BY <1>1 DEF IsTaken
  <2> HIDE DEF next, N
  <2> QED
    BY <2>1, <2>2
<1> DEFINE Done(P) == left \subseteq Befores(P) \/ right \subseteq Afters(P)
           Apart(P) == \A p, q \in P : p.before = q.before \/ p.after = q.after => p = q
           Kept(P) == P \subseteq [before : left, after : right] /\ Apart(P)
           Good == {n \in Nat : n <= N => /\ Kept(T[n])
                                          /\ Done(T[n]) \/ Cardinality(Befores(T[n])) = n}
<1>5. ASSUME NEW P, Kept(P)
      PROVE  /\ Kept(next(P))
             /\ Done(P) => Done(next(P))
             /\ ~ Done(P) => Cardinality(Befores(next(P))) = Cardinality(Befores(P)) + 1
  <2>1. CASE next(P) = P /\ Done(P)
    BY <1>5, <2>1
  <2>2. ASSUME NEW p \in [before : left, after : right],
               p.before \notin Befores(P), p.after \notin Afters(P), next(P) = P \union {p}
        PROVE  /\ Kept(next(P))
               /\ Done(P) => Done(next(P))
               /\ Cardinality(Befores(next(P))) = Cardinality(Befores(P)) + 1
    <3> HIDE DEF next
    <3>1. Befores(next(P)) = Befores(P) \union {p.before} /\ Afters(P) \subseteq Afters(next(P))
      BY <2>2 DEF Befores, Afters
    <3>2. IsFiniteSet(Befores(P))
      <4>1. Befores(P) \in SUBSET left
        BY <1>5 DEF Befores
      <4> QED
        BY <4>1, FS_Subset
    <3>3. Cardinality(Befores(next(P))) = Cardinality(Befores(P)) + 1
      BY <2>2, <3>1, <3>2, FS_AddElement
    <3>4. Kept(next(P))
      BY <1>5, <2>2 DEF Befores, Afters
    <3> QED
      BY <3>1, <3>3, <3>4
  <2>3. \/ next(P) = P /\ Done(P)
        \/ \E p \in [before : left, after : right] :
             /\ p.before \notin Befores(P) /\ p.after \notin Afters(P)
             /\ next(P) = P \union {p}
    BY <1>5, OneRound
  <2> QED
    BY <2>1, <2>2, <2>3
<1>6. 0 \in Good
  <2>1. Befores({}) = {}
    BY DEF Befores
  <2> QED
    BY <1>4, <2>1, FS_EmptySet
<1> HIDE DEF next
<1>7. ASSUME NEW n \in Nat, n \in Good PROVE n + 1 \in Good
  <2> SUFFICES ASSUME n + 1 <= N
               PROVE  /\ Kept(T[n + 1])
                      /\ Done(T[n + 1]) \/ Cardinality(Befores(T[n + 1])) = n + 1
    OBVIOUS
  <2>1. T[n + 1] = next(T[n])
    BY <1>3, <1>4
  <2>2. Kept(T[n]) /\ (Done(T[n]) \/ Cardinality(Befores(T[n])) = n)
    BY <1>3, <1>7
  <2> HIDE DEF Kept, Done
  <2> QED
    BY <1>5, <2>1, <2>2
<1>8. N \in Good
  <2> HIDE DEF Good
  <2> QED
    BY <1>3, <1>6, <1>7, NatSetInduction
<1>9. Kept(T[N]) /\ (Done(T[N]) \/ Cardinality(Befores(T[N])) = N)
  BY <1>3, <1>8
<1>10. Done(T[N])
  <2>1. Befores(T[N]) \in SUBSET left
    BY <1>9 DEF Befores
  <2>2. Cardinality(Befores(T[N])) = N => Befores(T[N]) = left
    BY <2>1, FS_Subset
  <2> QED
    BY <1>9, <2>2
<1> QED
  BY <1>2, <1>9, <1>10

-----------------------------------------------------------------------------
(* The change rows *)

\* Each row of either side is in one pair at most, unless it is alone
Disjoint(pairs) ==
  \A p, q \in pairs : /\ p.before = q.before /\ p.before # 0 => p = q
                      /\ p.after = q.after /\ p.after # 0 => p = q

LEMMA GroupRows ==
  ASSUME NEW rows \in Seq(LedgerRow), NEW key
  PROVE  /\ Group(rows, key) \subseteq DOMAIN rows /\ DOMAIN rows = 1..Len(rows)
         /\ 0 \notin DOMAIN rows /\ IsFiniteSet(Group(rows, key)) /\ Len(rows) \in Nat
<1>1. DOMAIN rows = 1..Len(rows) /\ Len(rows) \in Nat
  BY LenProperties
<1>2. Group(rows, key) \subseteq DOMAIN rows
  BY DEF Group
<1>3. IsFiniteSet(1..Len(rows))
  BY <1>1, FS_Interval
<1> QED
  BY <1>1, <1>2, <1>3, FS_Subset

\* Within one identity every row is paired or alone, rows are alone on one side at most,
\* and the pairs of one fingerprint are those of pass 1
LEMMA GroupPaired ==
  ASSUME NEW prior \in Seq(LedgerRow), NEW current \in Seq(LedgerRow), NEW key
  PROVE  LET G == Group(prior, key)
             H == Group(current, key)
             P == PairGroup(prior, current, key) IN
         /\ P \subseteq [before : G \union {0}, after : H \union {0}]
         /\ \A p \in P : p.before # 0 \/ p.after # 0
         /\ Disjoint(P) /\ G \subseteq Befores(P) /\ H \subseteq Afters(P)
         /\ \A p, q \in P : ~ (p.before = 0 /\ q.after = 0)
         /\ {p \in P : /\ p.before # 0 /\ p.after # 0
                      /\ Matches(prior[p.before], current[p.after])}
              = ExactPairs(prior, current, key)
<1> DEFINE G == Group(prior, key)
           H == Group(current, key)
           X == ExactPairs(prior, current, key)
           L == G \ Befores(X)
           R == H \ Afters(X)
           Y == ResidualPairs(prior, current, L, R)
           paired == X \union Y
           A == G \ Befores(paired)
           B == H \ Afters(paired)
           P == PairGroup(prior, current, key)
<1>1. /\ G \subseteq DOMAIN prior /\ H \subseteq DOMAIN current /\ IsFiniteSet(L)
      /\ 0 \notin G /\ 0 \notin H
  <2>1. L \in SUBSET G
    OBVIOUS
  <2> QED
    BY <2>1, GroupRows, FS_Subset
<1>2. P = paired \union [before : A, after : {0}] \union [before : {0}, after : B]
  BY DEF PairGroup
<1>3. /\ \A p, q \in X : p.before = q.before \/ p.after = q.after => p = q
      /\ \A a \in L : \A b \in R : ~ Matches(prior[a], current[b])
  BY ExactMatching
<1>4. /\ X \subseteq [before : G, after : H]
      /\ \A p \in X : Matches(prior[p.before], current[p.after])
  BY DEF ExactPairs
<1>5. /\ Y \subseteq [before : L, after : R]
      /\ \A p, q \in Y : p.before = q.before \/ p.after = q.after => p = q
      /\ L \subseteq Befores(Y) \/ R \subseteq Afters(Y)
  <2> HIDE DEF L, R
  <2>1. L \subseteq DOMAIN prior /\ R \subseteq DOMAIN current
    BY <1>1 DEF L, R
  <2> QED
    BY <1>1, <2>1, ResidualMatching
<1> HIDE DEF G, H, X, Y, P
<1>6. paired \subseteq [before : G, after : H]
  BY <1>4, <1>5
<1>7. \A p, q \in paired : p.before = q.before \/ p.after = q.after => p = q
  BY <1>3, <1>5 DEF Befores, Afters
<1>8. A = {} \/ B = {}
  BY <1>5 DEF Befores, Afters
<1>9. A \subseteq G /\ B \subseteq H /\ A \intersect Befores(paired) = {} /\ B \intersect Afters(paired) = {}
      /\ G \subseteq Befores(paired) \union A /\ H \subseteq Afters(paired) \union B
  OBVIOUS
<1>10. {p \in paired : Matches(prior[p.before], current[p.after])} = X
  BY <1>3, <1>4, <1>5
<1> HIDE DEF A, B, paired
<1>11. /\ \A p \in paired : p.before # 0 /\ p.after # 0
       /\ \A p \in [before : A, after : {0}] : p.before \in A /\ p.before # 0 /\ p.after = 0
       /\ \A p \in [before : {0}, after : B] : p.before = 0 /\ p.after \in B /\ p.after # 0
  BY <1>1, <1>6, <1>9
<1>12. P \subseteq [before : G \union {0}, after : H \union {0}]
  BY <1>2, <1>6, <1>9
<1>13. Disjoint(P)
  <2> SUFFICES ASSUME NEW p \in P, NEW q \in P
               PROVE  /\ p.before = q.before /\ p.before # 0 => p = q
                      /\ p.after = q.after /\ p.after # 0 => p = q
    BY DEF Disjoint
  <2>1. CASE p \in paired /\ q \in paired
    BY <2>1, <1>7
  <2>2. CASE p \in paired /\ q \notin paired
    BY <2>2, <1>2, <1>9, <1>11 DEF Befores, Afters
  <2>3. CASE p \notin paired /\ q \in paired
    BY <2>3, <1>2, <1>9, <1>11 DEF Befores, Afters
  <2>4. CASE p \notin paired /\ q \notin paired
    BY <2>4, <1>2, <1>11
  <2> QED
    BY <2>1, <2>2, <2>3, <2>4
<1>14. G \subseteq Befores(P)
  <2>1. ASSUME NEW i \in A PROVE \E p \in P : i = p.before
    <3>1. [before |-> i, after |-> 0] \in P
      BY <1>2
    <3> QED
      BY <3>1
  <2>2. A \subseteq Befores(P)
    BY <2>1 DEF Befores
  <2>3. Befores(paired) \subseteq Befores(P)
    BY <1>2 DEF Befores
  <2> QED
    BY <1>9, <2>2, <2>3
<1>15. H \subseteq Afters(P)
  <2>1. ASSUME NEW i \in B PROVE \E p \in P : i = p.after
    <3>1. [before |-> 0, after |-> i] \in P
      BY <1>2
    <3> QED
      BY <3>1
  <2>2. B \subseteq Afters(P)
    BY <2>1 DEF Afters
  <2>3. Afters(paired) \subseteq Afters(P)
    BY <1>2 DEF Afters
  <2> QED
    BY <1>9, <2>2, <2>3
<1>16. \A p, q \in P : ~ (p.before = 0 /\ q.after = 0)
  BY <1>2, <1>8, <1>11
<1>17. {p \in P : /\ p.before # 0 /\ p.after # 0
                 /\ Matches(prior[p.before], current[p.after])} = X
  BY <1>2, <1>10, <1>11
<1>18. \A p \in P : p.before # 0 \/ p.after # 0
  BY <1>2, <1>11
<1> QED
  BY <1>12, <1>13, <1>14, <1>15, <1>16, <1>17, <1>18 DEF G, H, X, P

\* The same for the whole comparison
LEMMA AllPaired ==
  ASSUME NEW prior \in Seq(LedgerRow), NEW current \in Seq(LedgerRow)
  PROVE  LET P == Changes(prior, current) IN
         /\ P \subseteq [before : 0..Len(prior), after : 0..Len(current)]
         /\ \A p \in P : p.before # 0 \/ p.after # 0
         /\ Disjoint(P) /\ DOMAIN prior \subseteq Befores(P) /\ DOMAIN current \subseteq Afters(P)
         /\ \A p, q \in P : p.before = 0 /\ q.after = 0 =>
              current[p.after].key # prior[q.before].key
         /\ \A key : {p \in P : /\ p.before \in Group(prior, key) /\ p.after \in Group(current, key)
                               /\ Matches(prior[p.before], current[p.after])}
                       = ExactPairs(prior, current, key)
<1> DEFINE P == Changes(prior, current)
           K == Keys(prior) \union Keys(current)
           Of(key) == PairGroup(prior, current, key)
           G(key) == Group(prior, key)
           H(key) == Group(current, key)
<1>1. /\ \A key : G(key) \subseteq DOMAIN prior /\ H(key) \subseteq DOMAIN current
      /\ DOMAIN prior = 1..Len(prior) /\ DOMAIN current = 1..Len(current)
      /\ 0 \notin DOMAIN prior /\ 0 \notin DOMAIN current
      /\ Len(prior) \in Nat /\ Len(current) \in Nat
  BY GroupRows
<1>2. P = UNION {Of(key) : key \in K}
  BY DEF Changes
<1>3. ASSUME NEW key
      PROVE  /\ Of(key) \subseteq [before : G(key) \union {0}, after : H(key) \union {0}]
             /\ \A p \in Of(key) : p.before # 0 \/ p.after # 0
             /\ Disjoint(Of(key)) /\ G(key) \subseteq Befores(Of(key)) /\ H(key) \subseteq Afters(Of(key))
             /\ \A p, q \in Of(key) : ~ (p.before = 0 /\ q.after = 0)
             /\ {p \in Of(key) : /\ p.before # 0 /\ p.after # 0
                                /\ Matches(prior[p.before], current[p.after])}
                  = ExactPairs(prior, current, key)
  BY GroupPaired
<1>4. /\ \A i \in DOMAIN prior : prior[i].key \in K /\ \A key : i \in G(key) <=> prior[i].key = key
      /\ \A i \in DOMAIN current : current[i].key \in K /\ \A key : i \in H(key) <=> current[i].key = key
  BY DEF Keys, Group
<1> HIDE DEF P, K, Of, G, H
<1>5. ASSUME NEW p \in P, NEW key \in K, p \in Of(key)
      PROVE  /\ p.before \in G(key) \union {0} /\ p.after \in H(key) \union {0}
             /\ p \in [before : G(key) \union {0}, after : H(key) \union {0}]
             /\ p.before # 0 \/ p.after # 0
             /\ p.before # 0 => prior[p.before].key = key
             /\ p.after # 0 => current[p.after].key = key
  <2>1. p \in [before : G(key) \union {0}, after : H(key) \union {0}] /\ (p.before # 0 \/ p.after # 0)
    BY <1>3, <1>5
  <2>2. p.before \in G(key) \union {0} /\ p.after \in H(key) \union {0}
    BY <2>1
  <2>3. /\ p.before # 0 => prior[p.before].key = key
        /\ p.after # 0 => current[p.after].key = key
    BY <2>2, <1>1, <1>4
  <2> QED
    BY <2>1, <2>2, <2>3
<1>6. ASSUME NEW p \in P
      PROVE  /\ p \in [before : 0..Len(prior), after : 0..Len(current)]
             /\ p.before # 0 \/ p.after # 0
  <2>1. PICK key \in K : p \in Of(key)
    BY <1>2
  <2>2. G(key) \union {0} \subseteq 0..Len(prior) /\ H(key) \union {0} \subseteq 0..Len(current)
    <3>1. G(key) \subseteq 1..Len(prior) /\ H(key) \subseteq 1..Len(current)
      BY <1>1
    <3> QED
      BY <3>1, <1>1
  <2>3. p \in [before : G(key) \union {0}, after : H(key) \union {0}]
        /\ (p.before # 0 \/ p.after # 0)
    BY <2>1, <1>5
  <2> QED
    BY <2>2, <2>3
<1>8. Disjoint(P)
  <2> SUFFICES ASSUME NEW p \in P, NEW q \in P
               PROVE  /\ p.before = q.before /\ p.before # 0 => p = q
                      /\ p.after = q.after /\ p.after # 0 => p = q
    BY DEF Disjoint
  <2>1. PICK k1 \in K : p \in Of(k1)
    BY <1>2
  <2>2. PICK k2 \in K : q \in Of(k2)
    BY <1>2
  <2>3. \/ p.before = q.before /\ p.before # 0
        \/ p.after = q.after /\ p.after # 0
        => k1 = k2
    <3>1. /\ p.before # 0 => prior[p.before].key = k1
          /\ p.after # 0 => current[p.after].key = k1
      BY <2>1, <1>5
    <3>2. /\ q.before # 0 => prior[q.before].key = k2
          /\ q.after # 0 => current[q.after].key = k2
      BY <2>2, <1>5
    <3> QED
      BY <3>1, <3>2
  <2>4. Disjoint(Of(k1))
    BY <1>3
  <2> QED
    BY <2>1, <2>2, <2>3, <2>4 DEF Disjoint
<1>9. DOMAIN prior \subseteq Befores(P)
  <2>1. ASSUME NEW i \in DOMAIN prior PROVE i \in Befores(P)
    <3> DEFINE key == prior[i].key
    <3>1. key \in K /\ i \in G(key)
      BY <1>4
    <3>2. G(key) \subseteq Befores(Of(key))
      BY <1>3
    <3>3. PICK p \in Of(key) : i = p.before
      BY <3>1, <3>2 DEF Befores
    <3>4. p \in P
      BY <3>1, <1>2
    <3> QED
      BY <3>3, <3>4 DEF Befores
  <2> QED
    BY <2>1
<1>10. DOMAIN current \subseteq Afters(P)
  <2>1. ASSUME NEW i \in DOMAIN current PROVE i \in Afters(P)
    <3> DEFINE key == current[i].key
    <3>1. key \in K /\ i \in H(key)
      BY <1>4
    <3>2. H(key) \subseteq Afters(Of(key))
      BY <1>3
    <3>3. PICK p \in Of(key) : i = p.after
      BY <3>1, <3>2 DEF Afters
    <3>4. p \in P
      BY <3>1, <1>2
    <3> QED
      BY <3>3, <3>4 DEF Afters
  <2> QED
    BY <2>1
<1>11. ASSUME NEW p \in P, NEW q \in P, p.before = 0, q.after = 0,
              current[p.after].key = prior[q.before].key
       PROVE  FALSE
  <2>1. PICK k1 \in K : p \in Of(k1)
    BY <1>2
  <2>2. PICK k2 \in K : q \in Of(k2)
    BY <1>2
  <2>3. current[p.after].key = k1 /\ prior[q.before].key = k2
    BY <2>1, <2>2, <1>5, <1>11
  <2>4. \A r, t \in Of(k1) : ~ (r.before = 0 /\ t.after = 0)
    BY <1>3
  <2> QED
    BY <2>1, <2>2, <2>3, <2>4, <1>11
<1>12. ASSUME NEW key
       PROVE  {p \in P : /\ p.before \in G(key) /\ p.after \in H(key)
                        /\ Matches(prior[p.before], current[p.after])}
                = ExactPairs(prior, current, key)
  <2>1. ASSUME NEW p \in P, p.before \in G(key), p.after \in H(key),
               Matches(prior[p.before], current[p.after])
        PROVE  p \in ExactPairs(prior, current, key)
    <3>1. p.before # 0 /\ p.after # 0 /\ prior[p.before].key = key
      BY <2>1, <1>1, <1>4
    <3>2. p \in Of(key)
      <4>1. PICK k \in K : p \in Of(k)
        BY <1>2
      <4>2. prior[p.before].key = k
        BY <4>1, <3>1, <1>5
      <4> QED
        BY <4>1, <4>2, <3>1
    <3> QED
      BY <2>1, <3>1, <3>2, <1>3
  <2>2. ASSUME NEW p \in ExactPairs(prior, current, key)
        PROVE  p \in P /\ p.before \in G(key) /\ p.after \in H(key)
                 /\ Matches(prior[p.before], current[p.after])
    <3>1. p.before \in G(key) /\ p.after \in H(key) /\ Matches(prior[p.before], current[p.after])
      BY DEF ExactPairs, G, H
    <3>2. p \in Of(key)
      BY <1>3
    <3>3. key \in K
      BY <3>1, <1>1, <1>4
    <3> QED
      BY <3>1, <3>2, <3>3, <1>2
  <2> QED
    BY <2>1, <2>2
<1> QED
  BY <1>6, <1>8, <1>9, <1>10, <1>11, <1>12 DEF P, G, H

-----------------------------------------------------------------------------
(* The parts of Exact *)

LEMMA MinOfTwo ==
  ASSUME NEW m \in Int, NEW n \in Int
  PROVE  Min({m, n}) = IF m <= n THEN m ELSE n
<1>1. CASE m <= n
  BY <1>1 DEF Min
<1>2. CASE ~ (m <= n)
  BY <1>2 DEF Min
<1> QED
  BY <1>1, <1>2

LEMMA CoveredOnce ==
  ASSUME NEW prior \in Seq(LedgerRow), NEW current \in Seq(LedgerRow)
  PROVE  /\ OnceBefore(Changes(prior, current), prior)
         /\ OnceAfter(Changes(prior, current), current)
<1> DEFINE P == Changes(prior, current)
<1>1. /\ Disjoint(P) /\ DOMAIN prior \subseteq Befores(P) /\ DOMAIN current \subseteq Afters(P)
      /\ 0 \notin DOMAIN prior /\ 0 \notin DOMAIN current
  BY AllPaired, GroupRows
<1> HIDE DEF P
<1>2. ASSUME NEW i \in DOMAIN prior PROVE Cardinality({p \in P : p.before = i}) = 1
  <2>1. PICK p \in P : p.before = i
    BY <1>1 DEF Befores
  <2>2. {q \in P : q.before = i} = {p}
    BY <1>1, <2>1 DEF Disjoint
  <2> QED
    BY <2>2, FS_Singleton
<1>3. ASSUME NEW i \in DOMAIN current PROVE Cardinality({p \in P : p.after = i}) = 1
  <2>1. PICK p \in P : p.after = i
    BY <1>1 DEF Afters
  <2>2. {q \in P : q.after = i} = {p}
    BY <1>1, <2>1 DEF Disjoint
  <2> QED
    BY <2>2, FS_Singleton
<1> QED
  BY <1>2, <1>3 DEF OnceBefore, OnceAfter, P

\* Equal rows are matched as often as the rarer side allows
LEMMA MatchesMaximal ==
  ASSUME NEW prior \in Seq(LedgerRow), NEW current \in Seq(LedgerRow), NEW row
  PROVE  Cardinality({p \in Changes(prior, current) :
                        /\ p.before \in Equal(prior, row) /\ p.after \in Equal(current, row)})
           = Min({Cardinality(Equal(prior, row)), Cardinality(Equal(current, row))})
<1> DEFINE P == Changes(prior, current)
           E == Equal(prior, row)
           F == Equal(current, row)
           M == {p \in P : p.before \in E /\ p.after \in F}
           X == ExactPairs(prior, current, row.key)
           least == IF Cardinality(E) <= Cardinality(F) THEN Cardinality(E) ELSE Cardinality(F)
           T == 0..(least - 1)
           f == [p \in M |-> Rank(prior, p.before)]
<1>1. M = {p \in X : p.before \in E /\ p.after \in F}
  <2>1. {p \in P : /\ p.before \in Group(prior, row.key) /\ p.after \in Group(current, row.key)
                  /\ Matches(prior[p.before], current[p.after])} = X
    BY AllPaired
  <2>2. \A i \in E : \A j \in F : /\ i \in Group(prior, row.key) /\ j \in Group(current, row.key)
                               /\ Matches(prior[i], current[j])
    BY DEF Equal, Group, Matches
  <2> HIDE DEF P, E, F, X
  <2> QED
    BY <2>1, <2>2
<1>2. /\ \A i \in E : Rank(prior, i) \in 0..(Cardinality(E) - 1)
      /\ \A i, k \in E : Rank(prior, i) = Rank(prior, k) => i = k
      /\ \A r \in 0..(Cardinality(E) - 1) : \E i \in E : Rank(prior, i) = r
      /\ \A j \in F : Rank(current, j) \in 0..(Cardinality(F) - 1)
      /\ \A r \in 0..(Cardinality(F) - 1) : \E j \in F : Rank(current, j) = r
  BY EqualRows
<1>3. Cardinality(E) \in Nat /\ Cardinality(F) \in Nat
  BY EqualRows, FS_CardinalityType
<1>4. /\ \A p, q \in X : p.before = q.before => p = q
      /\ \A p \in X : Rank(prior, p.before) = Rank(current, p.after)
  BY ExactMatching DEF ExactPairs
<1>5. ASSUME NEW i \in E, NEW j \in F, Rank(prior, i) = Rank(current, j)
      PROVE  [before |-> i, after |-> j] \in X
  BY <1>5 DEF ExactPairs, Equal, Group, Matches
<1> HIDE DEF E, F, X, M
<1>6. \A p \in M : f[p] \in T
  BY <1>1, <1>2, <1>3, <1>4
<1>7. f \in Injection(M, T)
  <2>1. \A p, q \in M : f[p] = f[q] => p = q
    BY <1>1, <1>2, <1>4
  <2> QED
    BY <1>6, <2>1 DEF Injection, IsInjective
<1>8. f \in Surjection(M, T)
  <2>1. ASSUME NEW r \in T PROVE \E p \in M : f[p] = r
    <3>1. r \in 0..(Cardinality(E) - 1) /\ r \in 0..(Cardinality(F) - 1)
      BY <1>3
    <3>2. PICK i \in E : Rank(prior, i) = r
      BY <3>1, <1>2
    <3>3. PICK j \in F : Rank(current, j) = r
      BY <3>1, <1>2
    <3>4. [before |-> i, after |-> j] \in M
      BY <3>2, <3>3, <1>1, <1>5
    <3> QED
      BY <3>2, <3>4
  <2> QED
    BY <1>6, <2>1 DEF Surjection
<1>9. IsFiniteSet(T) /\ Cardinality(T) = least
  <2>1. least \in Nat
    BY <1>3
  <2> HIDE DEF least
  <2>2. 0 \in Int /\ least - 1 \in Int
    BY <2>1
  <2>3. Cardinality(T) = IF 0 > least - 1 THEN 0 ELSE (least - 1) - 0 + 1
    BY <2>2, FS_Interval
  <2> QED
    BY <2>1, <2>2, <2>3, FS_Interval
<1>10. Cardinality(M) = least
  BY <1>7, <1>8, <1>9, FS_Injection
<1>11. Min({Cardinality(E), Cardinality(F)}) = least
  BY <1>3, MinOfTwo
<1> QED
  BY <1>10, <1>11 DEF M, E, F

\* A set of pairs is finite when no row is in two of them
LEMMA PairsFinite ==
  ASSUME NEW m \in Nat, NEW n \in Nat, NEW P, P \subseteq [before : 0..m, after : 0..n],
         \A p \in P : p.before # 0 \/ p.after # 0, Disjoint(P)
  PROVE  IsFiniteSet(P)
<1> DEFINE number(p) == IF p.before # 0 THEN p.before ELSE m + p.after
           f == [p \in P |-> number(p)]
<1>1. \A p \in P : p.before \in 0..m /\ p.after \in 0..n
  OBVIOUS
<1>2. ASSUME NEW p \in P PROVE number(p) \in 0..(m + n)
  BY <1>1
<1>3. ASSUME NEW p \in P, NEW q \in P, number(p) = number(q) PROVE p = q
  <2>1. \/ p.before = q.before /\ p.before # 0
        \/ p.after = q.after /\ p.after # 0
    BY <1>1, <1>3
  <2> QED
    BY <2>1 DEF Disjoint
<1> HIDE DEF number
<1>4. f \in Injection(P, 0..(m + n))
  BY <1>2, <1>3 DEF Injection, IsInjective
<1>5. IsFiniteSet(0..(m + n))
  BY FS_Interval
<1> QED
  BY <1>4, <1>5, FS_Injection

LEMMA SideAmount ==
  ASSUME NEW rows \in Seq(LedgerRow), NEW i \in 0..Len(rows)
  PROVE  /\ Amount(rows, i) \in Int
         /\ i # 0 => Amount(rows, i) = rows[i].amount
         /\ i = 0 => Amount(rows, i) = 0
<1>1. CASE i = 0
  BY <1>1 DEF Amount
<1>2. CASE i # 0
  <2>1. rows[i] \in LedgerRow
    BY <1>2, LenProperties, ElementOfSeq
  <2> QED
    BY <1>2, <2>1 DEF Amount, LedgerRow
<1> QED
  BY <1>1, <1>2

\* The business amount of a change row is the difference of its two sides: where no
\* business column has changed there is none
LEMMA DeltaOfPair ==
  ASSUME NEW prior \in Seq(LedgerRow), NEW current \in Seq(LedgerRow),
         NEW p \in [before : 0..Len(prior), after : 0..Len(current)]
  PROVE  /\ BusinessDelta(prior, current, p) = Amount(current, p.after) - Amount(prior, p.before)
         /\ BusinessDelta(prior, current, p) \in Int
<1>1. p.before \in 0..Len(prior) /\ p.after \in 0..Len(current)
  OBVIOUS
<1>2. Amount(current, p.after) \in Int /\ Amount(prior, p.before) \in Int
  BY <1>1, SideAmount
<1>3. CASE BusinessChanged(prior, current, p)
  BY <1>2, <1>3 DEF BusinessDelta, Delta
<1>4. CASE ~ BusinessChanged(prior, current, p)
  <2>1. p.before # 0 /\ p.after # 0 /\ prior[p.before].amount = current[p.after].amount
    BY <1>4 DEF BusinessChanged, Matches
  <2>2. Amount(current, p.after) = Amount(prior, p.before)
    BY <2>1, <1>1, SideAmount
  <2> QED
    BY <1>2, <1>4, <2>2 DEF BusinessDelta
<1> QED
  BY <1>3, <1>4

LEMMA SumOfDeltas ==
  ASSUME NEW prior \in Seq(LedgerRow), NEW current \in Seq(LedgerRow)
  PROVE  SumFunction([p \in Changes(prior, current) |-> BusinessDelta(prior, current, p)])
           = Total(current) - Total(prior)
<1> DEFINE P == Changes(prior, current)
           D == DOMAIN prior
           C == DOMAIN current
           delta == [p \in P |-> BusinessDelta(prior, current, p)]
           left == [p \in P |-> p.before]
           right == [p \in P |-> p.after]
           u == [p \in P |-> Amount(prior, p.before)]
           v == [p \in P |-> Amount(current, p.after)]
           f == [i \in D |-> prior[i].amount]
           g == [i \in C |-> current[i].amount]
<1>1. /\ P \subseteq [before : 0..Len(prior), after : 0..Len(current)]
      /\ \A p \in P : p.before # 0 \/ p.after # 0
      /\ Disjoint(P) /\ D \subseteq Befores(P) /\ C \subseteq Afters(P)
  BY AllPaired
<1>2. /\ D = 1..Len(prior) /\ C = 1..Len(current) /\ Len(prior) \in Nat /\ Len(current) \in Nat
  BY LenProperties
<1>3. IsFiniteSet(P)
  BY <1>1, <1>2, PairsFinite
<1>4. IsFiniteSet(D) /\ IsFiniteSet(C) /\ 0 \notin D /\ 0 \notin C
  BY <1>2, FS_Interval
<1>5. ASSUME NEW p \in P
      PROVE  /\ p.before \in 0..Len(prior) /\ p.before \in D \union {0}
             /\ p.after \in 0..Len(current) /\ p.after \in C \union {0}
             /\ p \in [before : 0..Len(prior), after : 0..Len(current)]
  BY <1>1, <1>2
<1> HIDE DEF P
<1>6. left \in [P -> D \union {0}] /\ right \in [P -> C \union {0}]
  BY <1>5
<1>7. u \in [P -> Int] /\ v \in [P -> Int]
  BY <1>5, SideAmount
<1>8. f \in [D -> Int] /\ g \in [C -> Int]
  <2>1. \A i \in D : prior[i] \in LedgerRow
    BY LenProperties, ElementOfSeq
  <2>2. \A i \in C : current[i] \in LedgerRow
    BY LenProperties, ElementOfSeq
  <2> QED
    BY <2>1, <2>2 DEF LedgerRow
<1>9. delta \in [P -> Int] /\ \A p \in P : delta[p] = v[p] - u[p]
  BY <1>5, DeltaOfPair
<1>10. SumFunction(delta) = SumFunction(v) - SumFunction(u)
  <2> HIDE DEF delta, u, v
  <2>1. IsDifference(delta, v, u, P)
    BY <1>7, <1>9 DEF IsDifference
  <2> QED
    BY <1>3, <2>1, SumOfDifferences
<1>11. SumFunction(u) = SumFunction(f)
  <2>1. \A p, q \in P : left[p] = left[q] /\ left[p] # 0 => p = q
    BY <1>1 DEF Disjoint
  <2>2. \A x \in D : \E p \in P : left[p] = x
    BY <1>1 DEF Befores
  <2>3. \A p \in P : u[p] = IF left[p] = 0 THEN 0 ELSE f[left[p]]
    BY <1>5 DEF Amount
  <2> HIDE DEF u, left, f, D
  <2>4. AreNamed(u, P, left, f, D)
    BY <1>4, <1>6, <1>7, <1>8, <2>1, <2>2, <2>3 DEF AreNamed
  <2> QED
    BY <1>3, <1>4, <2>4, SumOfNamed
<1>12. SumFunction(v) = SumFunction(g)
  <2>1. \A p, q \in P : right[p] = right[q] /\ right[p] # 0 => p = q
    BY <1>1 DEF Disjoint
  <2>2. \A x \in C : \E p \in P : right[p] = x
    BY <1>1 DEF Afters
  <2>3. \A p \in P : v[p] = IF right[p] = 0 THEN 0 ELSE g[right[p]]
    BY <1>5 DEF Amount
  <2> HIDE DEF v, right, g, C
  <2>4. AreNamed(v, P, right, g, C)
    BY <1>4, <1>6, <1>7, <1>8, <2>1, <2>2, <2>3 DEF AreNamed
  <2> QED
    BY <1>3, <1>4, <2>4, SumOfNamed
<1>13. Total(current) = SumFunction(g) /\ Total(prior) = SumFunction(f)
  BY DEF Total
<1> HIDE DEF u, v, f, g
<1>14. SumFunction(delta) = Total(current) - Total(prior)
  BY <1>10, <1>11, <1>12, <1>13
<1> QED
  BY <1>14 DEF delta, P

-----------------------------------------------------------------------------

\* Whatever two snapshots hold, their comparison accounts for both exactly: every row is
\* in one change row, no two rows of one identity are left apart, equal rows are matched
\* as often as possible, and the business amounts add up to the difference of the totals
\* (compareQboGeneralLedgerRunSnapshots_).
THEOREM ComparisonExact ==
  \A prior, current \in Seq(LedgerRow) : Exact(prior, current)
<1> TAKE prior \in Seq(LedgerRow), current \in Seq(LedgerRow)
<1> DEFINE P == Changes(prior, current)
<1>1. OnceBefore(P, prior) /\ OnceAfter(P, current)
  BY CoveredOnce
<1>2. \A p, q \in P : p.before = 0 /\ q.after = 0 =>
        current[p.after].key # prior[q.before].key
  BY AllPaired
<1>3. \A row \in Range(prior) :
        Cardinality({p \in P : /\ p.before \in Equal(prior, row)
                               /\ p.after \in Equal(current, row)})
          = Min({Cardinality(Equal(prior, row)), Cardinality(Equal(current, row))})
  BY MatchesMaximal
<1>4. SumFunction([p \in P |-> BusinessDelta(prior, current, p)])
        = Total(current) - Total(prior)
  BY SumOfDeltas
<1> QED
  BY <1>1, <1>2, <1>3, <1>4 DEF Exact
=============================================================================
