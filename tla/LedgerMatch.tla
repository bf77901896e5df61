---------------------------- MODULE LedgerMatch ----------------------------
(***************************************************************************)
(* The comparison of two extracts of one General Ledger period, the pure   *)
(* part of compareQboGeneralLedgerRunSnapshots_ in module                  *)
(* 52_QBO_GeneralLedgerReport.js.  A row is a record:                      *)
(*   key      the columns of its RowIdentity, which are not unique         *)
(*   amount   the business columns outside the identity: the amount ...    *)
(*   memo     ... and one that is not a number                             *)
(*   balance  the columns QBO derives (Balance, ValuesJSON, RawRowJSON)    *)
(* A pair names rows by their number in each snapshot; 0 stands for none.  *)
(***************************************************************************)
EXTENDS Integers, Sequences, FiniteSetsExt

\* A row of a snapshot; texts and hashes are numbers that are equal or not
LedgerRow == [key : Nat, amount : Int, memo : Nat, balance : Int]

\* Equal business fingerprints of rows of one identity
Matches(a, b) == a.amount = b.amount /\ a.memo = b.memo

Keys(rows) == {rows[i].key : i \in DOMAIN rows}

\* The rows of one identity, in sheet order
Group(rows, key) == {i \in DOMAIN rows : rows[i].key = key}

\* How many rows before row i of its group have its fingerprint
Rank(rows, i) ==
  Cardinality({j \in Group(rows, rows[i].key) : j < i /\ Matches(rows[j], rows[i])})

\* Mutant: a row already used is matched again
MutExactPairs(prior, current, key) ==
  {p \in [before : Group(prior, key), after : Group(current, key)] :
     Matches(prior[p.before], current[p.after])}

\* Pass 1: the k-th row with a fingerprint meets the k-th one with it
ExactPairs(prior, current, key) ==
  {p \in [before : Group(prior, key), after : Group(current, key)] :
     /\ Matches(prior[p.before], current[p.after])
     /\ Rank(prior, p.before) = Rank(current, p.after)}

\* qboGeneralLedgerBusinessDifferenceScore_: changed fields first, then amounts
Changed(a, b) ==
  (IF a.amount = b.amount THEN 0 ELSE 1) + (IF a.memo = b.memo THEN 0 ELSE 1)
Distance(a, b) == IF a.amount < b.amount THEN b.amount - a.amount ELSE a.amount - b.amount

\* Lexicographic order of two sequences of the same length
Before(s, t) == \E i \in DOMAIN s : s[i] < t[i] /\ \A j \in 1..(i - 1) : s[j] = t[j]

Order(prior, current, p) ==
  <<Changed(prior[p.before], current[p.after]), Distance(prior[p.before], current[p.after]),
    p.before, p.after>>

Befores(pairs) == {p.before : p \in pairs}
Afters(pairs) == {p.after : p \in pairs}

\* The candidate of least difference, by row numbers among equals
Best(prior, current, candidates) ==
  CHOOSE p \in candidates :
    \A q \in candidates :
      p = q \/ Before(Order(prior, current, p), Order(prior, current, q))

\* A round of pass 2: the best candidate among the rows not used yet, if there is one
Round(prior, current, left, right, used) ==
  LET candidates == [before : left \ Befores(used), after : right \ Afters(used)]
  IN IF candidates = {} THEN used ELSE used \union {Best(prior, current, candidates)}

\* Pass 2 goes on until one side is used up
ResidualPairs(prior, current, left, right) ==
  LET Taken[n \in 0..Cardinality(left)] ==
        IF n = 0 THEN {} ELSE Round(prior, current, left, right, Taken[n - 1])
  IN Taken[Cardinality(left)]

\* qboGeneralLedgerPairIdentityGroup_: both passes, then what is left alone
PairGroup(prior, current, key) ==
  LET exact == ExactPairs(prior, current, key)
      pairs == exact \union
               ResidualPairs(prior, current, Group(prior, key) \ Befores(exact),
                                             Group(current, key) \ Afters(exact))
  IN pairs \union [before : Group(prior, key) \ Befores(pairs), after : {0}]
           \union [before : {0}, after : Group(current, key) \ Afters(pairs)]

\* The change rows of a comparison
Changes(prior, current) ==
  UNION {PairGroup(prior, current, key) : key \in Keys(prior) \union Keys(current)}

\* qboGeneralLedgerClassifyChange_: BusinessStateChanged
BusinessChanged(prior, current, p) ==
  p.before = 0 \/ p.after = 0 \/ ~Matches(prior[p.before], current[p.after])

\* The AmountDelta and BusinessAmountDelta of a change row
Amount(rows, i) == IF i = 0 THEN 0 ELSE rows[i].amount
Delta(prior, current, p) == Amount(current, p.after) - Amount(prior, p.before)
BusinessDelta(prior, current, p) ==
  IF BusinessChanged(prior, current, p) THEN Delta(prior, current, p) ELSE 0

-----------------------------------------------------------------------------
(* What a comparison promises *)

OnceBefore(pairs, rows) ==
  \A i \in DOMAIN rows : Cardinality({p \in pairs : p.before = i}) = 1
OnceAfter(pairs, rows) ==
  \A i \in DOMAIN rows : Cardinality({p \in pairs : p.after = i}) = 1

\* The rows of one identity and one business fingerprint
Equal(rows, row) == {i \in DOMAIN rows : rows[i].key = row.key /\ Matches(rows[i], row)}

Total(rows) == SumFunction([i \in DOMAIN rows |-> rows[i].amount])

\* A comparison accounts for both snapshots exactly: every row in one change row, no two
\* rows of one identity left apart, as many matches of equal business content as there can
\* be, and a business amount that is the difference of the totals.
Exact(prior, current) ==
  LET pairs == Changes(prior, current) IN
  /\ OnceBefore(pairs, prior) /\ OnceAfter(pairs, current)
  /\ \A p, q \in pairs : p.before = 0 /\ q.after = 0 =>
       current[p.after].key # prior[q.before].key
  /\ \A row \in Range(prior) :
       Cardinality({p \in pairs : /\ p.before \in Equal(prior, row)
                                  /\ p.after \in Equal(current, row)})
         = Min({Cardinality(Equal(prior, row)), Cardinality(Equal(current, row))})
  /\ SumFunction([p \in pairs |-> BusinessDelta(prior, current, p)])
       = Total(current) - Total(prior)
=============================================================================
