-------------------------- MODULE AcquisitionProofs --------------------------
(***************************************************************************)
(* What follows from Acquisition alone, for every set of entities and      *)
(* whatever order its steps come in: nothing is missed up to the           *)
(* watermark, which never moves back, and what was handed over is whole.   *)
(***************************************************************************)
EXTENDS Acquisition, TLAPS

-----------------------------------------------------------------------------
(* The inductive invariant *)

Numbers ==
  /\ watermark \in Nat /\ cycle \in Nat /\ window \in [from : Nat, to : Nat]
  /\ open \in BOOLEAN
  /\ pending \subseteq 1..cycle /\ registered \subseteq 1..cycle

\* An open window is that of a cycle, and it meets the watermark
Meets == open => cycle # 0 /\ window.from <= watermark /\ watermark <= window.to

\* Evidence is about cycles that were opened; that of the last one holds its window
Holds ==
  \A f \in evidence :
    /\ f.cycle \in 1..cycle /\ f.from \in Nat /\ f.to \in Nat
    /\ f.cycle = cycle => f.from = window.from /\ window.to <= f.to

\* What may be handed over has the evidence of every entity
PendingWhole == \A c \in pending : Gathered(c)

Contiguous == Numbers /\ Meets /\ Holds /\ NothingMissed /\ PendingWhole /\ HandedWhole

\* Evidence is only added, so that what was gathered remains
LEMMA GatheredStays ==
  ASSUME [Next]_vars, NEW c, Gathered(c)
  PROVE  Gathered(c)'
<1>1. evidence \subseteq evidence'
  BY DEF Next, Open, Gather, Commit, Abandon, HandOver, Forget, vars
<1> QED
  BY <1>1 DEF Gathered

\* A step of the watermark is to the end of an open window all of whose evidence is there
LEMMA WatermarkMoves ==
  ASSUME Contiguous, [Next]_vars, watermark' # watermark
  PROVE  Commit
BY DEF Next, Open, Gather, Abandon, HandOver, Forget, vars

LEMMA NumbersStep ==
  ASSUME Contiguous, [Next]_vars
  PROVE  Numbers' /\ cycle <= cycle'
<1> USE DEF Contiguous, Numbers
<1>1. CASE Open
  BY <1>1 DEF Open
<1>2. CASE Commit
  <2>1. /\ cycle' = cycle /\ window' = window /\ registered' = registered
        /\ watermark' = window.to /\ open' \in BOOLEAN
        /\ pending' \subseteq pending \union {cycle}
    BY <1>2 DEF Commit
  <2>2. cycle \in 1..cycle /\ window.to \in Nat
    BY <1>2 DEF Commit, Meets
  <2> QED
    BY <2>1, <2>2
<1>3. CASE HandOver
  BY <1>3 DEF HandOver
<1>4. CASE Gather \/ Abandon \/ Forget \/ UNCHANGED vars
  <2>1. /\ cycle' = cycle /\ window' = window /\ registered' = registered
        /\ watermark' = watermark /\ pending' \subseteq pending
    BY <1>4 DEF Gather, Abandon, Forget, vars
  <2>2. open' \in BOOLEAN
    BY <1>4 DEF Gather, Abandon, Forget, vars
  <2> QED
    BY <2>1, <2>2
<1> QED
  BY <1>1, <1>2, <1>3, <1>4 DEF Next

LEMMA MeetsStep ==
  ASSUME Contiguous, [Next]_vars
  PROVE  Meets'
<1> USE DEF Contiguous, Numbers, Meets
<1>1. CASE Open
  BY <1>1 DEF Open
<1>2. CASE Commit
  BY <1>2 DEF Commit
<1>3. CASE Gather \/ Abandon \/ HandOver \/ Forget \/ UNCHANGED vars
  BY <1>3 DEF Gather, Abandon, HandOver, Forget, vars
<1> QED
  BY <1>1, <1>2, <1>3 DEF Next

LEMMA HoldsStep ==
  ASSUME Contiguous, [Next]_vars
  PROVE  Holds'
<1> USE DEF Contiguous, Numbers, Holds
<1>1. CASE Open
  BY <1>1 DEF Open
<1>2. CASE Gather
  BY <1>2 DEF Gather
<1>3. CASE Commit \/ Abandon \/ HandOver \/ Forget \/ UNCHANGED vars
  BY <1>3 DEF Commit, Abandon, HandOver, Forget, vars
<1> QED
  BY <1>1, <1>2, <1>3 DEF Next

\* The committed window begins at or before the old watermark, and its evidence holds it all
LEMMA NothingMissedStep ==
  ASSUME Contiguous, [Next]_vars
  PROVE  NothingMissed'
<1>1. evidence \subseteq evidence' /\ watermark \in Nat
  BY DEF Next, Open, Gather, Commit, Abandon, HandOver, Forget, vars, Contiguous, Numbers
<1>2. ASSUME NEW i \in Entities, NEW t \in 1..watermark
      PROVE  \E f \in evidence' : f.entity = i /\ f.from < t /\ t <= f.to
  BY <1>1, <1>2 DEF Contiguous, NothingMissed
<1>3. CASE watermark' = watermark
  BY <1>2, <1>3 DEF NothingMissed
<1>4. CASE watermark' # watermark
  <2>1. Commit
    BY <1>4, WatermarkMoves
  <2>2. /\ open /\ Gathered(cycle) /\ watermark' = window.to /\ evidence' = evidence
        /\ window.from <= watermark /\ window.from \in Nat /\ window.to \in Nat
    BY <2>1 DEF Commit, Contiguous, Meets, Numbers
  <2>3. ASSUME NEW i \in Entities, NEW t \in 1..watermark', ~ t <= watermark
        PROVE  \E f \in evidence' : f.entity = i /\ f.from < t /\ t <= f.to
    <3>1. PICK f \in evidence : f.cycle = cycle /\ f.entity = i
      BY <2>2 DEF Gathered
    <3>2. f.from = window.from /\ window.to <= f.to /\ f.to \in Nat
      BY <3>1 DEF Contiguous, Holds
    <3>3. f.from < t /\ t <= f.to
      BY <1>1, <2>2, <2>3, <3>2
    <3> QED
      BY <2>2, <3>1, <3>3
  <2>4. ASSUME NEW i \in Entities, NEW t \in 1..watermark'
        PROVE  \E f \in evidence' : f.entity = i /\ f.from < t /\ t <= f.to
    <3>1. CASE t <= watermark
      <4>1. t \in 1..watermark
        BY <1>1, <2>2, <3>1
      <4> QED
        BY <1>2, <4>1
    <3> QED
      BY <2>3, <3>1
  <2> QED
    BY <2>4 DEF NothingMissed
<1> QED
  BY <1>3, <1>4

LEMMA PendingWholeStep ==
  ASSUME Contiguous, [Next]_vars
  PROVE  PendingWhole'
<1> SUFFICES ASSUME NEW c \in pending' PROVE Gathered(c)'
  BY DEF PendingWhole
<1>1. c \in pending \/ (Commit /\ c = cycle)
  BY DEF Next, Open, Gather, Commit, Abandon, HandOver, Forget, vars
<1>2. Gathered(c)
  BY <1>1 DEF Commit, Contiguous, PendingWhole
<1> QED
  BY <1>2, GatheredStays

LEMMA HandedWholeStep ==
  ASSUME Contiguous, [Next]_vars
  PROVE  HandedWhole'
<1> SUFFICES ASSUME NEW c \in registered' PROVE c \in 1..cycle' /\ Gathered(c)'
  BY DEF HandedWhole
<1>1. cycle \in Nat /\ cycle' \in Nat /\ cycle <= cycle' /\ pending \subseteq 1..cycle
  BY NumbersStep DEF Contiguous, Numbers
<1>2. c \in registered \/ c \in pending
  BY DEF Next, Open, Gather, Commit, Abandon, HandOver, Forget, vars
<1>3. c \in 1..cycle /\ Gathered(c)
  BY <1>1, <1>2 DEF Contiguous, PendingWhole, HandedWhole
<1> QED
  BY <1>1, <1>3, GatheredStays

\* The promise is inductive
THEOREM ContiguousInvariant == Spec => []Contiguous
<1>1. ASSUME Init PROVE Contiguous
  <2>1. /\ watermark = 0 /\ cycle = 0 /\ window = [from |-> 0, to |-> 0] /\ ~open
        /\ evidence = {} /\ pending = {} /\ registered = {}
    BY <1>1 DEF Init
  <2>2. open \in BOOLEAN
    BY <1>1 DEF Init
  <2> QED
    BY <2>1, <2>2 DEF Contiguous, Numbers, Meets, Holds, NothingMissed, PendingWhole, HandedWhole
<1>2. Contiguous /\ [Next]_vars => Contiguous'
  BY NumbersStep, MeetsStep, HoldsStep, NothingMissedStep, PendingWholeStep, HandedWholeStep
     DEF Contiguous
<1> QED
  BY <1>1, <1>2, PTL DEF Spec

\* However its steps come, an acquisition that keeps its promise never misses a change up
\* to its watermark, and what it has handed over is whole.
THEOREM Promise == Spec => [](NothingMissed /\ HandedWhole)
<1>1. Contiguous => NothingMissed /\ HandedWhole
  BY DEF Contiguous
<1> QED
  BY <1>1, ContiguousInvariant, PTL

\* The watermark of such an acquisition never moves back.
THEOREM OnlyForward == Spec => [][watermark' > watermark]_watermark
<1>1. Contiguous /\ [Next]_vars => [watermark' > watermark]_watermark
  <2> SUFFICES ASSUME Contiguous, [Next]_vars, watermark' # watermark PROVE watermark' > watermark
    OBVIOUS
  <2>1. open /\ watermark' = window.to
    BY WatermarkMoves DEF Commit
  <2> QED
    BY <2>1 DEF Contiguous, Meets, Numbers
<1> QED
  BY <1>1, ContiguousInvariant, PTL DEF Spec
=============================================================================
