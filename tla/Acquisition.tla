----------------------------- MODULE Acquisition -----------------------------
(***************************************************************************)
(* What the acquisition of Native CDC evidence promises, whichever         *)
(* execution does it and however many are ended: cycles are opened one     *)
(* after the other, each with a window that meets the watermark; the       *)
(* watermark moves to the end of a window only when every entity has       *)
(* evidence over all of it; and only a committed cycle is ever handed over *)
(* to the ingestion.  NativeCdc implements this specification.             *)
(***************************************************************************)
EXTENDS Integers

CONSTANT Entities

VARIABLES
  watermark,  \* the time up to which every change is held
  cycle,      \* the cycle opened last, 0 for none
  window,     \* its first time and its last
  open,       \* whether it may still commit
  evidence,   \* whole evidence: the cycle, the entity and the times it holds
  pending,    \* committed cycles that may still be handed over
  registered  \* cycles handed over

vars == <<watermark, cycle, window, open, evidence, pending, registered>>

\* The evidence of a cycle is there for every entity
Gathered(c) == \A i \in Entities : \E f \in evidence : f.cycle = c /\ f.entity = i

-----------------------------------------------------------------------------
Init ==
  /\ watermark = 0 /\ cycle = 0 /\ window = [from |-> 0, to |-> 0] /\ open = FALSE
  /\ evidence = {} /\ pending = {} /\ registered = {}

\* The next window leaves no gap behind the watermark
Open ==
  /\ ~open /\ open' = TRUE
  /\ cycle' = cycle + 1
  /\ window' \in [from : Nat, to : Nat]
  /\ window'.from <= watermark /\ watermark <= window'.to
  /\ pending' \subseteq pending
  /\ UNCHANGED <<watermark, evidence, registered>>

\* Evidence of the last cycle holds its window; a late worker may add to an earlier cycle
Gather ==
  /\ evidence \subseteq evidence'
  /\ \A f \in evidence' \ evidence :
       /\ f.cycle \in 1..cycle /\ f.entity \in Entities /\ f.from \in Nat /\ f.to \in Nat
       /\ f.cycle = cycle => f.from = window.from /\ window.to <= f.to
  /\ pending' \subseteq pending
  /\ UNCHANGED <<watermark, cycle, window, open, registered>>

\* The watermark moves, and the cycle is committed unless the worker ends in between
Commit ==
  /\ open /\ Gathered(cycle)
  /\ watermark' = window.to
  /\ \/ open' = FALSE /\ pending' = pending \union {cycle}
     \/ open' = TRUE /\ pending' \subseteq pending
  /\ UNCHANGED <<cycle, window, evidence, registered>>

Abandon ==
  /\ open /\ open' = FALSE
  /\ pending' \subseteq pending
  /\ UNCHANGED <<watermark, cycle, window, evidence, registered>>

HandOver ==
  /\ \E c \in pending : registered' = registered \union {c}
  /\ UNCHANGED <<watermark, cycle, window, open, evidence, pending>>

\* Nobody is left who would hand a committed cycle over
Forget ==
  /\ pending' \subseteq pending
  /\ UNCHANGED <<watermark, cycle, window, open, evidence, registered>>

Next == Open \/ Gather \/ Commit \/ Abandon \/ HandOver \/ Forget

Spec == Init /\ [][Next]_vars

-----------------------------------------------------------------------------
(* What follows from the promise *)

\* Up to the watermark no change of an entity is missed
NothingMissed ==
  \A i \in Entities, t \in 1..watermark :
    \E f \in evidence : f.entity = i /\ f.from < t /\ t <= f.to

\* What was handed over had been committed, with the evidence of every entity
HandedWhole == \A c \in registered : c \in 1..cycle /\ Gathered(c)
=============================================================================
