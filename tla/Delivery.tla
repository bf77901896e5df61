------------------------------ MODULE Delivery ------------------------------
(***************************************************************************)
(* What the forward ingestion promises about a source, whichever worker    *)
(* does it: its batches are passed one after the other, each only when its *)
(* payloads are kept, and none is passed twice or taken back.              *)
(***************************************************************************)
EXTENDS Integers

CONSTANT Sources

VARIABLES
  done,  \* per source: how many of its batches are passed
  kept   \* the batches whose payloads are kept, pairs of a source and a batch

Init == done = [s \in Sources |-> 0] /\ kept = {}

(* The payloads of the next batch or, once more, of one already passed. *)
Keep(s, b) == kept' = kept \union {<<s, b>>} /\ UNCHANGED done

Pass(s) ==
  /\ <<s, done[s]>> \in kept
  /\ done' = [done EXCEPT ![s] = done[s] + 1]
  /\ UNCHANGED kept

Next == \E s \in Sources : Pass(s) \/ \E b \in 0..done[s] : Keep(s, b)

Spec == Init /\ [][Next]_<<done, kept>>
=============================================================================
