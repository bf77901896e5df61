------------------------- MODULE MCForwardIngestion -------------------------
(* Instances of ForwardIngestion for TLC. *)
EXTENDS ForwardIngestion, TLC

AllHazards == HazardKinds
Interchangeable == Permutations(Execs)
=============================================================================
