-------------------------- MODULE MCWorkbookWrite ---------------------------
(* Instances of WorkbookWrite for TLC. *)
EXTENDS WorkbookWrite, TLC

AllHazards == HazardKinds
Interchangeable == Permutations(Execs)
=============================================================================
