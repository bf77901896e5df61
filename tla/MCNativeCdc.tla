---------------------------- MODULE MCNativeCdc -----------------------------
(* Instances of NativeCdc for TLC. *)
EXTENDS NativeCdc, TLC

AllHazards == HazardKinds
InTime == {"killed", "qbo", "register"}
CrashOnly == {"crash"}
Interchangeable == Permutations(Execs)
=============================================================================
