--------------------------- MODULE MCStateRebuild ---------------------------
(* Instances of StateRebuild for TLC. *)
EXTENDS StateRebuild, Sequences

Failures == HazardKinds \ {"slow"}

(* Of one export: an entity that changes and changes back, and one that     *)
(* disappears for a while.                                                  *)
Returning ==
  {[s \in {1} \X (1..3) \X {1, 2} |-> <<<<1, 2, 1>>, <<1, 0, 1>>>>[s[3]][s[2]]]}
TwoFirst == {<<2>>}
=============================================================================
