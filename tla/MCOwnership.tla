---------------------------- MODULE MCOwnership ----------------------------
(***************************************************************************)
(* Instances of Ownership small enough for TLC.                            *)
(***************************************************************************)
EXTENDS Ownership, TLC

CONSTANTS MOM, BCT

OneLane == {MOM}
TwoLanes == {MOM, BCT}

Interchangeable == Permutations(TwoLanes)

=============================================================================
