----------------------------- MODULE MCRecovery -----------------------------
(***************************************************************************)
(* Instances of the components of Recovery small enough for TLC.           *)
(***************************************************************************)
EXTENDS Recovery

CONSTANTS MOM, BCT

TwoLanes == {MOM, BCT}

(* 96 is within 5 percent of 100 and 92 is not, but is within 5 of 96.     *)
FourLevels == {0, 92, 96, 100}

=============================================================================
