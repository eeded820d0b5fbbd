---------------------------- MODULE MCClaimWriter ----------------------------
(* Instances of ClaimWriter for TLC.                                       *)
EXTENDS ClaimWriter, FiniteSets, TLC

CONSTANTS p1, p2

MCLoops == {p1, p2}
MCQuantities == {2, -3}
MCAges == {0, 1}

(* A fill's record, the drop of a full exit, the decision-time trail save, *)
(* an adoption.                                                            *)
MCKinds ==
  { [kind |-> "adopt", qty |-> 2, age |-> 0],
    [kind |-> "record", qty |-> -3, age |-> 0],
    [kind |-> "drop", qty |-> 0, age |-> 0],
    [kind |-> "trail", qty |-> 2, age |-> 1] }

(* Adoption reads before it writes; the drop it must not undo.             *)
MCAdoption ==
  { [kind |-> "adopt", qty |-> 2, age |-> 0],
    [kind |-> "drop", qty |-> 0, age |-> 0] }

LoopSymmetry == Permutations(MCLoops)

=============================================================================
