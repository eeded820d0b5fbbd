------------------------------ MODULE MCRecords ------------------------------
(***************************************************************************)
(* Instances of the components of Records small enough for TLC.            *)
(***************************************************************************)
EXTENDS Records

CONSTANTS A, B, C, r1, r2, d, o1, o2

ThreeSymbols == {A, B, C}
OneRefresher == {r1}
OneRemover == {d}

(* Entries wait for refused exits: one refusal covers the other.           *)
OneOrBoth == {{A}, {A, B}}

TwoSymbols == {A, B}

TwoOperators == {o1, o2}

(* The give-back that is deployed, with rules that count decisions and     *)
(* measure from the peak, and a floor under the peak; two runs of a slot.  *)
TwoRuns == {r1, r2}
ThreePrices == {8, 10, 14}
SeveralRules ==
  [stopLoss |-> 0, takeProfit |-> 0, fadeOff |-> 2, fadeConfirm |-> 1, lowerHighs |-> 0,
   maxHold |-> 0, stall |-> 2, offPeak |-> 0, giveBack |-> 5, confirm |-> 0, minPeak |-> 1]

(* A view of two names, of which one moves.                                *)
OneMoves == [n \in {A, B} |-> IF n = A THEN {0, 1} ELSE {0}]

=============================================================================
