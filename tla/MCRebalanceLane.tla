--------------------------- MODULE MCRebalanceLane ---------------------------
(***************************************************************************)
(* Instances of RebalanceLane small enough for TLC.                        *)
(***************************************************************************)
EXTENDS RebalanceLane, TLC

CONSTANTS A, B

TwoSymbols == {A, B}

(* A month of two sessions and one of a single session.                    *)
TwoMonths == [d \in 0..3 |-> IF d = 0 THEN 0 ELSE IF d < 3 THEN 1 ELSE 2]

(* A steady lane, and one trouble at a time.                               *)
Surroundings == {{}, {"parts"}, {"races"}, {"restarts"}, {"edits"}, {"overlaps"}}

=============================================================================
