------------------------------ MODULE MCTrail ------------------------------
(***************************************************************************)
(* Instances of Trail small enough for TLC.                                *)
(***************************************************************************)
EXTENDS Trail

CONSTANTS R1, R2

TwoRuns == {R1, R2}
OneRun == {R1}

FourPrices == {8, 10, 12, 14}
ThreePrices == {8, 10, 14}

Off == [r \in RuleNames |-> 0]

(* The give-back of half the gain that is deployed, with rules that count  *)
(* decisions and measure from the peak, and a floor under the peak.        *)
SeveralRules ==
  [Off EXCEPT !.giveBack = 5, !.fadeOff = 2, !.fadeConfirm = 1, !.stall = 2, !.minPeak = 1]

(* The give-back alone, to be confirmed by a second decision.              *)
ConfirmedGiveBack == [Off EXCEPT !.giveBack = 5, !.confirm = 2]

=============================================================================
