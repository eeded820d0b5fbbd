------------------------------- MODULE MCLanes -------------------------------
(***************************************************************************)
(* Instances of the components of Lanes small enough for TLC.              *)
(***************************************************************************)
EXTENDS Lanes

CONSTANTS A, B, p1, p2

OneSymbol == {A}
TwoSymbols == {A, B}
TwoTasks == {p1, p2}
TradeOrFlatten == {"TRADING", "LIQUIDATING"}
Surroundings == {{}, {"blind"}, {"restarts"}, {"lost"}}
LossyOnly == {{"lost"}}

(* The short lane: one slot for two names, two decision slots before the   *)
(* cross and one after it, two sessions.                                   *)
TwoBefore == {"open-20m", "open-10m"}
OneAfter == {"open+5m"}
ShortSurroundings == {{}, {"parts"}, {"races"}, {"restarts"}, {"cancels"}}

(* The sleeve: two legs of equal weight, one of which may be worth four    *)
(* times as much, so that a plan buys and sells.                           *)
EqualWeights == [l \in {A, B} |-> 1]
OneOrFour == {1, 4}
EveryDay == [d \in 0..2 |-> d]
SleeveSurroundings ==
  {{}, {"parts"}, {"cancels"}, {"stops"}, {"outages"}, {"blind"},
   {"restarts", "stops"}, {"restarts", "blind"}}

(* The intraday lane: sessions of three bars, two of which begin a slot,   *)
(* the last of which flattens; two names, and a first session to get warm. *)
TwoSlots == {1, 2}
IntradaySurroundings == {{}, {"flat"}, {"refusals"}, {"stops"}, {"restarts"}}

(* The rule: five names for three slots and a buffer of one; an overlay    *)
(* that reorders some of them, correlations of three shapes, and a cap     *)
(* that two names may exceed one after the other.                          *)
FiveNames == 1..5
SomePanels == UNION {[S -> {0, 2}] : S \in {{}, {2, 3}, {1, 3, 4, 5}, 1..5}}
TwoOverlays ==
  {[bars |-> <<>>, ties |-> <<>>],
   [bars |-> [n \in {1, 4, 5} |-> n], ties |-> [n \in FiveNames |-> n]]}
ThreeCorrelations ==
  {[known |-> {}, alike |-> {}],
   [known |-> {1, 2, 4}, alike |-> {{1, 2}}],
   [known |-> 1..5, alike |-> {{1, 2}, {2, 3}, {1, 4}}]}
OneQuiet == {{1}}
OneFloor == {1}
FiveVols == <<4, 2, 1, 1, 8>>

=============================================================================
