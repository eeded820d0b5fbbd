-------------------------- MODULE MCSessionRunner --------------------------
(***************************************************************************)
(* Instances of SessionRunner small enough for TLC.                        *)
(***************************************************************************)
EXTENDS SessionRunner, TLC

CONSTANTS A, B, C, D, p1, p2

OneSlot  == {1}
TwoSlots == {1, 2}

OneSymbol  == {A}
TwoSymbols == {A, B}
FourSymbols == {A, B, C, D}

OneTask  == {p1}
TwoTasks == {p1, p2}

Once   == {0}
Twice  == 0..1
Thrice == 0..2
Nobody == {}
OnlyA  == {A}

TradeOnly  == {"TRADING"}
AnyState == States
TradeHaltOrFlatten == {"TRADING", "HALTED", "LIQUIDATING"}

Names == Permutations(FourSymbols)

=============================================================================
