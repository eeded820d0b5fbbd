-------------------------------- MODULE Retry --------------------------------
(***************************************************************************)
(* executor/retry.py: what one session's journal says about its orders.    *)
(*                                                                         *)
(* The journal is kept as what these functions read of it: how many result *)
(* rows of each answer a symbol has, which symbols have a suppressed row,  *)
(* and the set of terminal rows.  A result row names no side and no order; *)
(* a terminal row names both.                                              *)
(***************************************************************************)
EXTENDS Integers, FiniteSets

CONSTANTS
  Symbols,
  Slots,              \* the decision slots of the session
  Attempts,           \* attempt numbers an order id may carry
  MaxSubmitAttempts   \* _MAX_SUBMIT_ATTEMPTS

ASSUME SymbolsAssumption == IsFiniteSet(Symbols)
ASSUME SlotsAssumption == Slots # {}
ASSUME AttemptsAssumption == Attempts \subseteq Nat
ASSUME MaxSubmitAttemptsAssumption == MaxSubmitAttempts \in Nat \ {0}

Sides == {"BUY", "SELL"}

(* client_order_id: a hash of (lane, session, symbol, side, slot, attempt). *)
OrderIds == [slot : Slots, symbol : Symbols, side : Sides, attempt : Attempts]

(* A terminal row: ok, refused with nothing booked, or refused with shares *)
(* booked.                                                                 *)
Answers == {"filled", "refused", "booked"}
TerminalRows == [order : OrderIds, answer : Answers]

EmptyJournal ==
  [accepted |-> [s \in Symbols |-> 0], failed |-> [s \in Symbols |-> 0],
   suppressed |-> {}, terminal |-> {}]

Journals ==
  [accepted : [Symbols -> Nat], failed : [Symbols -> Nat],
   suppressed : SUBSET Symbols, terminal : SUBSET TerminalRows]

Fills(j, s) == {t \in j.terminal : t.order.symbol = s /\ t.answer = "filled"}

Refusals(j, s) == {t \in j.terminal : t.order.symbol = s /\ t.answer # "filled"}

OnSide(rows, side) == {t \in rows : t.order.side = side}

Results(j, s) == j.accepted[s] + j.failed[s]

(* Mutant: every submit counts as an attempt, answered or not.             *)
AttemptsFromResults(j, s, side) == Results(j, s)

(* Orders of the symbol and side that failed with nothing booked; none     *)
(* once one of them filled.                                                *)
AttemptsFor(j, s, side) ==
  IF OnSide(Fills(j, s), side) # {} THEN 0
  ELSE Cardinality({t.order : t \in {u \in OnSide(Refusals(j, s), side) : u.answer = "refused"}})

(* Mutant: suppression is not looked at.                                   *)
AttemptedUnlessSuppressed(j, s) ==
  Results(j, s) > 0 /\ (Fills(j, s) # {} \/ Results(j, s) >= MaxSubmitAttempts \/ j.accepted[s] > 0)

(* Symbols a resume must not submit again.                                 *)
AlreadyAttempted(j, s) ==
  \/ /\ Results(j, s) > 0
     /\ \/ Fills(j, s) # {}
        \/ Refusals(j, s) # {} /\ j.failed[s] + 1 >= MaxSubmitAttempts
        \/ Refusals(j, s) = {} /\ (Results(j, s) >= MaxSubmitAttempts \/ j.accepted[s] > 0)
  \/ s \in j.suppressed

(* Accepted at submit, or filled.  No result row records a side, so one of *)
(* either side counts.                                                     *)
SubmittedOk(j, s, side) ==
  j.accepted[s] > 0 \/ OnSide(Fills(j, s), side) # {}

=============================================================================
