------------------------------ MODULE ClaimRow ------------------------------
(***************************************************************************)
(* One row of exec_position_state: what one lane claims to hold of one     *)
(* symbol, and the statements of store.py that write it.                   *)
(*                                                                         *)
(* A row carries the signed quantity and the trail's memory; the trail is  *)
(* abstracted to `age`, the sessions_held counter, which is what a claim   *)
(* write must never reset.                                                 *)
(***************************************************************************)
EXTENDS Integers

CONSTANTS
  Quantities,   \* signed whole-share quantities a caller may record
  Ages,         \* values of the trail's session counter
  Asks          \* the statements callers issue

ASSUME QuantitiesAssumption == Quantities \subseteq Int /\ 0 \notin Quantities
ASSUME AgesAssumption == Ages \subseteq Nat /\ 0 \in Ages

NoRow == [present |-> FALSE, qty |-> 0, age |-> 0]

RowOf(q, a) == [present |-> TRUE, qty |-> q, age |-> a]

Rows == [present : BOOLEAN, qty : Quantities \cup {0}, age : Ages]

(* The statements: an upsert that moves qty alone on conflict, the same    *)
(* with only_if_absent, the DELETE of a full exit, and the trail save with *)
(* or without a quantity.                                                  *)
Statements ==
  [kind : {"record", "adopt"}, qty : Quantities, age : {0}]
    \cup [kind : {"drop"}, qty : {0}, age : {0}]
    \cup [kind : {"trail"}, qty : Quantities \cup {0}, age : Ages]

ASSUME AsksAssumption == Asks \subseteq Statements

Record(old, s) == IF old.present THEN [old EXCEPT !.qty = s.qty] ELSE RowOf(s.qty, 0)

Adopt(old, s) == IF old.present THEN old ELSE RowOf(s.qty, 0)

(* qty = 0 stands for the code's qty=None: an existing quantity is left    *)
(* alone and a new row is inserted with quantity 0.                        *)
Trail(old, s) ==
  RowOf(IF old.present /\ s.qty = 0 THEN old.qty ELSE s.qty, s.age)

Effect(old, s) ==
  CASE s.kind = "record" -> Record(old, s)
    [] s.kind = "adopt"  -> Adopt(old, s)
    [] s.kind = "drop"   -> NoRow
    [] s.kind = "trail"  -> Trail(old, s)

=============================================================================
