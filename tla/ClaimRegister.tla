---------------------------- MODULE ClaimRegister ----------------------------
(***************************************************************************)
(* What store.write_claim promises its callers, for one (lane, symbol).    *)
(*                                                                         *)
(* Every call is applied at most once and atomically, or never; a call may *)
(* be lost, but a call of an event loop is never applied after a later     *)
(* call of that same loop.  Nothing orders the calls of two loops.         *)
(***************************************************************************)
EXTENDS ClaimRow

CONSTANTS
  Loops,       \* event loops that write the key (node process, a tool, ...)
  Writes       \* calls of write_claim, numbered in call order

VARIABLES
  row,         \* the row as committed
  status,      \* [Writes -> {"new", "pending", "applied", "void"}]
  loop,        \* [Writes -> Loops], the caller, set by the call
  stmt         \* [Writes -> Asks], what the caller asked for

vars == <<row, status, loop, stmt>>

Init ==
  /\ row = NoRow
  /\ status = [w \in Writes |-> "new"]
  /\ loop \in [Writes -> Loops]
  /\ stmt \in [Writes -> Asks]

Later(w) == {v \in Writes : v > w /\ loop[v] = loop[w]}

Call(w) ==
  /\ status[w] = "new"
  /\ status' = [status EXCEPT ![w] = "pending"]
  /\ UNCHANGED <<row, loop, stmt>>

Apply(w) ==
  /\ status[w] = "pending"
  /\ \A v \in Later(w) : status[v] # "applied"
  /\ status' = [status EXCEPT ![w] = "applied"]
  /\ row' = Effect(row, stmt[w])
  /\ UNCHANGED <<loop, stmt>>

(* The transaction will not commit.                                        *)
Void(W) ==
  /\ W # {} /\ \A w \in W : status[w] = "pending"
  /\ status' = [w \in Writes |-> IF w \in W THEN "void" ELSE status[w]]
  /\ UNCHANGED <<row, loop, stmt>>

Next ==
  \/ \E w \in Writes : Call(w) \/ Apply(w)
  \/ \E W \in SUBSET Writes : Void(W)

Spec == Init /\ [][Next]_vars

=============================================================================
