------------------------------ MODULE Lifecycle ------------------------------
(***************************************************************************)
(* executor/lifecycle.py: the states of a lane, what each may do, and the  *)
(* moves between them.                                                     *)
(***************************************************************************)

States == {"DISABLED", "WARMUP", "SHADOW", "TRADING", "HALTED", "LIQUIDATING"}

MaySubmitEntries == {"TRADING"}
MaySubmitExits   == {"TRADING", "LIQUIDATING"}
Decides          == {"SHADOW", "TRADING", "LIQUIDATING"}

(* _ALLOWED, split by its flag: what only an operator may do, and what an  *)
(* automatic path may do as well.                                          *)
OperatorOnly ==
  { <<"DISABLED", "WARMUP">>, <<"WARMUP", "DISABLED">>, <<"SHADOW", "TRADING">>,
    <<"SHADOW", "DISABLED">>, <<"TRADING", "SHADOW">>, <<"TRADING", "LIQUIDATING">>,
    <<"HALTED", "SHADOW">>, <<"HALTED", "LIQUIDATING">>, <<"HALTED", "DISABLED">> }

Automatic ==
  { <<"WARMUP", "SHADOW">>, <<"SHADOW", "HALTED">>, <<"TRADING", "HALTED">>,
    <<"LIQUIDATING", "DISABLED">>, <<"LIQUIDATING", "HALTED">> }

Can(from, to, byOperator) ==
  <<from, to>> \in Automatic \/ (byOperator /\ <<from, to>> \in OperatorOnly)

Halt(from) == IF from \in {"SHADOW", "TRADING"} THEN "HALTED" ELSE from

=============================================================================
