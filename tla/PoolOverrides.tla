--------------------------- MODULE PoolOverrides ---------------------------
(***************************************************************************)
(* executor/pgpool.py: the operator's PIN and EXCLUDE of one symbol, and   *)
(* the pool derived from them and from the sources. set_override deletes   *)
(* the other kind and upserts its own in one transaction; two of them      *)
(* interleave at their statements as Postgres lets them at READ COMMITTED. *)
(***************************************************************************)
EXTENDS FiniteSets

CONSTANT Operators   \* sessions of the operator surface

VARIABLES
  row,     \* [Kinds -> exec_pool_override: no row, a live one, an expired one]
  fed,     \* some source contributes the symbol
  task,    \* [Operators -> the transaction open]
  said     \* history: the kind committed last, if nothing ended it since

vars == <<row, fed, task, said>>

PIN == "pin"
EXCLUDE == "exclude"
Kinds == {PIN, EXCLUDE}
Other(kind) == IF kind = PIN THEN EXCLUDE ELSE PIN

Idle == [step |-> "idle", kind |-> PIN, doomed |-> FALSE]

Init ==
  /\ row = [k \in Kinds |-> "none"]
  /\ fed \in BOOLEAN
  /\ task = [o \in Operators |-> Idle]
  /\ said = "none"

(* Mutant: a pin beats an exclusion.                                       *)
PinWins == row[PIN] = "live" \/ (fed /\ row[EXCLUDE] # "live")

(* effective and is_buyable: fed or pinned, and not excluded.              *)
Buyable == (fed \/ row[PIN] = "live") /\ row[EXCLUDE] # "live"

(* must_liquidate.                                                         *)
MustLiquidate == row[EXCLUDE] = "live"

(* The keys an open transaction holds: the row it deleted and its upsert.  *)
Locks(o) ==
  (IF task[o].doomed THEN {Other(task[o].kind)} ELSE {})
    \cup (IF task[o].step = "commit" THEN {task[o].kind} ELSE {})

Free(o, kind) == \A p \in Operators \ {o} : kind \notin Locks(p)

(* The DELETE sees a committed row and waits for one that is held; a row   *)
(* not committed yet it does not see.                                      *)
Delete(o, kind) ==
  LET there == row[Other(kind)] # "none"
  IN /\ task[o].step = "idle"
     /\ there => Free(o, Other(kind))
     /\ task' = [task EXCEPT ![o] = [step |-> "upsert", kind |-> kind, doomed |-> there]]
     /\ UNCHANGED <<row, fed, said>>

Upsert(o) ==
  /\ task[o].step = "upsert" /\ Free(o, task[o].kind)
  /\ task' = [task EXCEPT ![o].step = "commit"]
  /\ UNCHANGED <<row, fed, said>>

Commit(o) ==
  /\ task[o].step = "commit"
  /\ row' = [k \in Kinds |-> IF k = task[o].kind THEN "live"
                             ELSE IF task[o].doomed THEN "none" ELSE row[k]]
  /\ said' = task[o].kind
  /\ task' = [task EXCEPT ![o] = Idle]
  /\ UNCHANGED fed

(* A deadlock victim, a lost connection, a death.                          *)
RollBack(o) ==
  /\ task[o].step # "idle"
  /\ task' = [task EXCEPT ![o] = Idle]
  /\ UNCHANGED <<row, fed, said>>

(* clear_override, when no transaction holds the row.                      *)
Clear(kind) ==
  /\ row[kind] # "none" /\ \A o \in Operators : kind \notin Locks(o)
  /\ row' = [row EXCEPT ![kind] = "none"]
  /\ said' = (IF said = kind THEN "none" ELSE said)
  /\ UNCHANGED <<fed, task>>

(* expires_at passes; the row stays.                                       *)
Expire(kind) ==
  /\ row[kind] = "live"
  /\ row' = [row EXCEPT ![kind] = "expired"]
  /\ said' = (IF said = kind THEN "none" ELSE said)
  /\ UNCHANGED <<fed, task>>

(* A refresh of some source adds the symbol or lets it go.                 *)
Feed == fed' = ~fed /\ UNCHANGED <<row, task, said>>

Next ==
  \/ \E o \in Operators :
       (\E kind \in Kinds : Delete(o, kind)) \/ Upsert(o) \/ Commit(o) \/ RollBack(o)
  \/ \E kind \in Kinds : Clear(kind) \/ Expire(kind)
  \/ Feed

Spec == Init /\ [][Next]_vars

-----------------------------------------------------------------------------
TypeOK ==
  /\ row \in [Kinds -> {"none", "live", "expired"}]
  /\ fed \in BOOLEAN
  /\ task \in [Operators -> [step : {"idle", "upsert", "commit"}, kind : Kinds, doomed : BOOLEAN]]
  /\ said \in Kinds \cup {"none"}

(* An exclusion holds until it is cleared, expires or a later pin replaces *)
(* it: whatever pin was being set beside it, the symbol is sold and cannot *)
(* be bought (must_liquidate: "only an explicit operator EXCLUDE forces a  *)
(* sale").                                                                 *)
ExcludeHolds == said = EXCLUDE => MustLiquidate /\ ~Buyable

(* The same of a pin. REFUTED: an exclusion set beside it leaves both rows,*)
(* and the exclusion wins though the pin came last.                        *)
PinHolds == said = PIN => Buyable /\ ~MustLiquidate

=============================================================================
