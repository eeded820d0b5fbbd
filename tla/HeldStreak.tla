----------------------------- MODULE HeldStreak -----------------------------
(***************************************************************************)
(* executor/retry.py, held_sessions_before, and the gate of _submit that   *)
(* uses it: entries wait for the exits that fund them, for two sessions of *)
(* the same refusals and no more.                                          *)
(***************************************************************************)
EXTENDS Integers, Sequences, FiniteSets

CONSTANTS
  Refusals,         \* the sets of refused exits a slot may end with
  MaxHeldSessions,  \* _MAX_HELD_SESSIONS
  MaxSession,       \* bound: sessions followed
  MaxRows           \* bound: risk rows of one session

RefusalsAssumption == \A R \in Refusals : R # {}
BoundsAssumption == MaxHeldSessions \in Nat \ {0} /\ MaxSession \in Nat \ {0} /\ MaxRows \in Nat

VARIABLES
  rows,    \* the lane's RISK rows, newest first
  session

vars == <<rows, session>>

(* "held" and "released" carry the refused exits; any other risk row "none" *)
Kinds == {"held", "released", "other"}
Row(kind, R) == [session |-> session, kind |-> kind, refused |-> R]

Init == rows = <<>> /\ session = 1

SessionsBefore == {rows[i].session : i \in DOMAIN rows} \ {session}

(* Whether a session of the rows counts as held.  The rows are folded      *)
(* newest first, and a released row clears what was seen before it: the    *)
(* rows newer than itself.                                                 *)
Held(s, R) ==
  \E i \in DOMAIN rows :
    /\ rows[i].session = s /\ rows[i].kind = "held" /\ R \subseteq rows[i].refused
    /\ ~\E j \in (i + 1)..Len(rows) : rows[j].session = s /\ rows[j].kind = "released"

(* Mutant: the streak is that of exactly today's refusals, so any other    *)
(* refusal beside them ends it.                                            *)
StreakOfSame(R) ==
  Cardinality({s \in SessionsBefore :
    \A t \in SessionsBefore : t >= s =>
      Held(t, R) /\ \A i \in DOMAIN rows : rows[i].session = t => rows[i].refused = R})

(* The prior sessions with risk rows, newest first, until one that did not *)
(* hold: a session without any is not seen at all.                         *)
Streak(R) ==
  Cardinality({s \in SessionsBefore : \A t \in SessionsBefore : t >= s => Held(t, R)})

RowsToday == Cardinality({i \in DOMAIN rows : rows[i].session = session})

Write(row) == RowsToday < MaxRows /\ rows' = <<row>> \o rows /\ UNCHANGED session

(* A slot that ends its exits with R refused, and has entries: they wait,  *)
(* or go out.                                                              *)
Gate(R) == Write(Row(IF Streak(R) < MaxHeldSessions THEN "held" ELSE "released", R))

(* Any other risk row: the sizing of an exit, an unsupported rule.         *)
OtherRisk == Write(Row("other", {}))

NextSession ==
  /\ session < MaxSession
  /\ session' = session + 1
  /\ UNCHANGED rows

Next ==
  \/ \E R \in Refusals : Gate(R)
  \/ OtherRisk
  \/ NextSession

Spec == Init /\ [][Next]_vars

-----------------------------------------------------------------------------
(* The rows of the lane, each of a session that has begun.                 *)
TypeOK ==
  /\ session \in 1..MaxSession
  /\ \A i \in DOMAIN rows :
       rows[i].session \in 1..session /\ rows[i].kind \in Kinds
       /\ rows[i].refused \in Refusals \cup {{}}

Did(kind, s, R) ==
  \E i \in DOMAIN rows : rows[i].session = s /\ rows[i].kind = kind /\ rows[i].refused = R

Covered(s, R) ==
  \E i \in DOMAIN rows : rows[i].session = s /\ rows[i].kind = "held" /\ R \subseteq rows[i].refused

Released(s) == \E i \in DOMAIN rows : rows[i].session = s /\ rows[i].kind = "released"

(* The wait is bounded by sessions, not by slots, and no release restarts  *)
(* it unseen: entries that waited for R or more in a cap of sessions wait  *)
(* for R in the next only if some were released in between.                *)
HeldNoLonger ==
  \A R \in Refusals : \A s \in (MaxHeldSessions + 1)..session :
    Did("held", s, R) /\ (\A t \in (s - MaxHeldSessions)..(s - 1) : Covered(t, R))
      => \E t \in (s - MaxHeldSessions)..(s - 1) : Released(t)

(* Nor is it cut short: entries go out over refused exits only after a cap *)
(* of earlier sessions that held them for these, which is two full days of *)
(* slots whatever the slots of a day.                                      *)
ReleasedNoSooner ==
  \A R \in Refusals : \A s \in 1..session :
    Did("released", s, R) =>
      Cardinality({t \in 1..(s - 1) : Covered(t, R)}) >= MaxHeldSessions

(* "The exit funds the entry", and for two sessions: entries wait as long   *)
(* as the cap says, and exactly that.                                      *)
HeldOnTime == HeldNoLonger /\ ReleasedNoSooner

(* A release ends the streak: the session after one waits again            *)
(* (held_sessions_before's docstring).                                     *)
ReleaseEndsTheStreak ==
  \A R \in Refusals : \A s \in 1..session :
    ~(Did("released", s, R) /\ Did("released", s + 1, R))

(* The streak is of consecutive sessions: the first prior session without  *)
(* a hold ends it (held_sessions_before's docstring).                      *)
StreakIsConsecutive ==
  \A R \in Refusals : \A s \in 1..session :
    Did("released", s, R) => \A t \in (s - MaxHeldSessions)..(s - 1) : Covered(t, R)

=============================================================================
