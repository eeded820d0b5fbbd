------------------------------ MODULE Records ------------------------------
(***************************************************************************)
(* The components that are rules over rows of the database or over bars,   *)
(* side by side: a pool's replace (PoolSource, this module's own           *)
(* specification), the gate on waiting entries, the operator's overrides,  *)
(* the trail of a position and a lane's view of its market.  They share    *)
(* nothing: one behaviour is of one of them, and the others stay where     *)
(* they begin, so one run is the check of several.                         *)
(***************************************************************************)
EXTENDS PoolSource, Sequences

CONSTANTS
  Refusals, MaxHeldSessions, MaxSession, MaxRows,                   \* HeldStreak
  Operators,                                                        \* PoolOverrides
  Runs, Prices, Atr, Rules, MaxSlots, Unpriced, Dies, Stops, EmptyReads,  \* Trail
  Names, Parts, Levels, Window, Dwell, Action, Need, Slack, MinWindows,
  MaxSessions, Bridged                                              \* MarketView

VARIABLES
  which,                                      \* the component that moves
  riskRows, session,                          \* HeldStreak
  override, fed, sessions, said,              \* PoolOverrides
  position, trail, runs, slot, decided, wins, rose, breaches, verdict,  \* Trail
  bars, day, place, polled, event             \* MarketView

heldVars == <<riskRows, session>>
overrideVars == <<override, fed, sessions, said>>
trailVars == <<position, trail, runs, slot, decided, wins, rose, breaches, verdict>>
marketVars == <<bars, day, place, polled, event>>

(* The instances: a constant of a component has its name here, but that    *)
(* Runs are the tasks of a trail.                                          *)
Held == INSTANCE HeldStreak WITH rows <- riskRows
Overrides == INSTANCE PoolOverrides WITH row <- override, task <- sessions
Trails == INSTANCE Trail WITH Tasks <- Runs, row <- trail, task <- runs
Market == INSTANCE MarketView

ASSUME InstancesAssumption ==
  /\ Held!RefusalsAssumption /\ Held!BoundsAssumption
  /\ Trails!PricesAssumption /\ Trails!RulesAssumption /\ Trails!SlotsAssumption
  /\ Market!NamesAssumption /\ Market!WindowAssumption /\ Market!KeepAssumption
  /\ Market!ActionAssumption

-----------------------------------------------------------------------------
AllInit ==
  /\ which \in {"pool", "held", "overrides", "trail", "market"}
  /\ Init /\ Held!Init /\ Overrides!Init /\ Trails!Init /\ Market!Init
  /\ which # "pool" => spec = "none"
  /\ which # "overrides" => ~fed

ThePool ==
  /\ which = "pool" /\ Next
  /\ UNCHANGED <<which, heldVars, overrideVars, trailVars, marketVars>>
TheGate ==
  /\ which = "held" /\ Held!Next
  /\ UNCHANGED <<which, vars, overrideVars, trailVars, marketVars>>
TheOperators ==
  /\ which = "overrides" /\ Overrides!Next
  /\ UNCHANGED <<which, vars, heldVars, trailVars, marketVars>>
TheTrail ==
  /\ which = "trail" /\ Trails!Next
  /\ UNCHANGED <<which, vars, heldVars, overrideVars, marketVars>>
TheMarket ==
  /\ which = "market" /\ Market!Next
  /\ UNCHANGED <<which, vars, heldVars, overrideVars, trailVars>>

AllNext == ThePool \/ TheGate \/ TheOperators \/ TheTrail \/ TheMarket

allVars == <<which, vars, heldVars, overrideVars, trailVars, marketVars>>
AllSpec == AllInit /\ [][AllNext]_allVars

-----------------------------------------------------------------------------
(* Entries wait for refused exits for a cap of sessions, no longer and no  *)
(* less (HeldStreak).                                                      *)
HeldOnTime == Held!HeldOnTime

(* An exclusion holds whatever pin is set beside it (PoolOverrides).       *)
ExcludeHolds == Overrides!ExcludeHolds

(* The trail on record is one the position that is held has earned, and    *)
(* ages by decisions (Trail).                                              *)
TrailIsEarned == Trails!TrailIsEarned

(* A lane with the bars its view spans has a view, and one that is         *)
(* defined, and who hears only the events knows what it last said          *)
(* (MarketView).                                                           *)
MarketIsKnown == Market!ViewIsComputed /\ Market!EventsSayItAll

=============================================================================
