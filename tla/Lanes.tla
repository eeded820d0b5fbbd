-------------------------------- MODULE Lanes --------------------------------
(***************************************************************************)
(* The lanes' books and runners side by side: the monthly runner (this     *)
(* module's own specification), the CRSI short lane, the SMH/GLD sleeve,   *)
(* the intraday lane and the rotation rule.  They share nothing: one       *)
(* behaviour is of one of them, and the others stay where they begin, so   *)
(* one run is the check of each.                                           *)
(***************************************************************************)
EXTENDS MonthlyRunner, Sequences

CONSTANTS
  ShortNames, NSlots, Before, After, ShortLot, ShortDays, MaxLive, ShortEnvs,   \* ShortLane
  Legs, Weight, Band, SleeveLot, Size, Prices, Moving, Cash, SleeveNeed, MaxStale,
  PeriodOf, SleeveDays, SleeveEnvs,                                             \* SleeveLane
  IntradayNames, NHold, Times, SlotTimes, CloseTime, Need, WarmNames, Deployed,
  IntradayDays, IntradayEnvs,                                                   \* IntradayLane
  Names, Panels, Overlays, Correlations, Quiets, RuleHold, Buffer, OverlayWeight,
  ClusterFloor, InverseVol, CapOver, CapUnder                                   \* Rotation

VARIABLES
  which,                                                    \* the component that moves
  sEnv, day, clock, fired, up, shorts, reserved, trail, printed, short, live, leg, intent,
  atOpen, missed,                                           \* ShortLane
  lane, vEnv, reserves, date, open, price, bars, close, held, pending, row, shares, cash,
  working, task, skipped, alive, claims, unheard,           \* SleeveLane
  iEnv, now, toCome, older, prints, lastTs, due5, lastSlot, bar, seen, hist, longs, waits,
  stops, sizes, owned, out, missing,                        \* IntradayLane
  entryOnly, book, session                                  \* Rotation

shortVars == <<sEnv, day, clock, fired, up, shorts, reserved, trail, printed, short, live, leg,
               intent, atOpen, missed>>
sleeveVars == <<lane, vEnv, reserves, date, open, price, bars, close, held, pending, row, shares,
                cash, working, task, skipped, alive, claims, unheard>>
intraVars == <<iEnv, now, toCome, older, prints, lastTs, due5, lastSlot, bar, seen, hist, longs,
               waits, stops, sizes, owned, out, missing>>
rotationVars == <<entryOnly, book, session>>

(* The instances: a constant of a component has its name here, but for the *)
(* ones that several have.                                                 *)
Short == INSTANCE ShortLane
  WITH Symbols <- ShortNames, Lot <- ShortLot, Days <- ShortDays, Envs <- ShortEnvs,
       env <- sEnv, held <- shorts, pending <- reserved

Sleeve == INSTANCE SleeveLane
  WITH Lot <- SleeveLot, Need <- SleeveNeed, Days <- SleeveDays, Envs <- SleeveEnvs,
       env <- vEnv, day <- date, claim <- row, pos <- shares, live <- working, missed <- skipped,
       awake <- alive, writes <- claims, unsaid <- unheard

Intraday == INSTANCE IntradayLane
  WITH Symbols <- IntradayNames, Days <- IntradayDays, Envs <- IntradayEnvs,
       env <- iEnv, due <- due5, session <- seen, held <- longs, pending <- waits,
       pos <- owned, live <- out

Rule == INSTANCE Rotation WITH NHold <- RuleHold

ASSUME InstancesAssumption ==
  /\ Short!SizesAssumption /\ Sleeve!WeightsAssumption /\ Intraday!GridAssumption
  /\ Rule!CountsAssumption /\ Rule!PanelsAssumption /\ Rule!CapAssumption

-----------------------------------------------------------------------------
AllInit ==
  /\ which \in {"monthly", "short", "sleeve", "intraday", "rotation"}
  /\ Init /\ Short!Init /\ Sleeve!Init /\ Intraday!Init /\ Rule!Init
  /\ which # "monthly" => env = {} /\ pos = [s \in Symbols |-> 0]
  /\ which # "short" => sEnv = {}
  /\ which # "sleeve" =>
       lane = "sleeve" /\ vEnv = {} /\ reserves /\ bars = [l \in Legs |-> {}]
  /\ which # "intraday" => iEnv = {}
  /\ which # "rotation" => ~entryOnly /\ book = {}

TheMonthlyRunner ==
  /\ which = "monthly" /\ Next
  /\ UNCHANGED <<which, shortVars, sleeveVars, intraVars, rotationVars>>
TheShortLane ==
  /\ which = "short" /\ Short!Next
  /\ UNCHANGED <<which, vars, sleeveVars, intraVars, rotationVars>>
TheSleeve ==
  /\ which = "sleeve" /\ Sleeve!Next
  /\ UNCHANGED <<which, vars, shortVars, intraVars, rotationVars>>
TheIntradayLane ==
  /\ which = "intraday" /\ Intraday!Next
  /\ UNCHANGED <<which, vars, shortVars, sleeveVars, rotationVars>>
TheRule ==
  /\ which = "rotation" /\ Rule!Next
  /\ UNCHANGED <<which, vars, shortVars, sleeveVars, intraVars>>
AllNext == TheMonthlyRunner \/ TheShortLane \/ TheSleeve \/ TheIntradayLane \/ TheRule

allVars == <<which, vars, shortVars, sleeveVars, intraVars, rotationVars>>
AllSpec == AllInit /\ [][AllNext]_allVars

-----------------------------------------------------------------------------
(* The short lane keeps to its slots, its reservations are its orders, its *)
(* book what it is short, its trails what it holds, and no order doubles   *)
(* or over-covers a position (ShortLane).                                  *)
ShortBookIsTrue ==
  /\ Short!SlotsKept /\ Short!ReservedIsLive
  /\ Short!BookIsTrue /\ Short!NeverDoubled

(* A name that was short when the session opened is not shorted by an      *)
(* order of that session (ShortLane).                                      *)
NotReshorted == [][Short!SpentForToday]_allVars

(* The sleeve's book and its claims are what it has (SleeveLane).          *)
BookIsShown == Sleeve!BookIsShown

(* A plan carried out in full leaves nothing to do at its prices           *)
(* (SleeveLane).                                                           *)
PlanSettles == [][Sleeve!PlanStep]_allVars

(* The intraday lane decides a slot on the bars of that slot               *)
(* (IntradayLane).                                                         *)
SlotSeesItsBars == Intraday!SlotSeesItsBars

(* The intraday lane's book and reservations are its positions and orders  *)
(* (IntradayLane).                                                         *)
IntradayBookIsTrue == Intraday!IntradayBookIsTrue

(* The rotation fills its book without overshooting, doubling a bet or     *)
(* exceeding a cap (Rotation).                                             *)
RotationIsSound == Rule!RotationIsSound

=============================================================================
