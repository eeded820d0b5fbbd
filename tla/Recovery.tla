------------------------------ MODULE Recovery ------------------------------
(***************************************************************************)
(* What a lane must not be stuck in: a position that it cannot sell        *)
(* (Ownership, this module's own specification) and a session that is      *)
(* refused (DailyLoss).  The two share nothing: one behaviour is of one of *)
(* them, and the other stays where it begins.                              *)
(***************************************************************************)
EXTENDS Ownership

CONSTANTS Levels, Absent, Poisoned, LossPct, Window, SlotsADay, Hooked    \* DailyLoss

VARIABLES
  which,                                                      \* the component that moves
  rows, equity, lifecycle, stored, breached, decided, run       \* DailyLoss

lossVars == <<rows, equity, lifecycle, stored, breached, decided, run>>

Loss == INSTANCE DailyLoss

ASSUME InstancesAssumption ==
  Loss!LevelsAssumption /\ Loss!LossPctAssumption /\ Loss!WindowAssumption

-----------------------------------------------------------------------------
AllInit ==
  /\ which \in {"own", "loss"}
  /\ Init /\ Loss!Init
  /\ which = "own" => rows = <<>> /\ equity = Absent

TheLanes == which = "own" /\ Next /\ UNCHANGED <<which, lossVars>>
TheLoss == which = "loss" /\ Loss!Next /\ UNCHANGED <<which, vars>>
AllNext == TheLanes \/ TheLoss

allVars == <<which, vars, lossVars>>
AllSpec == AllInit /\ [][AllNext]_allVars

(* The fairness of each, for the behaviours that are of it.                *)
LossFairness ==
  /\ WF_lossVars(which = "loss" /\ Loss!EquityMoves /\ equity = Absent /\ equity' # Absent)
  /\ WF_lossVars(which = "loss" /\ Loss!NextSession)
  /\ WF_lossVars(which = "loss" /\ (Loss!Decide \/ Loss!Return))
  /\ SF_lossVars(which = "loss" /\ Loss!Check /\ equity # Absent)
OwnFairness ==
  \A l \in Lanes :
    /\ WF_vars(which = "own" /\ \E other \in Elsewhere : Run(l, FALSE, other))
    /\ WF_vars(which = "own" /\ Land(l))

AllFairSpec == AllSpec /\ LossFairness /\ OwnFairness

-----------------------------------------------------------------------------
(* A run that may trade was checked within the limit of the newest usable  *)
(* equity on record (DailyLoss).                                           *)
MeasuredAgainstNewest == Loss!MeasuredAgainstNewest

(* A halt stops the lane though it was not saved (DailyLoss).              *)
BreachStands == Loss!BreachStands

(* A refused session heals (DailyLoss).                                    *)
RefusedHeals == which = "loss" => Loss!RefusalsHeal

=============================================================================
