------------------------------ MODULE DailyLoss ------------------------------
(***************************************************************************)
(* executor/daily_loss.py: the one automatic stop of a lane.  Each run     *)
(* measures the account against the newest usable equity its own decision  *)
(* rows recorded; each decision records a new one.                         *)
(***************************************************************************)
EXTENDS Integers, Sequences

CONSTANTS
  Levels,      \* values the account equity takes
  Absent,      \* a decision row without an equity key; an equity not readable
  Poisoned,    \* a recorded equity that is not a finite number
  LossPct,     \* daily_loss_frac in percent; 0 is not armed
  Window,      \* decision rows tail() returns
  SlotsADay,   \* decisions of one session
  Hooked       \* qc27: on_halt persists, and every run reads what is stored

LevelsAssumption == Levels \subseteq Nat /\ Absent \notin Nat /\ Poisoned \notin Nat
LossPctAssumption == LossPct \in 0..100
WindowAssumption == Window \in Nat \ {0} /\ SlotsADay \in Nat \ {0} /\ Hooked \in BOOLEAN

VARIABLES
  rows,       \* DECISION rows, newest first: of today or not, and the equity
  equity,     \* what the broker answers now
  lifecycle,  \* the lane's state as its runner holds it
  stored,     \* the operator's record of it
  breached,   \* the equity the last halt measured against, until a decision
  decided,    \* decisions of the session
  run         \* a run in flight: its step and the equity it was checked at

vars == <<rows, equity, lifecycle, stored, breached, decided, run>>

LaneStates == {"SHADOW", "TRADING", "HALTED"}
Recorded == Levels \cup {Absent, Poisoned}
Readings == Levels \cup {Absent}
Waiting == [step |-> "idle", now |-> Absent]

(* Rows of an earlier version may hold any value; anchor() writes no       *)
(* poisoned one.                                                           *)
Init ==
  /\ rows \in UNION {[1..n -> [today : {FALSE}, equity : Recorded]] : n \in 0..Window}
  /\ equity \in Readings
  /\ lifecycle = "TRADING" /\ stored = "TRADING"
  /\ breached = Absent
  /\ decided = 0
  /\ run = Waiting

(* Zero is no anchor, though it is an equity.                              *)
Usable(e) == e \in Nat \ {0}

(* The newest usable row of today, or of the sessions before; at most one. *)
Newest(today) ==
  {rows[i].equity : i \in {k \in DOMAIN rows :
     /\ rows[k].today = today /\ Usable(rows[k].equity)
     /\ \A j \in 1..(k - 1) : rows[j].today = today => ~Usable(rows[j].equity)}}

(* Mutant: the newest row with an equity key is the anchor, usable or not. *)
BaselineShadowed ==
  {rows[i].equity : i \in {k \in DOMAIN rows :
     /\ Usable(rows[k].equity)
     /\ \A j \in 1..(k - 1) : rows[j].equity = Absent}}

(* Mutant: only a row of this session is an anchor.                        *)
BaselineOfToday == Newest(TRUE)

Baseline == IF Newest(TRUE) # {} THEN Newest(TRUE) ELSE Newest(FALSE)

Breach(start, now) == now * 100 < start * (100 - LossPct)

(* Mutant: rows that are all unusable block instead of proceeding.         *)
VerdictBlocksOnPoison ==
  IF \E i \in DOMAIN rows : rows[i].equity = Poisoned THEN "block"
  ELSE IF Baseline = {} THEN "proceed"
  ELSE IF equity = Absent THEN "block"
  ELSE IF \E start \in Baseline : Breach(start, equity) THEN "halt" ELSE "proceed"

Verdict ==
  IF LossPct = 0 \/ Baseline = {} THEN "proceed"
  ELSE IF equity = Absent THEN "block"
  ELSE IF \E start \in Baseline : Breach(start, equity) THEN "halt" ELSE "proceed"

State == IF Hooked THEN stored ELSE lifecycle

Proceed ==
  /\ run' = [step |-> "deciding", now |-> equity]
  /\ UNCHANGED <<lifecycle, stored, breached>>

(* Halted before anything is written.  The hook saves the halt, or it      *)
(* raises or returns a failure and the record says TRADING still; the risk *)
(* rows that should say so are best effort, as all of the journal's are    *)
(* (PgJournal.write), and are left out.                                    *)
Halt ==
  /\ lifecycle' = "HALTED"
  /\ stored' \in IF Hooked THEN {stored, "HALTED"} ELSE {stored}
  /\ breached' \in {start \in Baseline : Breach(start, equity)}
  /\ UNCHANGED run

(* enforce(), which a run reaches only in TRADING.                         *)
Check ==
  /\ run.step = "idle" /\ State = "TRADING"
  /\ CASE Verdict = "proceed" -> Proceed
       [] Verdict = "halt"    -> Halt
       [] OTHER               -> UNCHANGED <<lifecycle, stored, breached, run>>
  /\ UNCHANGED <<rows, equity, decided>>

(* A lane in SHADOW decides without the check.                             *)
Shadow ==
  /\ run.step = "idle" /\ State = "SHADOW" /\ decided < SlotsADay
  /\ run' = [step |-> "shadow", now |-> Absent]
  /\ UNCHANGED <<rows, equity, lifecycle, stored, breached, decided>>

(* The decision row, with the equity of this moment or without the key.    *)
Decide ==
  /\ run.step \in {"deciding", "shadow"} /\ decided < SlotsADay
  /\ LET all == <<[today |-> TRUE, equity |-> equity]>> \o rows
     IN rows' = SubSeq(all, 1, IF Len(all) < Window THEN Len(all) ELSE Window)
  /\ decided' = decided + 1
  /\ run' = Waiting
  /\ breached' = Absent
  /\ UNCHANGED <<equity, lifecycle, stored>>

(* Nothing on record: a gate, a resume, a crash, a row that was lost.      *)
Return ==
  /\ run.step # "idle"
  /\ run' = Waiting
  /\ UNCHANGED <<rows, equity, lifecycle, stored, breached, decided>>

NextSession ==
  /\ run.step = "idle"
  /\ rows' = [i \in DOMAIN rows |-> [rows[i] EXCEPT !.today = FALSE]]
  /\ decided' = 0
  /\ UNCHANGED <<equity, lifecycle, stored, breached, run>>

EquityMoves ==
  /\ equity' \in Readings
  /\ UNCHANGED <<rows, lifecycle, stored, breached, decided, run>>

(* The operator sets the state.                                            *)
OperatorSets(s) ==
  /\ lifecycle' = s /\ stored' = s
  /\ UNCHANGED <<rows, equity, breached, decided, run>>

Next ==
  \/ Check \/ Shadow \/ Decide \/ Return \/ NextSession \/ EquityMoves
  \/ \E s \in LaneStates : OperatorSets(s)

(* The schedule keeps firing; an account that is not readable is so until  *)
(* the next account update, and some check falls after one.                *)
Fairness ==
  /\ WF_vars(EquityMoves /\ equity = Absent /\ equity' # Absent)
  /\ WF_vars(NextSession)
  /\ WF_vars(Decide \/ Return)
  /\ SF_vars(Check /\ equity # Absent)

Spec == Init /\ [][Next]_vars
FairSpec == Spec /\ Fairness

-----------------------------------------------------------------------------
TypeOK ==
  /\ rows \in Seq([today : BOOLEAN, equity : Recorded]) /\ Len(rows) <= Window
  /\ equity \in Readings
  /\ lifecycle \in LaneStates /\ stored \in LaneStates
  /\ breached \in Readings
  /\ decided \in 0..SlotsADay
  /\ run \in [step : {"idle", "deciding", "shadow"}, now : Readings]

(* One unusable row does not shadow a loss: a run that may trade was       *)
(* checked within the limit of the newest usable equity in the window,     *)
(* whatever rows were written after it.                                    *)
MeasuredAgainstNewest ==
  \A k \in DOMAIN rows :
    run.step = "deciding" /\ LossPct > 0 /\ Usable(rows[k].equity)
    /\ (\A j \in 1..(k - 1) : ~Usable(rows[j].equity))
      => run.now # Absent /\ ~Breach(rows[k].equity, run.now)

(* A halt that was never saved still stops the lane.  From a halt until a  *)
(* decision is on record, no run trades but within the limit of the very   *)
(* equity the halt measured against: though the hook failed, the rows were *)
(* lost, the session rolled or the operator set the lane to trade again.   *)
BreachStands ==
  run.step = "deciding" /\ breached # Absent
    => run.now # Absent /\ ~Breach(breached, run.now)

(* A refused session heals: a lane that is neither halted nor out of       *)
(* TRADING is not refused for ever, whatever its old rows hold.            *)
RefusalsHeal == []<>(run.step = "deciding" \/ State # "TRADING" \/ lifecycle = "HALTED")

(* The first row of the session is what the loss of the day is measured    *)
(* against (RiskLimits.daily_loss_frac).                                   *)
DayLossHalts ==
  \A k \in DOMAIN rows :
    run.step = "deciding" /\ LossPct > 0 /\ rows[k].today /\ Usable(rows[k].equity)
    /\ (\A j \in (k + 1)..Len(rows) : ~(rows[j].today /\ Usable(rows[j].equity)))
      => ~Breach(rows[k].equity, run.now)

=============================================================================
