------------------------------- MODULE Trail -------------------------------
(***************************************************************************)
(* The exit rules of momentum_rotation (exits.py evaluate_exits) and the   *)
(* life of one position's trail in the session runner: seeded by the fill  *)
(* or by adoption, evaluated by every run of a slot, saved only by the run *)
(* whose decision row was won, dropped when the position closes.           *)
(*                                                                         *)
(* Prices are whole numbers and one ATR is Atr of them; a rule of Rules    *)
(* that is 0 is not configured. Fractions of a price are in tenths.        *)
(***************************************************************************)
EXTENDS Integers, FiniteSets

CONSTANTS
  Tasks,      \* runs of one slot that may be in flight together
  Prices,     \* bound: the prices of the symbol
  Atr,        \* its average true range
  Rules,      \* ExitConfig: the rules configured, by name
  MaxSlots,   \* bound: decision slots followed
  Unpriced,   \* the symbol may have neither a quote nor a close
  Dies,       \* a run may end between two steps: a gate, a stalled write, a crash
  Stops,      \* a protective stop may close the position
  EmptyReads  \* the account may be read as holding nothing at all

RuleNames == {"stopLoss", "takeProfit", "fadeOff", "fadeConfirm", "lowerHighs", "maxHold",
              "stall", "offPeak", "giveBack", "confirm", "minPeak"}

PricesAssumption == Prices \subseteq Nat \ {0} /\ IsFiniteSet(Prices) /\ Prices # {}
RulesAssumption == Rules \in [RuleNames -> Nat] /\ Atr \in Nat \ {0}
SlotsAssumption == MaxSlots \in Nat \ {0}

VARIABLES
  position,  \* what is held, its entry and the best price it has really seen
  row,       \* the trail on record, or none
  task,      \* [Tasks -> the run in flight]
  slot,      \* decision slots begun
  decided,   \* the slot has its decision row
  wins,      \* decision rows won since the row was inserted
  rose,      \* a won decision of this position saw a price above the record's peak
  breaches,  \* won decisions in a row that saw the give-back breached
  verdict    \* what the last won decision said of the position

vars == <<position, row, task, slot, decided, wins, rose, breaches, verdict>>

Known == Prices \cup {0}
Flat == [held |-> FALSE, entry |-> 0, top |-> 0]

-----------------------------------------------------------------------------
(* TrailState. A price of 0 is one not known yet.                          *)
Fresh(entry, peak, quality) ==
  [entry |-> entry, peak |-> peak, held |-> 0, since |-> 0, high |-> 0, last |-> 0,
   lower |-> 0, off |-> 0, back |-> 0, quality |-> quality]

None == Fresh(0, 0, "none")

Trustworthy(st) == st.quality # "adopted"

Best(a, b) == IF a >= b THEN a ELSE b
Atleast(count, cap) == cap > 0 /\ count >= cap

(* favourable_gain and gave_back for a long: gains over the entry, so the  *)
(* entry divides out.                                                      *)
GaveBack(st, px) ==
  st.peak > st.entry /\ 10 * (px - st.entry) <= (10 - Rules.giveBack) * (st.peak - st.entry)

(* The trail after one more close at px, with the day's high hi.           *)
Advance(st, px, hi) ==
  LET high == Best(IF st.high > 0 THEN st.high ELSE st.peak, hi)
      off  == Rules.fadeOff > 0 /\ 10 * px <= high * (10 - Rules.fadeOff)
      new  == px > st.peak
  IN [st EXCEPT !.peak = Best(st.peak, px), !.held = @ + 1,
                !.since = IF new THEN 0 ELSE @ + 1,
                !.high = high, !.last = hi,
                !.lower = IF st.last > 0 /\ hi < st.last THEN @ + 1 ELSE 0,
                !.off = IF off THEN @ + 1 ELSE 0,
                !.quality = IF new /\ ~Trustworthy(st) THEN "live" ELSE @]

StoppedOut(st, px) == Rules.stopLoss > 0 /\ st.entry - px >= Rules.stopLoss * Atr
TookProfit(st, px) == Rules.takeProfit > 0 /\ px - st.entry >= Rules.takeProfit * Atr

(* peak_fade; an unset confirmation reads as two.                          *)
Faded(st) ==
  \/ Atleast(st.lower, Rules.lowerHighs)
  \/ Rules.fadeOff > 0 /\ st.off >= (IF Rules.fadeConfirm = 0 THEN 2 ELSE Rules.fadeConfirm)

OffPeak(st, px) == Rules.offPeak > 0 /\ 10 * px < st.peak * (10 - Rules.offPeak)

(* _peak_is_big_enough.                                                    *)
BigEnough(st) == Rules.minPeak = 0 \/ st.peak - st.entry >= Rules.minPeak * Atr

(* The rules before give-back, in the order the code asks them.            *)
Earlier(st, px) ==
  CASE StoppedOut(st, px) \/ TookProfit(st, px) -> "entry"
    [] Trustworthy(st) /\ Faded(st) -> "peak"
    [] Atleast(st.held, Rules.maxHold) \/ Atleast(st.since, Rules.stall) -> "time"
    [] Trustworthy(st) /\ OffPeak(st, px) -> "peak"
    [] OTHER -> "hold"

(* The give-back counter moves only when no earlier rule has spoken and    *)
(* the peak may be trusted.                                                *)
AsksGiveBack(st, px) == Earlier(st, px) = "hold" /\ Trustworthy(st) /\ Rules.giveBack > 0

Counted(st, px) ==
  IF AsksGiveBack(st, px) THEN [st EXCEPT !.back = IF GaveBack(st, px) THEN @ + 1 ELSE 0] ELSE st

(* evaluate_exits for one symbol with a price: the trail after it, and the *)
(* kind of rule that exits.                                                *)
Evaluated(st, px, hi) ==
  LET st1 == Counted(Advance(st, px, hi), px)
      need == IF Rules.confirm = 0 THEN 1 ELSE Rules.confirm
  IN [trail |-> st1,
      exit |-> IF AsksGiveBack(st1, px) /\ BigEnough(st1) /\ GaveBack(st1, px) /\ st1.back >= need
                 THEN "peak" ELSE Earlier(st1, px),
      breached |-> AsksGiveBack(st1, px) /\ GaveBack(st1, px)]

-----------------------------------------------------------------------------
(* _save_state and _load_state: the columns of exec_position_state. The    *)
(* entry is written once, on insert.                                       *)
Saved(old, st) ==
  [Fresh(IF old = None THEN st.entry ELSE old.entry, st.peak, st.quality)
     EXCEPT !.held = st.held, !.since = st.since]

Idle == [step |-> "idle", trail |-> None, exit |-> "hold", breached |-> FALSE, new |-> FALSE, up |-> FALSE]

(* A position with no row: the broker's entry when it has one, and a peak  *)
(* declared unknown.                                                       *)
Adopted(entry, px) == Fresh(entry, px, "adopted")

Start(px) == IF row = None THEN Adopted(position.entry, px) ELSE row

Init ==
  /\ position = Flat /\ row = None
  /\ task = [t \in Tasks |-> Idle]
  /\ slot = 1 /\ decided = FALSE
  /\ wins = 0 /\ rose = FALSE /\ breaches = 0 /\ verdict = "hold"

Goto(t, r) == task' = [task EXCEPT ![t] = r]

(* Mutant: claims the account no longer backs are kept.                    *)
KeptAnyway(empty) == row

(* run() retires a claim whose position is gone, unless the whole account  *)
(* read came back empty.                                                   *)
Reconciled(empty) == IF ~position.held /\ ~empty THEN None ELSE row

(* A run that reconciled buys, and the order fills at px. The claim's      *)
(* insert seeds the trail; on a row that is still there it moves the       *)
(* quantity and nothing else.                                              *)
Buy(px, empty) ==
  LET left == Reconciled(empty)
  IN /\ ~position.held /\ slot < MaxSlots /\ (empty => EmptyReads)
     /\ \A t \in Tasks : task[t].step = "idle"
     /\ position' = [held |-> TRUE, entry |-> px, top |-> px]
     /\ row' = (IF left = None THEN Fresh(px, px, "adopted") ELSE left)
     /\ wins' = (IF left = None THEN 0 ELSE wins)
     /\ rose' = FALSE /\ breaches' = 0 /\ verdict' = "hold"
     /\ UNCHANGED <<task, slot, decided>>

(* The claim was never written (the process died on the fill).             *)
BuyUnrecorded(px) ==
  /\ Dies /\ ~position.held /\ row = None /\ slot < MaxSlots
  /\ \A t \in Tasks : task[t].step = "idle"
  /\ position' = [held |-> TRUE, entry |-> px, top |-> px]
  /\ rose' = FALSE /\ breaches' = 0 /\ verdict' = "hold" /\ wins' = 0
  /\ UNCHANGED <<row, task, slot, decided>>

(* A run of the slot evaluates the position and holds the result back.     *)
Evaluate(t, px, hi) ==
  /\ position.held /\ ~decided /\ task[t].step = "idle"
  /\ LET e == Evaluated(Start(px), px, hi)
     IN Goto(t, [step |-> "evaluated", trail |-> e.trail, exit |-> e.exit, breached |-> e.breached,
                 new |-> row = None, up |-> px > Start(px).peak])
  /\ position' = [position EXCEPT !.top = Best(@, px)]
  /\ UNCHANGED <<row, slot, decided, wins, rose, breaches, verdict>>

(* No price: the trail is handed back as it was.                           *)
EvaluateUnpriced(t) ==
  /\ Unpriced /\ position.held /\ row # None /\ ~decided /\ task[t].step = "idle"
  /\ Goto(t, [Idle EXCEPT !.step = "evaluated", !.trail = row])
  /\ UNCHANGED <<position, row, slot, decided, wins, rose, breaches, verdict>>

(* The decision row is won ...                                             *)
Win(t) ==
  /\ task[t].step = "evaluated" /\ ~decided
  /\ decided' = TRUE
  /\ wins' = (IF task[t].new THEN 1 ELSE wins + 1)
  /\ rose' = (rose \/ task[t].up)
  /\ breaches' = (IF task[t].breached THEN breaches + 1 ELSE 0)
  /\ verdict' = task[t].exit
  /\ Goto(t, [task[t] EXCEPT !.step = "won"])
  /\ UNCHANGED <<position, row, slot>>

(* ... or lost to a run that was faster, and the advance is thrown away.   *)
Lose(t) ==
  /\ task[t].step = "evaluated" /\ decided
  /\ Goto(t, Idle)
  /\ UNCHANGED <<position, row, slot, decided, wins, rose, breaches, verdict>>

(* _persist_pending_trail.                                                 *)
Persist(t) ==
  /\ task[t].step = "won"
  /\ row' = Saved(row, task[t].trail)
  /\ Goto(t, [task[t] EXCEPT !.step = "saved"])
  /\ UNCHANGED <<position, slot, decided, wins, rose, breaches, verdict>>

(* The exit is sent, fills, and the claim of a flat book is dropped; or    *)
(* there was none, or it was refused.                                      *)
Submit(t, sold) ==
  /\ task[t].step = "saved"
  /\ sold => task[t].exit # "hold" /\ position.held
  /\ Goto(t, Idle)
  /\ position' = (IF sold THEN Flat ELSE position)
  /\ row' = (IF sold THEN None ELSE row)
  /\ UNCHANGED <<slot, decided, wins, rose, breaches, verdict>>

(* A gate refused after the evaluation, the save stalled, the process died.*)
Die(t) ==
  /\ Dies /\ task[t].step # "idle"
  /\ Goto(t, Idle)
  /\ UNCHANGED <<position, row, slot, decided, wins, rose, breaches, verdict>>

(* A protective stop fills and its event drops the claim.                  *)
StopFills ==
  /\ Stops /\ position.held
  /\ position' = Flat /\ row' = None
  /\ UNCHANGED <<task, slot, decided, wins, rose, breaches, verdict>>

(* Slots are far enough apart that a run has ended when the next begins.   *)
NextSlot ==
  /\ slot < MaxSlots /\ \A t \in Tasks : task[t].step = "idle"
  /\ slot' = slot + 1 /\ decided' = FALSE
  /\ UNCHANGED <<position, row, task, wins, rose, breaches, verdict>>

Next ==
  \/ \E px \in Prices : BuyUnrecorded(px) \/ \E empty \in BOOLEAN : Buy(px, empty)
  \/ \E t \in Tasks :
       \/ \E px, hi \in Prices : Evaluate(t, px, hi)
       \/ EvaluateUnpriced(t) \/ Win(t) \/ Lose(t) \/ Persist(t) \/ Die(t)
       \/ \E sold \in BOOLEAN : Submit(t, sold)
  \/ StopFills
  \/ NextSlot

Spec == Init /\ [][Next]_vars

-----------------------------------------------------------------------------
Qualities == {"none", "adopted", "live"}
Trails ==
  [entry : Known, peak : Known, held : Nat, since : Nat, high : Known, last : Known,
   lower : Nat, off : Nat, back : Nat, quality : Qualities]
Exits == {"hold", "entry", "peak", "time"}

TypeOK ==
  /\ position \in [held : BOOLEAN, entry : Known, top : Known]
  /\ row \in Trails
  /\ task \in [Tasks -> [step : {"idle", "evaluated", "won", "saved"}, trail : Trails, exit : Exits,
                        breached : BOOLEAN, new : BOOLEAN, up : BOOLEAN]]
  /\ slot \in 1..MaxSlots /\ decided \in BOOLEAN
  /\ wins \in Nat /\ breaches \in Nat /\ rose \in BOOLEAN /\ verdict \in Exits

(* The trail on record is the trail of the position that is held: its own  *)
(* entry, and a peak this position has really seen. A save that lands after*)
(* the position was stopped out, a claim insert that moves the quantity    *)
(* alone and a reconciliation that retires nothing could each lend it the  *)
(* memory of an earlier holding.                                           *)
TrailIsThisPosition ==
  position.held /\ row # None => row.entry = position.entry /\ row.peak <= position.top

(* A rule measured from the peak sells only a position that has been seen, *)
(* by a decision that counted, above the peak its record began with: an    *)
(* adopted peak is not acted on until it is real (#197 B1).                *)
PeakIsEarned == verdict = "peak" => rose

(* The counters of the trail count decisions: a run that lost the decision *)
(* row, was blocked or died ages no position (runner.py: "counting it      *)
(* against max_hold_days would age positions out of the book").            *)
DecisionsAreCounted == row # None => row.held <= wins /\ row.since <= row.held

(* The three together: the trail a decision is taken from is one this      *)
(* position has earned.                                                    *)
TrailIsEarned == TrailIsThisPosition /\ PeakIsEarned /\ DecisionsAreCounted

(* A give-back that held for as many decisions in a row as configured      *)
(* sells the position. REFUTED when the confirmation is two or more: the   *)
(* counter is not one of the columns that are saved.                       *)
ConfirmedIsSold == Rules.confirm > 0 /\ breaches >= Rules.confirm => verdict # "hold"
=============================================================================
