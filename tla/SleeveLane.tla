----------------------------- MODULE SleeveLane -----------------------------
(***************************************************************************)
(* The SMH/GLD sleeve (smhgld_sleeve) and the template a lane is copied    *)
(* from (template).  An alert a session hands the panel to the lane's      *)
(* runner.  The sleeve's plan is one order per leg toward a weight of its  *)
(* equity, and its book follows what the cache shows at each event; the    *)
(* template sells what it no longer wants, buys a slot of what it does,    *)
(* and its book follows what it had reserved.                              *)
(*                                                                         *)
(* The sleeve's runner is not in this repository: it executes the deltas,  *)
(* as this package requires of it.  A claim is the row itself; how writes  *)
(* of it race and fail is ClaimWriter's subject.  What a process keeps, its *)
(* coroutines and its handlers among them, is gone with it.  env says what *)
(* this behaviour's surroundings do.                                       *)
(***************************************************************************)
EXTENDS Integers, FiniteSets, FiniteSetsExt, Functions

CONSTANTS
  Legs,        \* the universe
  Weight,      \* target weights, in parts of Whole
  Band,        \* drift_band, in parts of Whole
  Lot, Size,   \* of the template: portfolio_size
  Prices, Cash,
  Moving,      \* bound: the legs whose price moves
  Need,        \* warmup_bars_needed
  MaxStale,    \* max_stale_days
  PeriodOf,    \* the template's rebalance period of a session
  Days,        \* bound: the last session
  Envs         \* the surroundings explored, sets of
               \* {"parts", "cancels", "stops", "restarts", "outages", "blind"}

Whole == SumFunctionOnSet(Weight, Legs)

WeightsAssumption ==
  /\ IsFiniteSet(Legs) /\ Weight \in [Legs -> Nat \ {0}] /\ Band \in Nat
  /\ Prices \subseteq Nat \ {0} /\ Prices # {} /\ Moving \subseteq Legs
  /\ Lot \in Nat \ {0} /\ Size \in Nat \ {0} /\ Cash \in Nat

VARIABLES
  lane,       \* which of the two
  env,
  reserves,   \* the runner writes _pending
  day, open,  \* the session, and whether its slot is still to come
  price,      \* the venue's prices now
  bars,       \* the dates of the panel, per leg
  close,      \* the last completed close in it, per leg
  held, pending, claim,
  pos, cash, live,
  task,       \* the panel a session was started with
  missed,
  awake,      \* the process is up
  writes,     \* claim writes on their way, <<leg, quantity>>
  unsaid      \* legs of which an event was heard by nobody, could not be read,
              \* or left a claim write that died

vars == <<lane, env, reserves, day, open, price, bars, close, held, pending, claim, pos, cash,
          live, task, missed, awake, writes, unsaid>>
known == <<awake, writes, unsaid>>

None == [l \in Legs |-> ""]
Flat == [l \in Legs |-> 0]
Shown == {l \in Legs : pos[l] # 0}
NoTask == [day |-> 0, close |-> Flat]

Value(q, p) == SumFunctionOnSet([l \in Legs |-> q[l] * p[l]], Legs)
Equity == cash + Value(pos, price)

Init ==
  /\ lane \in {"sleeve", "template"} /\ env \in Envs /\ reserves \in BOOLEAN
  /\ lane = "template" => reserves
  /\ day = 1 /\ open = TRUE /\ price = [l \in Legs |-> Min(Prices)]
  /\ bars \in {[l \in Legs |-> history] : history \in {{}, {0}}} /\ close = price
  /\ held = {} /\ pending = None /\ claim = Flat
  /\ pos = Flat /\ cash = Cash /\ live = Flat
  /\ task = NoTask /\ missed = {}
  /\ awake = TRUE /\ writes = {} /\ unsaid = {}

-----------------------------------------------------------------------------
(* engine.py of the sleeve, in whole numbers.                              *)

Abs(n) == IF n < 0 THEN -n ELSE n

(* decide: drift is measured on the completed closes of the panel.         *)
Regime(have, shares, c) ==
  LET total == Value(shares, c)
      drift(l) == Abs(shares[l] * c[l] * Whole - Weight[l] * total)
  IN  IF have = {} THEN "opening"
      ELSE IF total <= 0 THEN "unknown"
      ELSE IF have = Legs /\ \A l \in Legs : drift(l) <= Band * total THEN "on_target"
      ELSE "rebalance"

(* Mutant: a delta is rounded away from the holding.                       *)
DeltaUp(l, shares, p, equity) ==
  LET over == Weight[l] * equity - shares[l] * Whole * p[l]
      size == ((Abs(over) + Whole * p[l] * Lot - 1) \div (Whole * p[l] * Lot)) * Lot
  IN  IF over > 0 THEN size ELSE -size

(* The delta of a leg, rounded toward what is held.                        *)
Delta(l, shares, p, equity) ==
  LET over == Weight[l] * equity - shares[l] * Whole * p[l]
      size == (Abs(over) \div (Whole * p[l] * Lot)) * Lot
  IN  IF over > 0 THEN size ELSE -size

OrderPlan(regime, shares, p, equity) ==
  IF regime \in {"opening", "rebalance"}
  THEN [l \in Legs |-> Delta(l, shares, p, equity)] ELSE Flat

-----------------------------------------------------------------------------
(* The session.                                                            *)

(* Bars are served once their session is complete; a template reads        *)
(* today's, if it is there by its slot.  What comes while the process is   *)
(* down, it asks for when it starts.                                       *)
Ingest(l) ==
  /\ bars' = [bars EXCEPT ![l] = @ \cup {day}]
  /\ close' = [close EXCEPT ![l] = price[l]]
  /\ ~open \/ lane = "template"
  /\ day \notin bars[l]
  /\ UNCHANGED <<lane, env, reserves, day, open, price, held, pending, claim, pos, cash, live,
                 task, missed, known>>

Warm ==
  IF lane = "sleeve" THEN \A l \in Legs : Cardinality(bars[l]) >= Need
  ELSE Cardinality({l \in Legs : Cardinality(bars[l]) >= Need}) >= Size

Panel == UNION {bars[l] : l \in Legs}

(* _refuse_a_stale_feed, on the newest bar of any leg.                     *)
Stale == day - Max(Panel) > MaxStale

(* _is_rebalance: the sleeve's cadence is a day, and _with_a_row_for has   *)
(* given the session a row; the template's session must have its own.      *)
IsRebalance ==
  \/ lane = "sleeve"
  \/ /\ day \in Panel
     /\ \A d \in Panel : PeriodOf[d] = PeriodOf[day] => day <= d

(* _on_session_alert                                                       *)
SessionAlert ==
  /\ awake /\ open /\ open' = FALSE
  /\ IF ~Warm THEN UNCHANGED <<task, missed>>
     ELSE IF lane = "sleeve" /\ Stale THEN missed' = missed \cup {day} /\ UNCHANGED task
     ELSE /\ UNCHANGED missed
          /\ task' = IF IsRebalance THEN [day |-> day, close |-> close] ELSE task
  /\ UNCHANGED <<lane, env, reserves, day, price, bars, close, held, pending, claim, pos, cash,
                 live, known>>

(* A price may move between a decision and its fills, and over a night.    *)
PriceMoves ==
  /\ \E l \in Moving, p \in Prices : price' = [price EXCEPT ![l] = p]
  /\ UNCHANGED <<lane, env, reserves, day, open, bars, close, held, pending, claim, pos, cash,
                 live, task, missed, known>>

NextDay ==
  /\ ~open \/ ~awake
  /\ task = NoTask /\ live = Flat /\ day < Days
  /\ "outages" \in env \/ \A l \in Legs : day \in bars[l]
  /\ day' = day + 1 /\ open' = TRUE
  /\ \E p \in [Moving -> Prices] : price' = [l \in Legs |-> IF l \in Moving THEN p[l] ELSE price[l]]
  /\ UNCHANGED <<lane, env, reserves, bars, close, held, pending, claim, pos, cash, live, task,
                 missed, known>>

-----------------------------------------------------------------------------
(* The runners.                                                            *)

Kind(n) == IF n > 0 THEN "enter" ELSE "exit"

Submit(orders) ==
  /\ live' = [l \in Legs |-> live[l] + orders[l]]
  /\ pending' = IF ~reserves THEN pending
                ELSE [l \in Legs |-> IF orders[l] = 0 THEN pending[l] ELSE Kind(orders[l])]

SleeveRuns ==
  /\ lane = "sleeve" /\ task # NoTask /\ task' = NoTask
  /\ Submit(OrderPlan(Regime(Shown, pos, task.close), pos, price, Equity))
  /\ UNCHANGED <<lane, env, reserves, day, open, price, bars, close, held, claim, pos, cash,
                 missed, known>>

(* TemplateSessionRunner.run: exits in full, a slot of each entry, of an   *)
(* equity there is.                                                        *)
TemplateRuns ==
  /\ lane = "template" /\ task # NoTask /\ task' = NoTask
  /\ \E want \in SUBSET Legs :
       /\ Cardinality(want) <= Size
       /\ Submit([l \in Legs |->
            IF l \in Shown \ want THEN -pos[l]
            ELSE IF l \in want \ Shown /\ Equity > 0
                 THEN (Equity \div Size) \div price[l] ELSE 0])
  /\ UNCHANGED <<lane, env, reserves, day, open, price, bars, close, held, claim, pos, cash,
                 missed, known>>

-----------------------------------------------------------------------------
(* What the venue answers.  A handler runs with its event, if the process  *)
(* is up; a quantity the cache does not give is answered None ("blind").   *)

Completes(intent, n) == intent = "" \/ intent = Kind(n)

(* Mutant: the sleeve's book follows its reservation too.                  *)
BookByIntent(l, q) == IF pending[l] = "exit" THEN held \ {l} ELSE held \cup {l}

(* _claim_qty_after_event: held if the cache shows a quantity.             *)
BookByQty(l, q) == IF q = 0 THEN held \ {l} ELSE held \cup {l}

(* _sync_claim_to_book: a coroutine to write the claim, the newest of a    *)
(* leg last.                                                               *)
Says(l) == writes' = {w \in writes : w[1] # l} \cup {<<l, pos'[l]>>}

(* Nobody takes the event in.                                              *)
Misses(l) ==
  unsaid' = unsaid \cup {l} /\ UNCHANGED <<pending, held, writes>>

SleeveFilled(l, n) ==
  \/ /\ awake
     /\ IF Completes(pending[l], n)
        THEN /\ pending' = [pending EXCEPT ![l] = ""] /\ held' = BookByQty(l, pos'[l])
             /\ Says(l) /\ unsaid' = unsaid \ {l}
        ELSE UNCHANGED <<pending, held, writes, unsaid>>
  \/ (~awake \/ "blind" \in env) /\ Misses(l)

TemplateFilled(l, n) ==
  /\ IF awake /\ Completes(pending[l], n)
     THEN pending' = [pending EXCEPT ![l] = ""] /\ held' = BookByIntent(l, pos'[l])
     ELSE UNCHANGED <<pending, held>>
  /\ UNCHANGED <<writes, unsaid>>

Sizes(n) == IF "parts" \in env THEN 1..Abs(n) ELSE {Abs(n)}

Filled(l) ==
  /\ live[l] # 0
  /\ \E n \in Sizes(live[l]) :
       LET signed == IF live[l] > 0 THEN n ELSE -n
       IN  /\ signed < 0 => pos[l] >= n
           /\ live' = [live EXCEPT ![l] = @ - signed]
           /\ pos' = [pos EXCEPT ![l] = @ + signed]
           /\ cash' = cash - signed * price[l]
           /\ IF lane = "sleeve" THEN SleeveFilled(l, signed) ELSE TemplateFilled(l, signed)
  /\ UNCHANGED <<lane, env, reserves, day, open, price, bars, close, claim, task, missed, awake>>

(* Rejected or denied.  The event has no price, and without one the sleeve *)
(* states the claim of an empty leg only.                                  *)
Refused(l) ==
  /\ live[l] # 0 /\ live' = [live EXCEPT ![l] = 0]
  /\ pending' = [pending EXCEPT ![l] = ""]
  /\ UNCHANGED pos
  /\ \/ lane = "sleeve" /\ awake /\ pos[l] = 0 /\ Says(l)
     \/ (lane = "template" \/ ~awake \/ pos[l] # 0 \/ "blind" \in env) /\ UNCHANGED writes
  /\ UNCHANGED <<lane, env, reserves, day, open, price, bars, close, held, claim, cash, task,
                 missed, awake, unsaid>>

(* Canceled or expired: the sleeve has no handler for either.              *)
Lapsed(l) ==
  /\ "cancels" \in env
  /\ live[l] # 0 /\ live' = [live EXCEPT ![l] = 0]
  /\ pending' = IF lane = "template" THEN [pending EXCEPT ![l] = ""] ELSE pending
  /\ UNCHANGED <<lane, env, reserves, day, open, price, bars, close, held, claim, pos, cash,
                 task, missed, known>>

(* protective_close: a stop of another component sells a leg, or part of   *)
(* it.  The template's runner has no claim to sync.                        *)
StopFills(l) ==
  /\ "stops" \in env /\ pos[l] > 0 /\ live[l] = 0
  /\ \E left \in 0..(pos[l] - 1) :
       /\ pos' = [pos EXCEPT ![l] = left]
       /\ cash' = cash + (pos[l] - left) * price[l]
       /\ \/ /\ awake
             /\ held' = IF left = 0 THEN held \ {l} ELSE held
             /\ pending' = IF l \in held /\ left = 0 THEN [pending EXCEPT ![l] = ""] ELSE pending
             /\ IF l \in held /\ lane = "sleeve" THEN Says(l) /\ unsaid' = unsaid \ {l}
                ELSE UNCHANGED <<writes, unsaid>>
          \/ (~awake \/ "blind" \in env) /\ Misses(l)
  /\ UNCHANGED <<lane, env, reserves, day, open, price, bars, close, claim, live, task, missed,
                 awake>>

(* A claim write lands.                                                    *)
Lands(w) ==
  /\ writes' = writes \ {w} /\ claim' = [claim EXCEPT ![w[1]] = w[2]]
  /\ UNCHANGED <<lane, env, reserves, day, open, price, bars, close, held, pending, pos, cash,
                 live, task, missed, awake, unsaid>>

(* The process goes, and with it its book and the coroutines it has out.   *)
Dies ==
  /\ "restarts" \in env /\ awake /\ awake' = FALSE
  /\ held' = {} /\ pending' = None /\ task' = NoTask /\ missed' = {}
  /\ writes' = {} /\ unsaid' = unsaid \cup {w[1] : w \in writes}
  /\ UNCHANGED <<lane, env, reserves, day, open, price, bars, close, claim, pos, cash, live>>

(* on_start: the book is what the cache shows, or nothing if it cannot be  *)
(* read; no claim is stated.  The day's slot may have passed.              *)
Starts ==
  /\ ~awake /\ awake' = TRUE
  /\ open' \in {open, FALSE}
  /\ \/ held' = Shown /\ UNCHANGED unsaid
     \/ "blind" \in env /\ unsaid' = unsaid \cup Shown /\ UNCHANGED held
  /\ UNCHANGED <<lane, env, reserves, day, price, bars, close, pending, claim, pos, cash, live,
                 task, missed, writes>>

Next ==
  \/ SessionAlert \/ PriceMoves \/ NextDay \/ SleeveRuns \/ TemplateRuns \/ Dies \/ Starts
  \/ \E l \in Legs : Ingest(l) \/ Filled(l) \/ Refused(l) \/ Lapsed(l) \/ StopFills(l)
  \/ \E w \in writes : Lands(w)

Spec == Init /\ [][Next]_vars

-----------------------------------------------------------------------------
TypeOK ==
  /\ lane \in {"sleeve", "template"} /\ env \in Envs /\ day \in 1..Days
  /\ \A l \in Legs : bars[l] \subseteq 0..Days
  /\ held \subseteq Legs

(* Whatever comes of its orders - parts, refusals, stops, deaths with      *)
(* orders and claim writes out - the sleeve that is up holds what its book *)
(* says, and with no write on its way its claim is what it holds; but for  *)
(* the legs of which an event was not taken in.  The template's book is    *)
(* right, when orders fill whole in the process that sent them.            *)
Landed(l) == \A w \in writes : w[1] # l
BookIsShown ==
  /\ lane = "sleeve" =>
       /\ awake /\ "blind" \notin env => held = Shown
       /\ \A l \in Legs \ unsaid :
            /\ awake => (l \in held <=> pos[l] # 0)
            /\ Landed(l) => claim[l] = pos[l]
  /\ lane = "template" /\ env \cap {"parts", "restarts", "blind"} = {} => held = Shown

(* The claim part of every leg: what a restart would have to repair.       *)
ClaimSurvivesRestart ==
  lane = "sleeve" /\ "blind" \notin env => \A l \in Legs : Landed(l) => claim[l] = pos[l]

(* "Rounding can only ever leave the sleeve closer to where it already is  *)
(* than to an overshoot it would have to undo": a plan carried out in full *)
(* leaves nothing to do at its prices, sells no leg to nothing, and is     *)
(* short of cash by no more than a lot of each leg above its weight.  Of    *)
(* an equity that is gone no plan is asked.                                *)
Planned(orders) ==
  LET after == [l \in Legs |-> pos[l] + orders[l]]
      sold == {l \in Legs : orders[l] < 0}
      over == {l \in Legs : pos[l] * price[l] * Whole > Weight[l] * Equity}
  IN  /\ OrderPlan("rebalance", after, price, Equity) = Flat
      /\ \A l \in sold : after[l] > 0
      /\ Value(orders, price) <= cash + SumFunctionOnSet([l \in Legs |-> Lot * price[l]], over)
PlanStep ==
  lane = "sleeve" /\ live' # live /\ pos' = pos /\ task' # task /\ Equity > 0
    => Planned([l \in Legs |-> live'[l] - live[l]])
PlanSettles == [][PlanStep]_vars

=============================================================================
