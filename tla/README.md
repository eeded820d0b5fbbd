# Verification of kumo-trading-strategies

TLA+ models of the code in `src/kumo_strategies`, the TLC configurations that check them on
small instances, and theorems checked by TLAPS. `PROJECT.json` lists, by machine, what this
file explains: components, runs, mutants, the source lines of every definition, hazards and
theorems. File and line references below are relative to `src/kumo_strategies/`.

The package trades US equities. Several *lanes* (strategies) run in one NautilusTrader node
against one brokerage account. A lane wakes at its decision *slots*, ranks a symbol pool,
writes its decision to Postgres and sends orders. Money is at stake in what happens between
those steps: a process that dies, a write that stalls, an operator who halts the lane, an
answer that comes late, another lane that trades the same symbol.

## The system

| part | state it keeps | operations |
|---|---|---|
| Claim store (`runtime/executor/store.py`) | `exec_position_state`, one row per (lane, symbol); an `asyncio.Lock` per event loop and key; a Postgres advisory lock | `write_claim` and the statements that go through it: record, adopt, drop, save trail |
| Lifecycle (`runtime/executor/lifecycle.py`) | the lane's state, in memory and in the operator's table | the transition table, `halt`, what each state may submit |
| Retry derivations (`runtime/executor/retry.py`) | none: folds over the journal | `attempts_for`, `already_attempted`, `submitted_ok`, `held_sessions_before` |
| Session runner (`strategies/momentum_rotation/runner.py`) | the journal (decision, intent, result, risk, terminal rows); a run's locals across its awaits | `run`, `_resume`, `_submit`, adoption and retirement of claims, the urgent exits |
| Daily-loss halt (`runtime/executor/daily_loss.py`) | none: decision rows and the lifecycle | `enforce`, `decide`, `baseline`, `anchor` |
| Broker and lane adapters (`runtime/nautilus/broker.py`, `contract.py`, `strategies/momentum_rotation/nautilus.py`) | the node's cache, `_held`, `_pending`, the armed timers and session tasks | submit, exit, the order-event handlers, `protective_close`, arming |
| Symbol pool and jobs (`runtime/executor/pgpool.py`, `pgjobs.py`) | `exec_pool_source`, `exec_pool_refresh`, `exec_pool_override`, `exec_source_spec` | refresh with the shrink guard, failure marks, add and remove, overrides, the derived pool |
| Ownership (claims, attribution, ceilings in `momentum_rotation/runner.py`, `held_seed.py`) | the claims, the legs of the node's cache | adopt, retire, size an exit |
| Trail exits, give-back (`momentum_rotation/exits.py`, `strategies/give_back.py`) | peak, quality and decision counters of a position | evaluate, seed, save, drop |
| Rotation engine (`momentum_rotation/engine.py`) | none | rank, blend, buffer, cluster exits, diversify, weigh and cap |
| Intraday lane (`momentum_rotation/nautilus_intraday.py`) | panel, `_held`, `_pending`, stops, the due slot | bars, slots, flatten, stops, entries and exits |
| Monthly lanes (`qc345_rotation/nautilus.py`, `qc27_tech_inverse_vol/nautilus.py`) | `_due`, `_held`, `_pending`, the month last rebalanced | session alert, bars, decision, trail exits, order events |
| QC27's session runner (`qc27_tech_inverse_vol/runner.py`) | the journal, claims | one decision per slot, exits, entries, claims |
| CRSI short lane (`crsi_short/nautilus.py`) | reservations, `_held`, `_trail` | opening legs, replacements, covers |
| Sleeve and template (`smhgld_sleeve/`, `template/`) | `_held`, `_pending`, claims | one plan per alert, order events |
| Market view, envelope, events (`strategies/market_view.py`, `market_aware.py`, `market_events.py`, `envelope.py`) | bars kept, last poll | a view, an assessment, events of their changes |
| Calendar, slot re-read, symbol resolution, sources | little or none | lookups and date arithmetic |
| Backtesting, evaluation, provenance, CLI | offline | simulation and reports |

**How they interact.** A slot timer, a source timer and the urgent check of the lane adapter
start coroutines on one event loop. A session run reads positions and claims, awaits the
journal at every write, and calls the broker synchronously. The venue answers later through
order events, whose handlers start further coroutines: one writes a terminal row, one writes
the claim. The operator's API is another process that writes the lifecycle, the overrides and
the sources. Everything shared is a Postgres row or the node's cache, so what can go wrong is
mostly an *order*: a value read before an await and used after it, rows that land in the order
their coroutines happen to run, a restart between two of them.

What makes each part correct:

- *claims*: the row ends as the last call of a loop left it; a caller is told the truth; a
  hanging database does not wedge the lane;
- *session*: nothing is sent without a record; one decision per slot; a retry never stands
  beside the order it retries; entries wait for the exits that fund them; a halted lane buys
  nothing;
- *daily loss*: a loss is measured against the newest usable equity, a halt that was not saved
  still stops the lane, and a refusal heals;
- *held sessions*: the wait for refused exits is long enough and ends;
- *pool*: a refresh replaces the whole set, and no set collapses unsaid;
- *timers*: no slot is passed over in silence, a lane that runs is armed, one that is stopped does
  nothing;
- *ownership*: no lane sells another's shares, and each can get out of its own;
- *overrides*: an exclusion holds, whatever pin is set beside it;
- *trail*: the memory a position is sold on is its own, and counts decisions;
- *the other lanes*: a due session is neither lost nor taken twice; book, reservations and
  claims are what is held and what is out; no order doubles or over-closes a position; a plan
  that is carried out leaves nothing to do;
- *rotation*: the book is filled and not overfilled, the strongest first, no two names of it are
  one bet, no weight exceeds the cap;
- *market*: a lane that has the bars has a view, and who hears the events knows it.

## Modules

| module | what it is | from |
|---|---|---|
| `ClaimRow` | the claim row and its statements | `store.py` |
| `ClaimRegister` | abstract specification: calls applied at most once, atomically, in call order per loop | the docstring of `write_claim`, as its code delivers it |
| `ClaimWriter` | `write_claim`: both locks, timeout, grace waits, cancels, process death, Postgres's side of each transaction; implements `ClaimRegister` | `store.py` |
| `ClaimWriterProofs` | its theorems | |
| `Lifecycle` | states, permissions, transition table | `lifecycle.py` |
| `Retry` | the derivations over one session's journal | `retry.py` |
| `SessionRunner` | the run of a slot with journal, broker, venue, operator and crashes; uses `Retry` and `Lifecycle` | `momentum_rotation/runner.py`, `broker.py`, `nautilus.py` |
| `SessionRunnerProofs` | its theorems: what is on record, planned and confirmed; and for one slot, second orders, funding, suppression | |
| `DailyLoss` | `enforce` over a lane's decision rows, sessions and operator | `daily_loss.py`, `qc27_tech_inverse_vol/runner.py` |
| `HeldStreak` | `held_sessions_before` and the gate whose rows it reads | `retry.py`, `runner.py` |
| `PoolSource` | one source: refresh, guard, removal and failure, statement by statement | `pgpool.py`, `pgjobs.py` |
| `LaneTimers` | when a lane decides: arming and its retries, the session alert, the session tasks, stop and restart | `contract.py`, `nautilus.py`, `runtime/calendar.py` |
| `LaneTimersProofs` | its theorems | |
| `Ownership` | claims, legs and what each lane may sell of one symbol | `runner.py`, `contract.py`, `nautilus.py`, `held_seed.py` |
| `PoolOverrides` | PIN and EXCLUDE of one symbol, statement by statement, and the derived pool | `pgpool.py` |
| `Trail` | `evaluate_exits` and the life of one position's trail in the runner | `exits.py`, `give_back.py`, `runner.py` |
| `Rotation` | `decide`: overlay, buffer, cluster exits, the correlation walk, weights and their cap, the gap filter | `engine.py` |
| `IntradayLane` | the intraday lane on its bars | `nautilus_intraday.py` |
| `RebalanceLane` | the adapters of the two monthly lanes | `qc345_rotation/`, `qc27_tech_inverse_vol/` |
| `RebalanceProofs` | its theorems | |
| `MonthlyRunner` | QC27's session runner, with journal, operator and claims; uses `Lifecycle` | `qc27_tech_inverse_vol/runner.py` |
| `ShortLane` | the CRSI short lane's slots and reservations | `crsi_short/nautilus.py` |
| `SleeveLane` | the SMH/GLD sleeve and the template lane | `smhgld_sleeve/`, `template/` |
| `MarketView` | the view, the envelope and the events made of both | `market_view.py`, `market_aware.py`, `envelope.py`, `market_events.py` |
| `Recovery`, `RecoveryProofs` | `Ownership` and `DailyLoss` side by side, and the theorems of both | |
| `Records`, `RecordsProofs` | `PoolSource`, `HeldStreak`, `PoolOverrides`, `Trail` and `MarketView` side by side, and their theorems | |
| `Lanes`, `LanesProofs` | `MonthlyRunner`, `ShortLane`, `SleeveLane`, `IntradayLane` and `Rotation` side by side, and their theorems | |
| `SumTheorems` | laws of folds over sets, of `SumFunctionOnSet` and of orders, for the proofs | |
| `MC*` | the instances TLC checks | |

`Recovery`, `Records` and `Lanes` hold several components that share nothing: `which` names the one
a behaviour is of, and the others stay where they begin. One run is then the check of each of them,
and a property of one says nothing of the others. They are parametric, so that what is proved of a
component is proved of the very specification its run checks; `MCRecovery`, `MCRecords` and
`MCLanes` only give the constants their values. (That they share nothing in the code either is why
they are not composed: each lane has a book of its own, and what lanes do share - claims, the pool -
is in `Ownership`, `ClaimWriter` and `PoolSource`.)

A definition whose comment begins with "Mutant:" is not part of a model. It is a plausible bug
in the definition next to it, and `PROJECT.json` pairs it with the property that it breaks.

### ClaimWriter

A call of `write_claim` has two sides that can disagree: `ctl`, the coroutine (waiting for the
loop's FIFO lock, running, in the grace wait after a timeout or a cancel, answered), and `tx`,
the transaction as Postgres has it (connecting, queued for the advisory lock, open, COMMIT
sent, to be undone, ended). `Timeout`, `ExternalCancel` and `Crash` move `ctl` at once and `tx`
only as far as a cancel can: a COMMIT that was sent cannot be recalled. `GraceOver` releases
the in-process lock whether or not the rollback ended, as the code does. `seen` is what the
transaction read under the lock. The row keeps its quantity and one counter (`age`) that
stands for the trail's memory.

### SessionRunner

One lane, one session, any number of slots. `run[p]` is what a session task holds in its
locals; every await of the code is a point between two actions. `ReadBook`, `Urgent`,
`Resume`, `Decide` and `WriteDecision` are the head of `run()`; `Recheck` is
`_state_changed_under_us`; `ReadTail` to `SellResult` and `IntendEntry` to `BuyResult` are the
two loops of `_submit` with the `Gate` between them; `Suppress` is the unsupported-rule branch.
The ranking is any choice of exits and entries the engine's own limits allow. An order is
identified by (slot, symbol, side, attempt), which is what `client_order_id` hashes; `orders`
is what the venue made of it; `due` holds answers whose terminal row is not written yet and
may never be. `Crash` covers `on_stop` and process death at any await.

### DailyLoss

Decision rows with the equity they recorded (a level, no key at all, or a value that is not a
finite number), the lane's own lifecycle and the stored one, and the run in flight. `Check` is
`enforce`; `Decide` writes the row that becomes the next anchor. `Hooked` tells the runner that
hands over a persistence hook and reads the stored state from the one that keeps its own. The
hook may fail. The RISK rows that should say so are best effort: `PgJournal.write` answers `None`
when it could not write one (`pgjournal.py:67`), which `enforce` does not look at, so a halt that
was not saved may also go unsaid. They are left out, and what is asked of such a halt is that
it stands: `breached` is a history variable, the equity the last halt measured against until a
decision is on record, and no run may trade below the limit of that.

### HeldStreak

The lane's risk rows, newest first, as a sequence; `Held` is the fold of
`held_sessions_before` written as what it computes, including that a released row cancels only
the rows newer than itself.

### PoolSource

The guard of a refresh runs in one transaction and the replacement in another; the DELETE sees
what is committed when it starts, waits for locked rows and skips those that went meanwhile,
as READ COMMITTED has it. Refreshes come from a timer (creates the source, records failures)
or from a POST (neither, may carry a reason). `last` and `gone` are history variables.

### Ownership

One symbol of the account. `hold` is whose shares they are, as the orders filled; `attr` the
lane's leg in the node's cache, which a restart may lose to EXTERNAL; `claims` the row;
`pending` the claim writes in flight; `book` who has the symbol in `_held`; `elsewhere` who has
a leg in another symbol, which is all that the rest of the account changes. `Run` is one
session run: adopt, retire, size.

### LaneTimers

`At` gives every slot of every day its time, or none. `window` is the last day the calendar
describes. A question beyond it is answered by `OutsideCalendarWindow`, which every caller catches,
or, where `windowed` is false, by what a fetch over the network raises (`calendar.py:95`): the
arming task then gives up and says so, and an alert's callback ends where it is (`Abort`), its
session not due and the lane without a timer. `armed` and `alert` are the one session alert, `retry`
the timer of a refused re-arm, `arming` the task of `begin_arming`.

Clock callbacks run on the clock's thread and everything else on the loop; `thread` holds where
each is between two reads of shared fields. The alert's re-arm, its marking of `_due`, the
read and the clear of `_try_decide`, the question whether a task runs (`Ask`) and the assignment
of a new one (`StartTask`) are steps of their own. `threaded` says whether the two overlap at
all: the code's comments say that they do, and its `on_stop` is written as if they did not.
`task` is `_session_task`, `live` the tasks that really run, so that one started over another is
still seen. `fate` is a history variable: what became of each occurrence of a slot. It is "told"
of one the lane recorded or announced that it would miss, "dropped" of one that was due when
`on_stop` cleared `_due` without a row (`nautilus.py:412`), "lost" of one that an aborted callback
took with it or that came to a lane that nothing will arm.

### RebalanceLane

`armed` and `due` are the session alert and `_due`; `bars` the dates of the panel; `book` puts
`_held`, `_pending` and the orders at the venue together, with what each order's client id says
it was meant as. `Alert`, `OnBar`, `OnHistory` and the order events all end in `_try_decide`,
which is `TryDecide` of the two lanes. `fired`, `missed`, `deferred`, `skipped` and `decided`
account for what became of every session. `env` is one behaviour's trouble: orders that fill
in parts, stops of another component that race the lane's exit, a restart, an edit of the
offset, or callbacks that overlap. Under a trouble only what the code promises of it is asked.

Where callbacks overlap, the alert rings on the clock's thread beside bars and order events on the
loop: `AlertFires` re-arms and asks whether a session is still due, `AlertSays` records that one,
`AlertMarks` makes its own session due, and `_try_decide` has the guard and the rest (`GoesOn`)
apart, with `_due` read anew. From the read in `GoesOn` to the orders is one step, and time does not
pass while a callback is halfway. Of such a host only `HeldBackIsServed` is asked; what it breaks is
`MonthAccountedAnywhere` (divergences).

### MonthlyRunner

`ReadState` to `WriteClaim` are the awaits of `run()`. An order is named by symbol and side, which
is all its client id has besides the slot. `sure` marks an order sent by a run that had looked at
the operator's state again. `due` holds the handlers' claim writes, which the loop runs in any order
beside the run's own claim. They die with the adapter's process (`Dies`, `awake`): while it is down
the venue goes on and no handler hears it, and `on_start` states no claim (`Starts`). `unsaid`
collects the names whose last event came to nobody or left a write that died.

### ShortLane

`clock` has the session in three parts: before the opening cross, trading, shut. `leg` is what
the auction leg of a name came to and `intent` what the session runner, which is another
repository's, has yet to send of the lane's `session_intent`. `SendCover`, `SendOpening` and
`SendReplacement` reserve at submit; `Fills` and `Ends` are the order events; `OnStart` rebuilds
the reservations from the cache.

### SleeveLane

`OrderPlan` is the target of the regime, less what is there, rounded to lots toward what is held and
left alone within the band. The sleeve reads its book off the cache at each event and the template
off its own reservations; both are actions of one module because they share the alert, the warm-up,
the stale check and the venue. `writes` are the claim writes on their way, which go with the
process, as do the book and the reservations (`Dies`); while it is down fills and stops go on
unheard, and `Starts` seeds the book from the cache and states no claim. A "blind" process cannot
read a quantity at an event, or its positions at the start. `unsaid` collects the legs of which an
event was heard by nobody, could not be read, or left a write that died. The panel is kept over a
death because the history request of `on_start` brings it back.

### IntradayLane

A bar is a step. `bar`, `hist` and `older` are the panel; `due` a slot that has begun and waits
until the clock moves past its bars. One bar's handler stops, flattens, rotates or trails, in
the code's order, and `missing` collects names that a decision ranked without a bar they had.

### Rotation

Operators, from a scored panel to a decision, and one action that applies a decision to a book
and draws the next panel; every panel, overlay, correlation matrix and book of the instance is
reached, so the invariant is checked of `Decide` on all of them. `Sorted` is the ranking of an
order: the name with *i* names ahead of it comes after them. Scores that tie go by ticker
(`engine.py:407`); blends are sorted by value alone (`engine.py:418`) with pandas' default sort,
which is not stable, so an overlay of the model carries the order in which its ties are left
(`Ties`). An overlay that was passed but has no bars of what is ranked still replaces the scores
by their percentiles (`Blends`); none passed is `NoOverlay`.

### Trail

`Evaluate` runs the rules of `Rules` in the code's order on the record that `Start` finds or adopts.
A run saves only if it won the decision row. `Fresh` is what a seed by a fill writes, and an
adoption with its quality. `top`, `wins`, `rose`, `breaches` and `verdict` are history variables,
with which the properties say what the record should have been.

### MarketView

Closes are logarithms on a small scale, so that the equal-weight index is a running sum of mean
returns, in `Parts` of a whole so that each mean is a whole number. Any number of names print, or do
not, in a session; a name has a return where it printed in this row and in the one before, as the
locked pandas (3.0.3) has it: `pct_change` fills nothing. `View` is the state, with `computed` for
whether the averages it compares are defined. `Assessed` is the envelope's verdict, `Poll` what an
adapter's poll makes of both and of what it polled last. There it is more general than the
repository, where `assess` is called by nobody yet and every adapter's `self_assessment` answers
UNKNOWN (`runtime/nautilus/market_aware.py:253`). `BarsToKeep` is the cap of the buffer. `Bridged`
is a premise on the feed: of two sessions running some one name prints in both.

### PoolOverrides

`set_override` is its two statements and a commit, each waiting for the rows that the other
transaction holds. `said` is the kind committed last.

## Runs

| run | instance | what it shows |
|---|---|---|
| `claim_writer` | 2 loops, 2 calls of every kind of statement, ages 0 and 1 | order per loop, atomicity across loops, true answers, that `ClaimWriter` implements `ClaimRegister`, and that every call is answered even if Postgres never answers |
| `session` | 1 symbol, 1 slot, 2 attempts, lots of 2 shares, lost rows, blacklist | records before orders, one live order per question, a declined entry stays out |
| `session_funding` | 2 symbols, one of them unattributed, 1 slot, 2 attempts | entries wait for the exits of their slot over repeated runs |
| `session_race` | 2 tasks in one slot, an operator who halts, liquidates and resumes | one decision, and no entry after an unconfirmed last look |
| `recovery` | `DailyLoss`: any 3 past rows, equities 0, 92, 96, 100, limit 5 %, 3 slots a day; `Ownership`: 2 lanes, 2 shares, no stops | the newest usable anchor decides, a halt that was not saved stands, refusals heal; what a lane holds is sized for an exit again and again |
| `own_reach` | 2 lanes, 2 shares, restarts, stops, refusals, stalls | nobody sizes beyond its own shares where attribution speaks, or where the neighbours claim what they hold; claims on attributed shares survive |
| `lane_timers` | 2 days of 3 ticks and 2 slots, a half day, 2 tasks, overlapping callbacks or not, urgent checks or not, both calendars, edits of the slots | where the calendar only refuses, no slot is passed over in silence through restarts, edits and overlaps; on a loop without overlap a due session is kept, one task runs and a stop is quiet; a running lane is armed again, on either host |
| `months` | both monthly lanes, hosted and not, 2 symbols, months of 2 sessions and of 1, one trouble at a time | every month is rebalanced once or its first session is on record as the one that was not; the book is what is held; a session held back by an order is taken up when the venue answers, with callbacks that overlap too |
| `lanes` | `MonthlyRunner`, `ShortLane`, `SleeveLane`, `IntradayLane`, `Rotation` | the orders of a monthly slot are those of its decision and its claims cover what it holds; the short lane keeps to its slots and never doubles; the sleeve's book and claims are what is held through deaths, but for legs of which an event was lost, and its plan settles; an intraday slot sees its bars and its book is true; a rotation is sound |
| `records` | `PoolSource` with one refresher and one remover, `HeldStreak`, `PoolOverrides`; `Trail`: 4 slots, 2 runs a slot, stops and deaths; `MarketView`: 2 names, 4 sessions, a bridged feed | whole-set replacement and the shrink guard through failures and crashes; the wait for refused exits ends and not too soon; exclusions hold; a trail is earned by its position; a lane that has had the bars has a view that rests on averages that are defined, and who hears the events knows it |
| `monthly_unrecorded` | `MonthlyRunner` with a journal that may lose a row | **violated**: see divergences |
| `trail_confirm` | `Trail` with a give-back to be confirmed twice | **violated**: see divergences |

**Bounds, and why they are enough.** Two calls give a writer and the one it must
not overtake, or one of the other loop; the safety theorems cover any number. Two attempts are
an order and its retry, which is what a second order
needs; lots of two shares are the least that can be partly filled. Two symbols are the exit
and the entry it funds. `MaxRows` caps the result rows of a symbol at the retry limit and
`Attempts` caps the order ids; runs past a bound are cut off, never changed. Levels 100, 96 and 92
with a 5 % limit give a step within the limit and two steps beyond it. A cap of two sessions
needs four sessions to be reached and released, so five also show the session after. Three
symbols with a 50 % guard let one refresh stay and another fall below the floor. Two shares
and two lanes give a shared position that either lane's claim covers partly or wholly;
`MaxPending` caps the claim writes in flight at a lane's two or one of each lane. Two days,
the second without its later slot, give a next slot today, tomorrow and none within the window;
the clock stops at `LastTick` within the second day and time on `LastDay` never comes, so an
alert always has a day to fire on. Two tasks are one and an orphan; `Room` keeps as many free
as threads are about to start. `Visited` and `Blacklistable` restrict the
operator, by run, to the states and names its question is about.

A month of two sessions has a day that is not its first, and the next month has only a first; two
names are one to leave and one to enter; `MaxLive` cuts off behaviours with more than two orders of
a name. Two names for one short slot make a leaked reservation a lost slot and a lost one a second
short; three decision slots give two before the cross and one after it, and the second session is
the one after a session that ended short. Legs of equal weight, one worth 1 or 4, make a plan of a
rise and of a fall, and 3 of cash buys both legs when cheap and neither when dear. Two days of them,
with a death at any point, have a claim write die and a fill come unheard, and the event of the leg
that repairs either. Three bars are two slots and the close; two sessions are one to warm up and one
to trade. Three slots and a buffer of one, of five names, leave a held name inside the buffer, one
outside and one to come; the correlations are none, a pair, and a chain of pairs in which one name
is alike to two that are not alike; the inverse volatilities put two names over the cap, one of them
only after the other's excess is handed out. Prices 8, 10 and 14 with an ATR of 2 fall below the
stop, stay, and rise enough for half of the gain to be given back. A window of 2 and a dwell of 1
need three of the four sessions, so that a bar is pushed out of the buffer, and in each of them one
of the two names may print nothing. What is cut off in `months`, `lanes` and `records` is the number
of sessions; their behaviours end at the last, so their cfgs (and that of `claim_writer`, which ends
when every call is answered, and those of the violated runs of the same components) do not check
deadlock; all others do.

**Fairness.** `ClaimWriter`: only the event loop's own timers (`GiveUp`, `Timeout`, `GraceOver`);
nothing is assumed of Postgres. `DailyLoss` (for `RefusedHeals`): the schedule keeps firing, a run
that began ends, an unreadable account is read at a later update, and a check that can be made again
and again on a readable account is made. `Ownership` (for `CanAlwaysGetOut`): the scheduler keeps
starting sessions, and the loop runs the claim writes handed to it; quotes and locks that are
missing are not missing for ever (`Stalls` is off). `LaneTimers` (for `ArmedAgainWindowed`): the
threads run, a retry that is set and an arming task that sleeps are served when they can be again
and again, and the venue describes the next day in the end (`Extend`), which is the code's own
premise at `contract.py:596`. `RebalanceLane`: the venue answers what it accepted, a session task
comes to its end, and so does a callback; no bar and no alert is assumed, since a session that is
held back must not need one. The other properties are about safety and assume none.

## Theorems

Forty-five theorems, and 35 of the 40 properties of the passing runs among them. All hold for every
value of the constants under the named ASSUMEs of the modules, which TLC evaluates on every run.
They assume that `Writes` are numbers and `None` is not a call; that symbols, lanes and legs are
finitely many and there is a slot and a price; that a slot's time lies within its day and sessions
come in the order of their months; that quantities, sizes, lots, windows and limits are naturals,
those that count something at least 1; that a recorded level is a natural and the two null values
are not. The rotation's names are finitely many and numbered in the order of their tickers, panels
and estimates are of those names, its scores, ties and weights are whole numbers, volatilities
positive. The market view is of any finite number of names, of which any may print in a session;
`Parts` is a multiple of every number of them.

Some theorems have a hypothesis beside that. On the constants: `OneSlot`, `OneTask` and
`~DenialIsJournalled` (session orders), `OneAtATime` (timers: no two slots at one instant),
`NothingOutlives` (trail: not both a protective stop and an account read as empty) and `Bridged`
(market: of two sessions running some one name prints in both). On the behaviour: `[]Apart` (pool:
no refresh of a source commits while another is past its guard, however many there are). And the
properties themselves are of a host and a calendar: `~threaded`, `~urgents`, `windowed` (timers),
callbacks that do not overlap (months), and of names and legs of which no event was lost (`unsaid`).
Each excludes a case that the divergences show refuted; the runs satisfy those on constants and
reach behaviours on both sides of the others, but for `Apart`, to which one refresher is confined
(and which two break, by hand).

**`ClaimWriterProofs`.** `NeverOvertaken` says that no call can land after a later call of its
loop has. It is not inductive: a state where the earlier call is still open satisfies it and a
step breaks it. `IInv` adds why that state is not reached: a transaction starts only when every
earlier call of the loop is answered (`StartedInOrder`, from `CalledInOrder` and the FIFO lock);
an answered call can land only by a COMMIT it had already sent (`AnsweredIsDoomed`); and a
COMMIT in flight holds the advisory lock (`CommitHoldsLock`), so it lands before anything
behind it opens. `TypeCorrect`, `OrderKept`, `ReadKept` and `AnswersKept` follow from `IInv`.
`Refinement` shows that every step of `write_claim` is a step of `ClaimRegister` or a stutter,
with each call's status read off its transaction.

**`SessionRunnerProofs`.** `TypeInv` adds to the types that the terminal rows are finite (so
that counting attempts gives a number) and that a part-filled order has shares left (so that no
position goes negative). `SubmitInv` says of each task what the properties say of the orders:
what it is about to send has its intent row (`Recorded`), the entries it carries are in its
slot's decision row (`Planned`), and it carries entries past the last look only if that look
saw the state it began in (`Confirmed`). From it: `OrdersAreRecorded`, `BuysDecided`,
`EntriesAreConfirmed`, for any number of tasks, slots, symbols and attempts.

Its second part is about a session of one slot: result and terminal rows are counted
per session, and with two slots two of its three theorems are refuted (divergences).
`NoSecondOrder` follows from attempts being made in order: whenever an order exists, every
attempt below it is over (`InOrder`). A task takes its attempt number from a count of refused
orders, read once and used later, so `AttemptInv` adds that a row says "refused" only of an order
that is over (`RowsAreOver`, which is where the hypothesis `~DenialIsJournalled` is needed), and
that all below the number a task counted is over (`Counted`; what is over stays so).
`BelowTheCount` is the counting: n refused orders of one question cannot all lie below an attempt
smaller than n. `EntriesFunded` needs the account a task keeps (`Funding`): of each decided exit
it could size, it went out, is still to be sold or is among the refused, and the gate passes
none of the last two. What a resume leaves out because the journal says "accepted" did go out,
since a slot never decides to sell and to buy one name (`ExitsAreNotEntries`), though the row
does not say which it was of (`AcceptedWentOut`). `SuppressedStaysOut` also assumes that tasks do
not overlap: then a task carries nothing suppressed (`Spared`) unless it is deciding, and nothing
is suppressed before the slot is decided.

**`RecoveryProofs`.** *Ownership.* What a lane may sell is the account less what its neighbours
claim, or its own leg, so the theorems need what claims and legs add up to. `LegInv` says that no
leg exceeds what its lane holds, and `WritesInv` that of the claim writes in flight the last is not
below the leg, which is what makes `ClaimIsKept` an invariant of steps: a write that lowers a claim
is never the last word. `OwnShares` has two cases, attribution that covers the lane and neighbours
that claim what they hold; both compare sums over the lanes (`SumTheorems`). *Daily loss.* The scan
takes today's rows before all others, so its answer is the newest usable row only because no row of
today is older than one of another day: `TodayFirst` says so and is the strengthening for
`Measured`. `HaltHolds` (`BreachStands`) rests on that too: until a decision is on record the equity
that a halt was measured against stays the newest usable row (`StillNewest`), whatever was saved, so
the next check measures against it again.

**`LaneTimersProofs`.** `TypeInv` adds to the types that a thread which took a session off the alert
or off `_due` knows it. `DueKept` is not inductive alone: a bar that is about to clear `_due` would
clear another session if one became due meanwhile. Without overlap `Serial` (only one thread is
halfway) and `Current` (what a thread is about to clear is still what is due) exclude that.
`OneTask` rests on `TaskIsKnown` (the task that runs is the one in `_session_task`, and a thread
about to start one found none), and `StopIsQuiet` on that and on idle threads at a stop. The
premises `~threaded` and `~urgents` are needed: `DueIsKept`, `OneSession` and `StoppedIsQuiet`, the
properties without them, are refuted (divergences), as is `NoSlotSkipped` without `windowed`.
`NothingSkipped` is of any threads: what has come and is neither due nor told must be someone's to
tell. `SkipInv` says whose. A lane that is down has no alert and no thread (`DownInv`); one that is
arming answers for what comes before the slot it will find (`ArmingInv`); an alert that is set is
for the next slot there is, so nothing comes before it (`AlertInv`); a thread between firing and
re-arming, and one that was refused, answer for what comes meanwhile (`WaitingInv`, `RetryInv`).
`OneAtATime` is used where the next slot is found: it is the first that is strictly later
(`calendar.py:295`).

**`RebalanceProofs`.** Of a host that serves one callback at a time. `MonthInv` keeps the account of
the sessions. The due session is the latest of those whose alert fired and is not decided; what was
decided was decided once and has its date in the panel; the alert to come is of a later session than
all that fired (`AlarmAhead`). A second session of a month then cannot be its panel's first date,
and `TryAccounts` shows that every way out of `_try_decide` leaves the session due or on record.
`BookInv` says of each name that it is at rest and known, on its way out whole, or on its way in;
`TryKnows` shows that a decision keeps that, since it trades only when nothing is in flight, and
each answer of the venue moves one name back to rest.

**`LanesProofs`.** *QC27's runner.* `OrdersAreBacked` says of the orders what `BackedInv` adds of
each run: past the last look it has looked (`Looked`), what it is about to send has its intent row
(`Intended`), and while the journal takes its rows all it still carries is of the decision on record
(`OfTheDecision`). A run that finds a decision stops, so none replaces another's. `ClaimInv` says
that a name is entered once (`EnteredOnce`), that every claim write in flight is of what is held
(`DueIsTrue`) and that a name without one is covered (`Covered`) unless its last event was lost with
a process, so that `ClaimsCover` does not depend on the order in which they land. *Short lane.*
`ShortInv` says name by name what reservation, book and orders are together at each stage (opening
leg, at the venue, held, covering), and `SlotsInv` counts: names held, in flight and still owed
never exceed the slots. *Intraday lane.* `SlotInv` ties the clock to the panel (`ClockInv`,
`BarsAreIn`), so that a slot is decided when its bars are in; `LongsInv` is the soundness of the
book (`Sound`). *Sleeve.* `SleeveInv` says for each of the two lanes what its book, its reservations
and its orders are: leg by leg, what the sleeve that is up holds, and what its claim is or its write
on the way will make of it, but for the legs of which an event was lost (`LegsKnown`); a process
that is down has neither book nor writes (`DownIsEmpty`). `PlanSettles` is arithmetic: a holding
that was rounded to lots toward what is held lies within a lot of the target and does not cross it
(`RoundedOrder`), so a plan made anew has nothing to do. *Rotation.* The machine's invariant
(`RuleInv`) only says that a session decided from the book it found; the work is about `Decide`.
`Beats` is a strict total order, so what is ahead of a name is a set that grows along it, and the
sizes of these sets number the names without a gap (`Numbered`): `Sorted` is a ranking
(`SortedRanks`). The walk down a ranking is a fold, so there is the sequence of what it has picked
after each name (`WalkLeads`), and by induction along it `Picks` holds: every name so far that may
be bought was taken, is like something kept or taken above it (`Blocked`), or came when the book was
full. `FillsTheBook`, `StrongestFirst` and `NoBetTwice` are `Picks` at the end of the ranking. Where
nothing is alike, the walk takes all it may or all there is room for (`Filled`), so two rankings of
the same names fill the same number of slots; that is `OverlayIsForEntries`. For the cap, `IsCut`
holds of the names cut after each round: they are the heaviest, and their caps leave some of the
whole to share; where the cap can be met that is not all of the names. A round that cuts nothing is
the last and every other leaves fewer, so as many rounds as names are enough (`CappedCuts`).

**`RecordsProofs`.** *Pool.* However refreshes and removals overlap, nothing of the set that was
committed last is missing and the count is of it (`NothingMissing`); what an overlap leaves is too
much (divergences). Where none commits while another is past its guard (`Apart`; removals may,
and refreshes may fetch and be refused), `ReplaceInv` says what holds between a refresh's two
transactions: the rows its DELETE has seen and its own set cover all that is there (`Covers`), and
it was let through against the count that still stands, or one a removal has emptied (`Passed`).
*Held sessions* and *overrides* are inductive as they stand; the first over the rows as a sequence
that grows at its head (`RowIsAdded`). *Trail.* One run wins the decision row (`OneWins`), what a
run carries is of the position that is held (`RunsAreOfPosition`), a peak that is trusted was seen
by a decision that counted (`TrustIsEarned`), and the ages count decisions (`AgesByDecisions`).
`FlatIsClean` and `NothingOutlives` keep a record from outliving its position. *Market.*
`BarsAreKept` says that of each session within the cap some name's bar is in its buffer, since a
name that misses sessions keeps older bars and none newer is pushed out: so a view is given once
there were enough sessions (`ViewIsGiven`, for any feed). With a bridged feed some name has the bars
of two sessions running (`BarsAreJoined`), so every date has a return and the averages are defined
(`MarketKnown`). `Heard` says that the events told so far add up to what was polled last.

**`SumTheorems`.** The models sum over lanes, legs and names, and walk down rankings, with the
community modules' folds. A fold is a recursive function chosen by its equation, taking the
elements in an order nobody knows. That there is such a function (for any step, `FoldExists`), that
the sum over a set splits at any element, and that sums are monotone are proved here by a smallest
counterexample among the subsets of a finite set, and induction along the numbers by sets of numbers
(`UpTo`), so none of it needs an induction theorem over an operator.

**Types.** Each module has a `TypeOK`. Where a theorem establishes it, `TypeCorrect` says so for
every value of the constants; elsewhere it was model-checked on the instance of its run and is
kept as documentation of the state.

**Model-checked only.** Liveness (`EveryCallIsAnswered`, `RefusedHeals`, `CanAlwaysGetOut`,
`ArmedAgainWindowed`, `HeldBackIsServed`) is out of the prover's reach. Every safety and action
property of the passing runs is proved.

## Divergences

Places where the code does not do what a doc, a comment or a test says of it. Two are runs:

| run | property | what the code does | what is said |
|---|---|---|---|
| `monthly_unrecorded` | `DecisionFirst` | `qc27_tech_inverse_vol/runner.py:248`: a decision row that could not be written is answered `None`, which nothing reads, and the orders go out | `qc27_tech_inverse_vol/runner.py:8` "journal the decision WITH its basis, BEFORE any order is sent" |
| `trail_confirm` | `ConfirmedIsSold` | `runner.py:507`: the counter of confirmed give-backs is not among the columns loaded and saved, so live a confirmation of two or more never comes | `config.py:401` on the rules the live path supports, "it covers EVERY field" |

The others are properties of the modules that no run lists. Each is refuted by taking a cfg of
this project (or, for a component of a composed instance, its module with the constants of that
instance), changing it as the third column says, and asking for the property alone.

| property | module | instance | what the code does | what is said |
|---|---|---|---|---|
| `DayLossHalts` | `DailyLoss` | `Hooked = FALSE` | `daily_loss.py:196` returns the newest usable row of the session: on a lane of several slots the anchor is the previous slot | `runtime/executor/runner.py:75` "the first DECISION row of the session" |
| `RetryBounded` | `SessionRunner` | `session`, three attempts, lots of 1 | `retry.py:153`: a refusal that arrives as a terminal row does not raise the count of failed results, so every resume sends again | `runner.py:1388` "Bounded, so a genuine venue rejection cannot loop" |
| `NoSecondOrder` | `SessionRunner` | `session`, two slots, lots of 1 | `retry.py:152`: attempts are counted over the session, orders are per slot; with two slots a resume sends beside a working order | `runner.py:1398` "left ALONE here, not retried" |
| `NoSecondOrder` | `SessionRunner` | `session`, any state, `DenialIsJournalled` | `retry.py:109`: if the local duplicate denial reaches the lane's handler, it reads as a refusal of the live order | `retry.py:12` "a SECOND POSITION" is what it exists to prevent |
| `SpentIdNotReused` | `SessionRunner` | `session`, any state | `retry.py:101`: after a partial fill and a cancel the attempt number is 0 again, a spent id | `retry.py:6` "TOO LOW a retry regenerates an id already used" |
| `UnsizableHoldsEntries` | `SessionRunner` | `session_funding` | `runner.py:1434`: on a resume an exit that cannot be sized holds nothing | `runner.py:1488` "the entry it was meant to fund waits like any other" |
| `EntriesFunded` | `SessionRunner` | `session_funding`, two slots, nobody unattributed | `retry.py:181`: a result row names neither slot nor side, so another slot's counts as this exit's | `runner.py:1429` "EXITS THE DECISION OWES THAT NEVER WENT OUT still hold the entries" |
| `CapHolds` | `SessionRunner` | four symbols, one attempt, lots of 1 | `runner.py:1707`: the entry loop counts positions shown, not entries in flight from an earlier run | `runtime/executor/runner.py:53` "HARD CEILING on open positions" |
| `ExitsConfirmed` | `SessionRunner` | `session`, any state | `runner.py:1043`: the urgent exits are submitted without the last look | `runner.py:1331` "The last look before money moves" |
| `ReleaseEndsTheStreak` | `HeldStreak` | as in `records` | `retry.py:216`: a hold row older than the session's release sets the session held again | `retry.py:199` "A release row (`released_entries`) ends the streak too" |
| `StreakIsConsecutive` | `HeldStreak` | one refusal | `retry.py:218`: a session without risk rows is not seen, so it does not end the streak | `retry.py:194` "CONSECUTIVE prior sessions" |
| `WholeSet` | `PoolSource` | two refreshers, two symbols | `pgpool.py:171`: two refreshes at once leave the union of both sets under the count of one | `pgpool.py:7` "A refresh REPLACES a source's whole set in one transaction", and `pgpool.py:135` "the loser's rows vanish" |
| `ShrinkIsDeliberate` | `PoolSource` | two refreshers, no remover | `pgpool.py:153`: the guard's count is read in an earlier transaction than the replacement | `pgpool.py:121` "reject a refresh that loses more than this fraction" |
| `RemovedStaysGone` | `PoolSource` | one symbol | `pgjobs.py:87`: a refresh in flight writes rows or a health row after the removal | `pgjobs.py:81` "Remove the spec AND everything it contributed" |
| `PinHolds` | `PoolOverrides` | as in `records` | `pgpool.py:220`: an exclusion set beside a pin leaves both rows, and the exclusion wins though the pin came last | `pgpool.py:219`, where each kind deletes the other |
| `CanAlwaysGetOut` | `Ownership` | `MaxQty`, `MaxPending` 1, `Stops`, `FairSpec` | `runner.py:300`: the stale claim of a lane that the cache attributes nothing to is never retired, and every other lane's ceiling subtracts it; a stop that fills for a lane whose `_held` lacks the name leaves one (`contract.py:215`) | `runner.py:372` "A lane must always be able to get out; a wrong ledger is an alarm, not a handcuff" |
| `NeverSellsAnothers` | `Ownership` | `MaxQty`, `MaxPending` 1, `Stops` | `runner.py:86`: with no attribution, a stale claim and a neighbour whose claim has not landed, the residue is the neighbour's | `runner.py:921` "A STRATEGY MAY NEVER SELL ANOTHER STRATEGY'S SHARES" |
| `ClaimKeptWhileHeld` | `Ownership` | one lane, 1 share, `Restarts`, `Refusals` | `nautilus.py:1092`: a refused exit syncs the claim to a flat leg and drops it | `runner.py:1528` on the live position with no claim it means to avoid |
| `RetiredOnlyWhenGone` | `Ownership` | 1 share, `Restarts` | `runner.py:314`: another's stale claim as large as the account retires ours | `runner.py:826` "RETIRE ON POSITIVE EVIDENCE OF ABSENCE" |
| `ClaimFollowsLeg` | `Ownership` | one lane, 1 share, `Stops` | `contract.py:215`: a stop of a position opened since boot is not in `_held` and not reconciled | `contract.py:181` "a protective stop that FILLS is our position closing, whoever placed it" |
| `ArmedAgain` | `LaneTimers` | `Calendars`, `Threads <- Never`, `Operators <- Never` | `contract.py:643` catches `OutsideCalendarWindow` alone; a fetch that fails (`calendar.py:95`, over the network at `calendar.py:83`) ends the alert's callback, and the lane has no timer left | `contract.py:631` "Harmless until a calendar could refuse: `AlpacaCalendar` answers for any date" |
| `NoSlotSkipped` | `LaneTimers` | `Calendars <- Never` | `contract.py:643`: a failure of the calendar that is not its window aborts the alert's callback before the session that fired is marked | `contract.py:626` on "a raise from `_arm` itself aborts the whole callback", which the method is there to prevent |
| `NoSlotSkipped` | `LaneTimers` | `At <- MCAtTogether` | `calendar.py:295`: the next slot is strictly later, so of two slots at one instant the second never fires | `slots.py:137` "two slots resolving to the same instant have a stable order" and `nautilus.py:268` on a lane that "silently decides fewer times than configured" |
| `DueIsKept` | `LaneTimers` | `Threads <- Always` | `nautilus.py:527` clears `_due` after the panel was built: a bar on the loop clears the session that an alert on its own thread has just made due | `nautilus.py:504` "The local closes the entire class" |
| `OneSession` | `LaneTimers` | `Threads <- Always`, `Operators <- Never` | `nautilus.py:584`: `done()` is asked and the new task assigned some lines later; an alert and a bar on two threads both find none and start two sessions | `nautilus.py:578` "One task at a time. A second alert while the first session is still running would race two runners" |
| `OneSession` | `LaneTimers` | `Operators <- Always` | `nautilus.py:702` starts a task after an await, over one that a slot alert started meanwhile | `nautilus.py:578` "One task at a time" |
| `StoppedIsQuiet` | `LaneTimers` | `Threads <- Always` | `nautilus.py:480`: an alert that runs while `on_stop` does re-arms a stopped lane; only the retry asks `is_running` | `contract.py:656` "it would then arm a SESSION_ALERT on a stopped strategy" |
| `ReportIsTrue` | `LaneTimers` | `Threads`, `Operators <- Never` | `contract.py:884` reports every elapsed slot of today, those decided before the restart too | `contract.py:894` "did not run and will NOT be run late" |
| `MonthAccountedAnywhere` | `RebalanceLane` | `months`, "overlaps" | `qc345_rotation/nautilus.py:433` (and `qc27_tech_inverse_vol/nautilus.py:402`) read `_due` again after the guard: an alert between them has the new session looked up in a panel without it and a month's first session passed over; and the alert's own warning may read the date of a session the loop has just taken, which ends it | `qc345_rotation/nautilus.py:391` names what is to be prevented, "the session that just fired would never be marked due", and `qc345_rotation/nautilus.py:237` that the callback has its own thread |
| `ClaimSurvivesDeath` | `MonthlyRunner` | `lanes`, "restarts" | `qc27_tech_inverse_vol/nautilus.py:212`: a claim write dies with its process, or a fill comes while it is down, and `on_start` states no claim | `qc27_tech_inverse_vol/runner.py:443` "an under-claim lets them size into a position we hold" |
| `ClaimSurvivesRestart` | `SleeveLane` | `lanes`, "restarts" | `smhgld_sleeve/nautilus.py:216`: the same of a leg | `contract.py:319` "Bring the claims ledger back to what the book says" |
| `NeverOverClaimed` | `MonthlyRunner` | as in `lanes` | `qc27_tech_inverse_vol/runner.py:431`: the claim of an acceptance may land after that of the refusal or the close | `qc27_tech_inverse_vol/runner.py:416` "The claim follows the venue's answer, not the submit" |
| `TrailIsThisPosition` | `Trail` | as in `records`, `EmptyReads` | `runner.py:845`: an account read as empty retires nothing, so a claim outlives its position and its peak is lent to the next one | said there as a known limit |
| `ViewIsComputed` | `MarketView` | two names, `Bridged = FALSE` | `market_view.py:433`: `index <= ma` is a Boolean, of which `isna` is never true; an average that is not defined reads as risk on | `market_view.py:434` "moving average is not yet defined", on the branch to UNKNOWN that is never taken |
| `BackIsHeard` | `MarketView` | as in `records` | `market_events.py:208`: from unknown to inside makes no event, so who heard the lane go out before a restart never hears that it is back | `market_events.py:13` "on CHANGE" |
| `EventsAreChanges` | `MarketView` | as in `records` | `market_events.py:202`: a lane that asks to stand down is confirmed at every poll | `market_events.py:132` "one of these per poll is one notification per poll", which it means to avoid |
| `NeverOvercommitted` | `IntradayLane` | three names, all held, 6 deployed | `nautilus_intraday.py:339`: what is committed is summed over what is held, so two entries sent together each see the other's cash free | `nautilus_intraday.py:338` "Size against what is actually free" |
| `FlatOverNight` | `IntradayLane` | as in `lanes` | `nautilus_intraday.py:188`: an entry decided on the last bars is still out when the book is flattened | `nautilus_intraday.py:10` "optional flat-by-close" |

(`runner.py` without a directory is `strategies/momentum_rotation/runner.py`; `nautilus.py`,
`nautilus_intraday.py`, `config.py` and `slots.py` are beside it, the market modules above it;
`retry.py`, `daily_loss.py`, `pgpool.py` and `pgjobs.py` are in `runtime/executor/`,
`calendar.py` in `runtime/` and `contract.py` in `runtime/nautilus/`.)

What the properties of the lanes leave out by their premises (`Steady`, `Plain`, the troubles of
`env` they exclude) is where the code promises nothing or does not deliver. Dropping a premise
shows:

- *Monthly lanes.* The first partial fill ends the reservation and moves `_held`, so a half-filled
  entry counts as held and the next session is not held back by its rest; a restart seeds the book
  and reserves nothing for an order still out; `protective_close` ends the reservation of the lane's
  own live exit; an edit of the offset on the day can fire one session twice; `on_stop` forgets a
  due session without recording it. A hosted lane's own `_held` never gains the names its runner
  buys, and QC345's trail exits (`qc345_rotation/nautilus.py:608`) do not ask the lifecycle.
- *QC27's runner.* Positions that cannot be read count as none held, so a name may be bought beside
  itself; no run finishes a decision that a crash cut short; entries do not wait for the exits; a
  lane in LIQUIDATING sells only what a rebalance session would drop.
- *Short lane.* A leg whose rest expired after a partial fill is owed a replacement of its whole
  size; one canceled before the cross frees its slot and is still owed, so that one name more than
  `n_slots` may be short; a first partial fill frees the name to be shorted again; a slot before the
  cross sees no bar of its session, so no trail is evaluated there; trails are lost with the
  process.
- *Sleeve and template.* A cold sleeve records no missed session; its stale check takes the newest
  bar of either leg; cancel and expiry have no handler; a plan may cost more than the cash by up to
  a lot of each leg over its weight. The template's book is wrong after a partial exit; a restart
  seeds it (`template/nautilus.py:159`) and forgets the exit still out, whose fill then counts as an
  entry.
- *Intraday lane.* The first partial fill ends the reservation; after a restart with an order out,
  the flattening sells again; stops do not survive one. `on_order_expired` calls `_record_terminal`
  (`nautilus_intraday.py:452`), which neither the class nor its mixin defines.
- *Rotation.* With an overlay on all decisions `ranked` becomes the blend of percentiles
  (`engine.py:420`), and `cluster_exit_score` is compared with that instead of a score.

## Not modelled

Backtesting, evaluation, provenance, the CLI and contracts are offline or have no state of their
own; symbol resolution and the sources are lookups, whose answers enter the pool as any set; the
BCT lane is a thin adapter over the runner that `SessionRunner` models. Scores, gates, indicators
and estimates are arithmetic over bars: their results enter `Rotation` as any scored panel of
the instance and the other lanes as any choice within the limits the code enforces. The session
runners of the CRSI and SMH/GLD lanes are in another repository: they do what this package's
files require of them. Within modelled parts: bar subscriptions, the standalone order path, the
cadence of the source jobs, status rows and log lines, the covering direction of `reducible`,
how the other lanes arm (as in `LaneTimers`, with a calendar that answers), late live bars of
the intraday lane (bars come in time order), and the journal's 400-row tail
(`runner.py:1406`; every row is read here). Smaller than that:

- `SessionRunner`: the last look of a runner that was given no `recheck_state` (`runner.py:1332`),
  which does not look.
- `Trail`: an adopted position whose price is a quote (`runner.py:682`, `runner.py:798`), and the
  save of an adopted row by the sweep for orphans before the decision (`runner.py:785`); a fill at
  two prices is one fill.
- `PoolSource`: `mark_source_failed` reads the count and upserts the row in two statements
  (`pgpool.py:193`), here in one step: a row that is there keeps its count whatever was read.
- `ShortLane`: the runs of two slots do not overlap, though nothing but the time between slots keeps
  the second coroutine (`crsi_short/nautilus.py:669`) from starting while the first runs.
- `IntradayLane`: of its two sessions the first warms the lane, so a slot that is still due when the
  next session rolls the panel is not reached by TLC; of any number of sessions it is a theorem
  (`SlotsSeeBars`).

 `PROJECT.json` has the reason for each component.

## Plan

The core is what is written down (claims), what is sent (sessions), what stops a lane
(daily loss), what feeds it (pool), whose shares are at stake (ownership) and the books of the
lanes. Next, in order:

1. A bounded journal tail in `SessionRunner`, and the gate that reads the sources' health
   before the ranking reads the pool (`runner.py:728`), composed with `PoolSource`.
2. The BCT lane's differences from momentum, and the arming of the other lanes.

Instances stay small enough that every run finishes within minutes, so a later module's
questions are put to the run that already exercises its neighbours where they share a state
space, and to a composed instance where they do not.
