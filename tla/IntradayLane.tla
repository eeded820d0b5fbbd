---------------------------- MODULE IntradayLane ----------------------------
(***************************************************************************)
(* The intraday rotation (momentum_rotation/nautilus_intraday.py): bars of *)
(* minutes, a decision at every slot of a grid, a stop checked on every    *)
(* bar, and optionally flat by the close.  A bar arrives per symbol, so a  *)
(* slot becomes due with its first bar and is decided when the clock has   *)
(* moved on.  The book is moved by order events alone.                     *)
(*                                                                         *)
(* The decision itself is Rotation: here it sells any of what is held and  *)
(* buys any names within the book.  Prices are one unit; bars arrive in    *)
(* the order of their times, as a backtest feeds them.                     *)
(***************************************************************************)
EXTENDS Integers, FiniteSets, FiniteSetsExt, Functions

CONSTANTS
  Symbols,
  NHold,
  Times,     \* bars of a session: 1..Times
  SlotTimes, \* those at which a slot begins
  CloseTime, \* from this bar on the lane is flattened, if it is
  Need,      \* sessions of history
  WarmNames, \* n_hold + buffer: names that must have them
  Deployed,
  Days,      \* bound: sessions
  Envs       \* the surroundings explored, sets of
             \* {"flat", "refusals", "parts", "stops", "restarts", "blind"}

GridAssumption ==
  /\ Times \in Nat \ {0} /\ SlotTimes \subseteq 1..Times /\ CloseTime \in 1..Times
  /\ Need \in Nat \ {0} /\ WarmNames \in Nat \ {0}
  /\ NHold \in Nat \ {0} /\ Deployed \in Nat /\ IsFiniteSet(Symbols)

VARIABLES
  env,
  now,        \* the bar of the tape, counted over the sessions
  toCome,     \* names whose bar of it has yet to arrive
  older,      \* per name, its newest bar on the tape before now
  prints,     \* the names that print a bar now
  lastTs, due, lastSlot,
  bar,        \* per name, the newest bar the lane has
  session,    \* _session
  hist,       \* closed sessions kept, per name
  held, pending, stops, sizes,
  pos, live,  \* shares of the lane and its order, per name
  missing     \* names whose bar of the slot the last decision did not have

feedVars == <<now, toCome, older, prints>>
clockVars == <<lastTs, due, lastSlot, bar, session, hist, missing>>
bookVars == <<held, pending, stops, sizes>>
vars == <<env, feedVars, clockVars, bookVars, pos, live>>

Free == [s \in Symbols |-> ""]
Zero == [s \in Symbols |-> 0]
DayOf(t) == (t - 1) \div Times + 1
TimeOf(t) == ((t - 1) % Times) + 1
IsSlot(t) == TimeOf(t) \in SlotTimes

Init ==
  /\ env \in Envs
  /\ now = 0 /\ toCome = {} /\ older = Zero /\ prints = {}
  /\ lastTs = 0 /\ due = 0 /\ lastSlot = 0 /\ bar = Zero /\ session = 0 /\ hist = Zero
  /\ held = {} /\ pending = Free /\ stops = {} /\ sizes = Zero
  /\ pos = Zero /\ live = Zero /\ missing = {}

-----------------------------------------------------------------------------
(* The tape: at each time some names print a bar, and a session may pass   *)
(* any of its times without one.                                           *)
Tick ==
  /\ toCome = {}
  /\ \E t \in (now + 1)..(Days * Times), names \in (SUBSET Symbols) \ {{}} :
       /\ t <= (DayOf(now + 1) * Times) + 1
       /\ now' = t /\ toCome' = names /\ prints' = names
       /\ older' = [s \in Symbols |-> IF s \in prints THEN now ELSE older[s]]
  /\ UNCHANGED <<env, clockVars, bookVars, pos, live>>

-----------------------------------------------------------------------------
(* A step of the handler is a function of the book: what is held, pending  *)
(* and sent.                                                               *)
Book == [held |-> held, pending |-> pending, stops |-> stops, sizes |-> sizes, live |-> live]

(* _close of each: what has no position is forgotten, the rest is sold     *)
(* whole.                                                                  *)
ClosedAll(b, names) ==
  LET gone == {s \in names : pos[s] <= 0}
      flat == {s \in names : pos[s] = 0}
  IN  [b EXCEPT !.held = @ \ gone, !.stops = @ \ flat,
                !.sizes = [s \in Symbols |-> IF s \in flat THEN 0 ELSE @[s]],
                !.pending = [s \in Symbols |-> IF s \in names \ gone THEN "exit" ELSE @[s]],
                !.live = [s \in Symbols |-> IF s \in names \ gone THEN @[s] - pos[s] ELSE @[s]]]
Closed(b, s) == ClosedAll(b, {s})

(* _open of each, sized against what the names held leave free; a name     *)
(* that enters is not held, so none counts against another.                *)
OpenedAll(b, names, share, armed) ==
  LET free == Max({0, Deployed - SumFunctionOnSet(b.sizes, b.held)})
      qty == Min({Deployed \div share, free})
  IN  IF names = {} \/ qty < 1 THEN b
      ELSE [b EXCEPT !.pending = [s \in Symbols |-> IF s \in names THEN "enter" ELSE @[s]],
                     !.sizes = [s \in Symbols |-> IF s \in names THEN qty ELSE @[s]],
                     !.live = [s \in Symbols |-> IF s \in names THEN @[s] + qty ELSE @[s]],
                     !.stops = @ \cup (names \cap armed)]

(* warm                                                                    *)
Warm == Cardinality({s \in Symbols : hist[s] >= Need}) >= WarmNames

(* _decide: the rotation's exits and those of the trails are sold, then    *)
(* its entries bought; a stop is armed where there are bars for an ATR.    *)
Decides == Warm /\ \A s \in Symbols : pending[s] = ""
Decided(b, d) ==
  OpenedAll(ClosedAll(b, d.exit \cup d.trail), d.enter,
            Cardinality((b.held \ d.exit) \cup d.enter), d.armed)
Decisions(b) ==
  {Decided(b, d) :
     d \in {r \in [exit : SUBSET b.held, trail : SUBSET b.held,
                   enter : SUBSET (Symbols \ b.held), armed : {{}, Symbols}] :
              r.enter # {} => Cardinality((b.held \ r.exit) \cup r.enter) <= NHold}}

(* _check_stop                                                             *)
Stops(b, s) ==
  IF s \in b.stops /\ s \in b.held /\ b.pending[s] = "" THEN {b, Closed(b, s)} ELSE {b}

(* Mutant: names with an order out are closed too.                         *)
FlattensAll(b) == ClosedAll(b, b.held)

(* _flatten                                                                *)
Flattened(b) == ClosedAll(b, {s \in b.held : b.pending[s] = ""})

(* Mutant: a slot is decided with the first bar after it became due.       *)
DecidesAtOnce(t) == due # 0

(* on_bar: the slot before this bar is decided once the clock has moved.   *)
ClockMoved(t) == due # 0 /\ lastTs # 0 /\ t > lastTs

Printed(s, slot) == IF slot = now THEN s \in prints ELSE older[s] = slot
Missing(slot) == {s \in Symbols : Printed(s, slot) /\ bar[s] # slot}

AtClose == "flat" \in env /\ TimeOf(now) >= CloseTime

OnBar(s) ==
  /\ s \in toCome /\ toCome' = toCome \ {s}
  /\ LET fires == ClockMoved(now)
         rolls == session # 0 /\ DayOf(now) > session
         left == IF fires THEN 0 ELSE due
     IN  /\ missing' = IF fires /\ Decides THEN Missing(due) ELSE missing
         /\ hist' = IF ~rolls THEN hist
                    ELSE [n \in Symbols |->
                            IF bar[n] # 0 /\ DayOf(bar[n]) = session /\ hist[n] < Need
                            THEN hist[n] + 1 ELSE hist[n]]
         /\ session' = IF session = 0 \/ rolls THEN DayOf(now) ELSE session
         /\ lastTs' = now /\ bar' = [bar EXCEPT ![s] = now]
         /\ IF ~AtClose /\ IsSlot(now) /\ lastSlot # now
            THEN lastSlot' = now /\ due' = now
            ELSE due' = left /\ UNCHANGED lastSlot
         /\ \E decided \in (IF fires /\ Decides THEN Decisions(Book) ELSE {Book}) :
              \E stopped \in Stops(decided, s) :
                LET b == IF AtClose THEN Flattened(stopped) ELSE stopped
                IN  /\ held' = b.held /\ pending' = b.pending /\ stops' = b.stops
                    /\ sizes' = b.sizes /\ live' = b.live
  /\ UNCHANGED <<env, now, older, prints, pos>>

-----------------------------------------------------------------------------
(* What the venue answers: a handler runs with its event.                  *)

Fits(intent, n) == (intent = "enter" => n > 0) /\ (intent = "exit" => n < 0)

(* on_order_filled: the first fill that fits ends the reservation.         *)
Filled(s) ==
  /\ live[s] # 0
  /\ \E n \in (IF "parts" \in env THEN 1..(IF live[s] < 0 THEN -live[s] ELSE live[s])
               ELSE {IF live[s] < 0 THEN -live[s] ELSE live[s]}) :
       LET signed == IF live[s] < 0 THEN -n ELSE n
       IN  /\ live' = [live EXCEPT ![s] = @ - signed]
           /\ pos' = [pos EXCEPT ![s] = @ + signed]
           /\ IF ~Fits(pending[s], signed) THEN UNCHANGED <<held, pending, stops>>
              ELSE /\ pending' = [pending EXCEPT ![s] = ""]
                   /\ held' = IF pending[s] = "enter" THEN held \cup {s}
                              ELSE IF pending[s] = "exit" THEN held \ {s} ELSE held
                   /\ stops' = IF pending[s] = "exit" THEN stops \ {s} ELSE stops
  /\ UNCHANGED <<env, feedVars, clockVars, sizes>>

(* _forget: rejected, denied, canceled or expired; _stops and _sizes stay. *)
Forgotten(s) ==
  /\ "refusals" \in env
  /\ live[s] # 0 /\ live' = [live EXCEPT ![s] = 0]
  /\ pending' = [pending EXCEPT ![s] = ""]
  /\ UNCHANGED <<env, feedVars, clockVars, held, stops, sizes, pos>>

(* protective_close: a stop of another component sells the position.       *)
StopFills(s) ==
  /\ "stops" \in env /\ pos[s] > 0 /\ (live[s] = 0 \/ "blind" \in env)
  /\ pos' = [pos EXCEPT ![s] = 0]
  /\ IF s \in held
     THEN held' = held \ {s} /\ pending' = [pending EXCEPT ![s] = ""]
     ELSE UNCHANGED <<held, pending>>
  /\ UNCHANGED <<env, feedVars, clockVars, stops, sizes, live>>

(* on_start of a new process: the book is seeded from the positions, and   *)
(* the rest - bars, stops, reservations - is gone.                         *)
Restart ==
  /\ "restarts" \in env /\ (live = Zero \/ "blind" \in env) /\ now # 0
  /\ held' = {s \in Symbols : pos[s] > 0} /\ pending' = Free /\ stops' = {} /\ sizes' = Zero
  /\ lastTs' = 0 /\ due' = 0 /\ lastSlot' = 0 /\ session' = 0 /\ hist' = Zero
  /\ bar' = Zero /\ missing' = {} /\ UNCHANGED <<env, feedVars, pos, live>>

Next ==
  \/ Tick \/ Restart
  \/ \E s \in Symbols : OnBar(s) \/ Filled(s) \/ Forgotten(s) \/ StopFills(s)

Spec == Init /\ [][Next]_vars

-----------------------------------------------------------------------------
TypeOK ==
  /\ env \in Envs /\ now \in 0..(Days * Times) /\ toCome \subseteq prints
  /\ pending \in [Symbols -> {"", "enter", "exit"}] /\ held \subseteq Symbols

(* "a slot only becomes DUE here and fires below, once the clock advances  *)
(* and every symbol's bar for it is in": a decision ranks every name by    *)
(* the newest bar it had printed by the slot.                              *)
SlotSeesItsBars == missing = {}

(* What is held and not being traded is what there is, an exit is the      *)
(* whole position, an entry is of what is not held, and no name has two    *)
(* orders out: whether the orders fill or end, with stops of another       *)
(* component, and over restarts with nothing out.                          *)
IntradayBookIsTrue ==
  env \cap {"parts", "blind"} = {} =>
    \A s \in Symbols :
      /\ pending[s] = "" => live[s] = 0 /\ (s \in held <=> pos[s] > 0)
      /\ pending[s] = "exit" => s \in held /\ live[s] = -pos[s] /\ pos[s] > 0
      /\ pending[s] = "enter" => s \notin held /\ live[s] > 0 /\ pos[s] = 0

(* "Size against what is actually free": refuted when two names enter      *)
(* together beside one that was bought when the book was thin.             *)
NeverOvercommitted ==
  MapThenSumSet(LAMBDA s : pos[s] + Max({0, live[s]}), Symbols) <= Deployed

(* Nothing is held after the close of a session that is to end flat:       *)
(* refuted by an entry decided on the last bars.                           *)
FlatOverNight ==
  "flat" \in env /\ TimeOf(now) = Times /\ toCome = {} => held = {}

=============================================================================
