----------------------------- MODULE MarketView -----------------------------
(***************************************************************************)
(* A lane's own view of its market (market_view.py, market_aware.py), its  *)
(* verdict on itself (envelope.py) and the events a platform that polls    *)
(* the lane makes of the two (market_events.py).                           *)
(*                                                                         *)
(* Levels are logarithms: a return is a difference, the equal-weight index *)
(* a running sum of mean returns, in parts of Parts so that a mean is      *)
(* whole.                                                                  *)
(***************************************************************************)
EXTENDS Integers, Sequences, FiniteSets, SequencesExt, FiniteSetsExt

CONSTANTS
  Names,        \* the names the lane ranks
  Parts,        \* a multiple of every number of names
  Levels,       \* bound: the levels a close of a name may be at
  Window,       \* MarketViewConfig.window
  Dwell,        \* MarketViewConfig.dwell
  Action,       \* MarketViewConfig.action: "exit_only" or "liquidate"
  Need,         \* bars the lane's own rules need
  Slack,        \* bars kept beyond the need (5 in the code)
  MinWindows,   \* Envelope.min_windows_to_act
  MaxSessions,  \* bound: sessions followed
  Bridged       \* of two sessions running some name prints a bar in both

NamesAssumption ==
  /\ IsFiniteSet(Names) /\ Names # {} /\ \A n \in Names : Levels[n] \subseteq Int
  /\ Parts \in Nat /\ \A n \in 1..Cardinality(Names) : Parts % n = 0
WindowAssumption == Window \in Nat \ {0} /\ Dwell \in Nat \ {0}
KeepAssumption == Need \in Nat /\ Slack \in Nat /\ MinWindows \in Nat
ActionAssumption == Action \in {"exit_only", "liquidate"} /\ Bridged \in BOOLEAN

VARIABLES
  bars,      \* [Names -> the bars kept, each a day and a level]
  day,       \* sessions since the lane started
  place,     \* where the lane sits in its envelope: tail, breaches in a row
  polled,    \* the market state and the assessment the platform saw last
  event      \* the last event it made of each

vars == <<bars, day, place, polled, event>>

States == {"risk_on", "risk_off", "unknown"}
MarketKinds == {"none", "entries_blocked", "entries_unblocked", "emergency_exit",
                "emergency_cleared", "view_unreadable", "view_recovered"}
SelfKinds == {"none", "observed", "confirmed", "back"}
Tails == {"unknown", "in", "below", "above"}

-----------------------------------------------------------------------------
(* Mutant: the cap every adapter had before views were declared.           *)
NeedPlusSlack == Need + Slack

(* bars_to_keep.                                                           *)
BarsToKeep == (IF Need >= Window + Dwell THEN Need ELSE Window + Dwell) + Slack

(* _ingest: a republished day replaces its bar, a new one pushes the       *)
(* oldest out.                                                             *)
Ingested(kept, bar) ==
  IF kept # << >> /\ Last(kept).day = bar.day THEN Front(kept) \o <<bar>>
  ELSE LET all == Append(kept, bar)
       IN IF Len(all) > BarsToKeep THEN Tail(all) ELSE all

(* _view_prices: a row for every day some name has a bar of, and the       *)
(* closes of each name by day.                                             *)
Days(n) == {bars[n][i].day : i \in DOMAIN bars[n]}

Dates == UNION {Days(n) : n \in Names}

Closes == [n \in Names |->
  [d \in Days(n) |->
     LET i == CHOOSE j \in DOMAIN bars[n] : bars[n][j].day = d IN bars[n][i].level]]

(* The dates up to d, and the last k of them.                              *)
Upto(dates, d) == {e \in dates : e <= d}
Latest(dates, d, k) == {e \in Upto(dates, d) : Cardinality({f \in Upto(dates, d) : e <= f}) <= k}

(* equal_weight_index over the dates: a name has a return on a date when   *)
(* it has a close then and on the date before.  A date on which no name    *)
(* has one has no index.                                                   *)
Before(dates, d) == {e \in dates : e < d}
Returning(dates, closes, d) ==
  IF Before(dates, d) = {} THEN {}
  ELSE {n \in Names : {d, Max(Before(dates, d))} \subseteq DOMAIN closes[n]}

Change(dates, closes, d) ==
  LET of == Returning(dates, closes, d)
  IN  IF of = {} THEN 0
      ELSE (Parts \div Cardinality(of))
             * MapThenSumSet(LAMBDA n : closes[n][d] - closes[n][Max(Before(dates, d))], of)

Index(dates, closes, d) == MapThenSumSet(LAMBDA e : Change(dates, closes, e), Upto(dates, d))

(* The average is not defined for Window dates from one without an index.  *)
Averaged(dates, closes, d) ==
  /\ Cardinality(Upto(dates, d)) >= Window
  /\ \A e \in Latest(dates, d, Window) : Returning(dates, closes, e) # {}

(* A comparison with what is not defined is False.                         *)
AtOrBelow(dates, closes, d) ==
  /\ Averaged(dates, closes, d)
  /\ Window * Index(dates, closes, d)
        <= MapThenSumSet(LAMBDA e : Index(dates, closes, e), Latest(dates, d, Window))

Needed == Window + Dwell

(* market_state, asked for the day after the newest bar.                   *)
View ==
  IF Cardinality(Dates) < Needed THEN [state |-> "unknown", computed |-> FALSE]
  ELSE LET dates == Dates
           closes == Closes
           recent == Latest(dates, Max(dates), Dwell)
           low == \A d \in recent : AtOrBelow(dates, closes, d)
           all == \A d \in recent : Averaged(dates, closes, d)
       IN  [state |-> IF low THEN "risk_off" ELSE "risk_on", computed |-> all]

(* _market_kind: what the change from one polled state to the next is.     *)
MarketKind(was, now) ==
  CASE was = now -> "none"
    [] now = "unknown" -> "view_unreadable"
    [] now = "risk_off" -> IF Action = "liquidate" THEN "emergency_exit" ELSE "entries_blocked"
    [] OTHER -> IF was = "unknown" THEN "view_recovered"
                ELSE IF Action = "liquidate" THEN "emergency_cleared" ELSE "entries_unblocked"

-----------------------------------------------------------------------------
(* assess: an unassessable lane, one inside, one outside by its tail; one  *)
(* breach among others below makes the tail below.                         *)
Assessed(p) == IF p.tail \in {"below", "above"} THEN "out" ELSE p.tail

Sufficient(p) == p.breaches >= MinWindows

(* Assessment.acts and action: only the low tail asks to stand down.       *)
Acts(p) == p.tail = "below" /\ Sufficient(p)

SelfAction(p) ==
  CASE Acts(p) -> "stand_down"
    [] p.tail = "above" /\ Sufficient(p) -> "investigate"
    [] OTHER -> "none"

(* _envelope_kind: outside again is an event only when the evidence acts.  *)
SelfKind(was, now, acts) ==
  CASE now = "out" -> IF acts THEN "confirmed" ELSE IF was = "out" THEN "none" ELSE "observed"
    [] OTHER -> IF now = "in" /\ was = "out" THEN "back" ELSE "none"

-----------------------------------------------------------------------------
Unplaced == [tail |-> "unknown", breaches |-> 0]

Init ==
  /\ bars = [n \in Names |-> << >>]
  /\ day = 0
  /\ place = Unplaced
  /\ polled = [market |-> "unknown", self |-> "unknown", acts |-> FALSE]
  /\ event = [market |-> "none", self |-> "none"]

(* The newest bar of a name is of the last session.                        *)
Printed(n) == bars[n] # << >> /\ Last(bars[n]).day = day

(* A session's bars, of the names that print.                              *)
Session(prints, close) ==
  /\ day < MaxSessions
  /\ Bridged /\ day > 0 => \E n \in prints : Printed(n)
  /\ \A n \in prints : close[n] \in Levels[n]
  /\ day' = day + 1
  /\ bars' = [n \in Names |->
       IF n \in prints THEN Ingested(bars[n], [day |-> day', level |-> close[n]]) ELSE bars[n]]
  /\ UNCHANGED <<place, polled, event>>

(* The feed publishes the day's bar again as it moves.                     *)
Republish(n, level) ==
  /\ Printed(n)
  /\ bars' = [bars EXCEPT ![n] = Ingested(@, [day |-> day, level |-> level])]
  /\ UNCHANGED <<day, place, polled, event>>

(* Another live window is placed in the lane's own distribution.           *)
Place(tail) ==
  /\ tail # "unknown"
  /\ place' = [tail |-> tail,
               breaches |-> IF tail = "in" THEN 0
                            ELSE IF place.breaches >= MinWindows THEN place.breaches
                            ELSE place.breaches + 1]
  /\ UNCHANGED <<bars, day, polled, event>>

(* The platform asks the lane and makes events of what changed.  The       *)
(* adapters here all answer "unknown" of themselves so far                 *)
(* (self_assessment).                                                      *)
Poll ==
  /\ LET now == View.state
         m == MarketKind(polled.market, now)
         s == SelfKind(polled.self, Assessed(place), Acts(place))
     IN /\ polled' = [market |-> now, self |-> Assessed(place), acts |-> Acts(place)]
        /\ event' = [market |-> IF m = "none" THEN event.market ELSE m,
                     self |-> IF s = "none" THEN event.self ELSE s]
  /\ UNCHANGED <<bars, day, place>>

(* The lane starts again with no bars and no live windows.                 *)
Restart ==
  /\ bars' = [n \in Names |-> << >>] /\ day' = 0
  /\ place' = Unplaced
  /\ UNCHANGED <<polled, event>>

Next ==
  \/ \E prints \in (SUBSET Names) \ {{}} :
       \E close \in [prints -> UNION {Levels[n] : n \in prints}] : Session(prints, close)
  \/ \E n \in Names : \E level \in Levels[n] : Republish(n, level)
  \/ \E tail \in Tails : Place(tail)
  \/ Poll
  \/ Restart

Spec == Init /\ [][Next]_vars

-----------------------------------------------------------------------------
TypeOK ==
  /\ DOMAIN bars = Names
  /\ \A n \in Names : Len(bars[n]) <= BarsToKeep
  /\ day \in 0..MaxSessions
  /\ place \in [tail : Tails, breaches : Nat]
  /\ polled \in [market : States, self : {"unknown", "in", "out"}, acts : BOOLEAN]
  /\ event \in [market : MarketKinds, self : SelfKinds]

(* A lane that has had a bar for as many sessions as its view spans can    *)
(* answer, however the feed republishes and whatever the lane's own rules  *)
(* keep ("the cap was the view's silent killer"); and an answer it gives   *)
(* rests on an average that is defined.                                    *)
ViewIsComputed ==
  LET view == View
  IN  /\ day >= Window + Dwell => view.state # "unknown"
      /\ view.state # "unknown" => view.computed

(* What the last event says a lane's market is.                            *)
Says(kind) ==
  CASE kind \in {"entries_blocked", "emergency_exit"} -> "risk_off"
    [] kind \in {"entries_unblocked", "emergency_cleared", "view_recovered"} -> "risk_on"
    [] OTHER -> "unknown"

(* A listener that hears only the events knows what the lane last said: of *)
(* its market always, and of itself whenever it asks to stand down.        *)
EventsSayItAll ==
  /\ Says(event.market) = polled.market
  /\ polled.acts => event.self = "confirmed"

(* ... and that the lane is back inside its envelope. REFUTED: a lane that *)
(* was outside, restarts and is then placed inside makes no event.         *)
BackIsHeard == polled.self = "in" => event.self \notin {"observed", "confirmed"}

(* No event repeats a poll at which nothing changed (market_events.py:     *)
(* "Events fire on CHANGE"). REFUTED for a lane that asks to               *)
(* stand down: every poll confirms it again.                               *)
EventsAreChanges ==
  polled = [market |-> View.state, self |-> Assessed(place), acts |-> Acts(place)]
    => SelfKind(polled.self, Assessed(place), Acts(place)) = "none"

=============================================================================
