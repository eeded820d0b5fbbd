------------------------------ MODULE ShortLane ------------------------------
(***************************************************************************)
(* The CRSI short lane (crsi_short/nautilus.py).  Before the open it        *)
(* decides what to short and rests a limit in the opening auction; after    *)
(* the cross the leg that took nothing may be replaced by a DAY limit.      *)
(* Covers are bought at either slot.  A reservation per name counts against *)
(* the lane's slots from submit until the order ends; a restart rebuilds    *)
(* the reservations from the cache.                                         *)
(*                                                                         *)
(* The session runner is not in this repository: what it does with an       *)
(* intent is what this file tells it to do.  Signals, locates and limit     *)
(* prices enter as any set of names, the exit rules as any cover of a name  *)
(* with a trail and a bar (Trail has the rules).                            *)
(***************************************************************************)
EXTENDS Integers, Sequences, FiniteSets

CONSTANTS
  Symbols,
  NSlots,      \* cfg.n_slots
  Before,      \* decision slots before the opening cross
  After,       \* and after it
  Lot,         \* shares of an entry
  Days,        \* bound: sessions
  MaxLive,     \* bound: orders of one name at once
  Envs         \* the surroundings explored, sets of
               \* {"parts", "races", "restarts", "cancels"}

SizesAssumption ==
  /\ IsFiniteSet(Symbols) /\ NSlots \in Nat /\ Lot \in Nat \ {0}
  /\ Days \in Nat \ {0} /\ MaxLive \in Nat \ {0}

VARIABLES
  env,
  day, clock,    \* the session, and "pre" the cross, "rth" or "shut"
  fired,         \* the slots of the session that have fired
  up,            \* the process runs
  held, pending, \* _held, and the kind _pending has per name; "" is none
  trail,         \* the names of _trail
  printed,       \* the session's bar is in the panel
  short,         \* shares the venue has the lane short, negative if long
  live,          \* its orders at the venue
  leg,           \* what became of the session's auction leg, per name
  intent,        \* what the session runner has yet to send
  atOpen,        \* history: names short when the session opened
  missed

vars == <<env, day, clock, fired, up, held, pending, trail, printed, short, live, leg, intent,
          atOpen, missed>>

Free == [s \in Symbols |-> ""]
NoLeg == [s \in Symbols |-> "none"]
Nothing == [cover |-> {}, enter |-> {}, replace |-> {}]
Short == {s \in Symbols : short[s] > 0}
Reserved == {s \in Symbols : pending[s] # ""}
Quiet == \A s \in Symbols : live[s] = <<>>

Init ==
  /\ env \in Envs /\ day = 1 /\ clock = "pre" /\ fired = {} /\ up = TRUE
  /\ held = {} /\ pending = Free /\ trail = {} /\ printed = FALSE
  /\ short = [s \in Symbols |-> 0] /\ live = [s \in Symbols |-> <<>>]
  /\ leg = NoLeg /\ intent = Nothing /\ atOpen = {} /\ missed = {}

-----------------------------------------------------------------------------
(* The clock.                                                              *)

Cross ==
  /\ clock = "pre" /\ clock' = "rth"
  /\ UNCHANGED <<env, day, fired, up, held, pending, trail, printed, short, live, leg, intent,
                 atOpen, missed>>

(* AT_THE_OPEN and DAY orders have ended by the close.                     *)
Close ==
  /\ clock = "rth" /\ Quiet /\ clock' = "shut"
  /\ intent' = Nothing
  /\ UNCHANGED <<env, day, fired, up, held, pending, trail, printed, short, live, leg, atOpen,
                 missed>>

NextDay ==
  /\ clock = "shut" /\ day < Days
  /\ day' = day + 1 /\ clock' = "pre" /\ fired' = {} /\ printed' = FALSE
  /\ leg' = NoLeg /\ atOpen' = Short
  /\ UNCHANGED <<env, up, held, pending, trail, short, live, intent, missed>>

(* on_bar: the bar of the session itself, which no slot before the cross   *)
(* can have.                                                               *)
OnBar ==
  /\ up /\ clock # "pre" /\ printed' = TRUE
  /\ UNCHANGED <<env, day, clock, fired, up, held, pending, trail, short, live, leg, intent,
                 atOpen, missed>>

-----------------------------------------------------------------------------
(* The slots.                                                              *)

SlotsNow == (IF clock = "pre" THEN Before ELSE IF clock = "rth" THEN After ELSE {}) \ fired

(* Not warm, an empty panel or a stale feed: no decision.                  *)
AlertRefuses ==
  /\ up
  /\ \E slot \in SlotsNow : fired' = fired \cup {slot} /\ missed' = missed \cup {<<day, slot>>}
  /\ UNCHANGED <<env, day, clock, up, held, pending, trail, printed, short, live, leg, intent,
                 atOpen>>

(* _departures: a name without a price or an indicator leaves the book.    *)
Departures(names) == SUBSET names

(* evaluate_short_exits covers only what has a trail and a usable bar of   *)
(* the session; without one the trail stays as it is.                      *)
Covers == SUBSET (IF printed THEN trail \cap held ELSE {})

(* engine.decide                                                           *)
Room(book) == NSlots - Cardinality(book) - Cardinality(Reserved)

(* Mutant: the book after the covers.                                      *)
EntriesAfterCovers(book, covers) ==
  {e \in SUBSET (Symbols \ ((book \ covers) \cup Reserved)) :
     e = {} \/ Cardinality(e) <= Room(book \ covers)}

(* What is held at the open or reserved is not entered again, and no more  *)
(* than there is room for.                                                 *)
Entries(book, covers) ==
  {e \in SUBSET (Symbols \ (book \cup Reserved)) : e = {} \/ Cardinality(e) <= Room(book)}

(* Mutant: whatever has ended may be replaced.                             *)
OwedAfterAnyEnd(status) == status \in {"EXPIRED", "CANCELED", "REJECTED", "FILLED"}

(* replacement_is_owed                                                     *)
ReplacementIsOwed(status) == status \in {"EXPIRED", "CANCELED"}

(* The alert, the session's coroutine and session_intent, which all run    *)
(* before anything else of the lane does.  Only a slot before the cross    *)
(* can express an opening leg; the later one replaces.                     *)
SessionIntent ==
  /\ up /\ intent = Nothing
  /\ \E slot \in SlotsNow : fired' = fired \cup {slot}
  /\ \E rules \in Covers : \E gone \in Departures(held) :
     \E enter \in IF clock = "pre" THEN Entries(held, rules \cup gone) ELSE {{}} :
       intent' = [cover   |-> rules \cup gone,
                  enter   |-> enter,
                  replace |-> IF clock = "pre" THEN {}
                              ELSE {s \in Symbols : ReplacementIsOwed(leg[s])}]
  /\ UNCHANGED <<env, day, clock, up, held, pending, trail, printed, short, live, leg, atOpen,
                 missed>>

-----------------------------------------------------------------------------
(* What the session runner sends, each after record_pending.               *)

(* record_pending refuses a second reservation of a name.                  *)
MayReserve(s) == pending[s] = ""

Sent(s, kind, side, tif, qty) ==
  /\ up /\ clock # "shut" /\ MayReserve(s) /\ Len(live[s]) < MaxLive
  /\ pending' = [pending EXCEPT ![s] = kind]
  /\ live' = [live EXCEPT ![s] = Append(@, [side |-> side, tif |-> tif, left |-> qty, of |-> qty])]
  /\ UNCHANGED <<env, day, clock, fired, up, held, trail, printed, short, atOpen, missed>>

(* closing_quantity of the position, none if it is flat or long.           *)
SendCover(s) ==
  /\ s \in intent.cover /\ short[s] > 0
  /\ Sent(s, "exit", "BUY", "DAY", short[s])
  /\ intent' = [intent EXCEPT !.cover = @ \ {s}] /\ UNCHANGED leg

(* opening_leg                                                             *)
SendOpening(s) ==
  /\ s \in intent.enter /\ clock = "pre"
  /\ Sent(s, "enter", "SELL", "AT_THE_OPEN", Lot)
  /\ intent' = [intent EXCEPT !.enter = @ \ {s}] /\ leg' = [leg EXCEPT ![s] = "live"]

(* replacement_leg: the same order as a DAY limit.                         *)
SendReplacement(s) ==
  /\ s \in intent.replace
  /\ Sent(s, "enter", "SELL", "DAY", Lot)
  /\ intent' = [intent EXCEPT !.replace = @ \ {s}] /\ leg' = [leg EXCEPT ![s] = "replaced"]

(* What cannot be sent any more, or not at all, is given up.               *)
GiveUp ==
  /\ intent # Nothing /\ intent' = Nothing
  /\ UNCHANGED <<env, day, clock, fired, up, held, pending, trail, printed, short, live, leg,
                 atOpen, missed>>

-----------------------------------------------------------------------------
(* What the venue answers, and the handlers, which only a running process  *)
(* has.                                                                    *)

Without(q, i) == SubSeq(q, 1, i - 1) \o SubSeq(q, i + 1, Len(q))
FillSizes(n) == IF "parts" \in env THEN 1..n ELSE {n}
Status(o, st, s) == IF o.tif = "AT_THE_OPEN" THEN [leg EXCEPT ![s] = st] ELSE leg

(* completes, of a short lane.                                             *)
Completes(kind, side) ==
  \/ kind = "enter" /\ side = "SELL"
  \/ kind = "exit" /\ side = "BUY"

(* _start_trail                                                            *)
TrailAfter(kind, s) == IF kind = "enter" THEN trail \cup {s} ELSE trail \ {s}

OnOrderFilled(s, side) ==
  IF up /\ Completes(pending[s], side)
  THEN /\ pending' = [pending EXCEPT ![s] = ""]
       /\ held' = IF pending[s] = "enter" THEN held \cup {s} ELSE held \ {s}
       /\ trail' = TrailAfter(pending[s], s)
  ELSE UNCHANGED <<pending, held, trail>>

Fills(s, i) ==
  LET o == live[s][i]
  IN  /\ clock = "rth"
      /\ \E n \in FillSizes(o.left) :
           /\ short' = [short EXCEPT ![s] = @ + (IF o.side = "SELL" THEN n ELSE -n)]
           /\ live' = [live EXCEPT ![s] = IF n = o.left THEN Without(@, i)
                                          ELSE [@ EXCEPT ![i].left = o.left - n]]
           /\ leg' = Status(o, IF n = o.left THEN "FILLED" ELSE "PARTIALLY_FILLED", s)
      /\ OnOrderFilled(s, o.side)
      /\ UNCHANGED <<env, day, clock, fired, up, printed, intent, atOpen, missed>>

(* _forget, by name.                                                       *)
Forget(s, st) == pending' = IF up THEN [pending EXCEPT ![s] = ""] ELSE pending

(* Rejected, denied, canceled or expired.                                  *)
Ends(s, i) ==
  LET o == live[s][i]
  IN  \E st \in {"REJECTED", "CANCELED", "EXPIRED"} :
        /\ st = "REJECTED" => o.left = o.of
        /\ st = "EXPIRED" => clock = "rth"
        /\ st = "CANCELED" /\ clock = "pre" => "cancels" \in env
        /\ live' = [live EXCEPT ![s] = Without(@, i)]
        /\ leg' = Status(o, st, s)
        /\ Forget(s, st)
        /\ UNCHANGED <<env, day, clock, fired, up, held, trail, printed, short, intent, atOpen,
                       missed>>

(* protective_close: a stop of another component covers the name; while a  *)
(* cover of the lane is on its way only in a race.                         *)
ProtectiveClose(s) ==
  /\ clock = "rth" /\ short[s] > 0 /\ (live[s] # <<>> => "races" \in env)
  /\ short' = [short EXCEPT ![s] = 0]
  /\ IF up /\ s \in held
     THEN held' = held \ {s} /\ pending' = [pending EXCEPT ![s] = ""] /\ trail' = trail \ {s}
     ELSE UNCHANGED <<held, pending, trail>>
  /\ UNCHANGED <<env, day, clock, fired, up, printed, live, leg, intent, atOpen, missed>>

-----------------------------------------------------------------------------
Stop ==
  /\ up /\ "restarts" \in env /\ up' = FALSE
  /\ intent' = Nothing /\ held' = {} /\ pending' = Free /\ trail' = {} /\ missed' = {}
  /\ UNCHANGED <<env, day, clock, fired, printed, short, live, leg, atOpen>>

(* reconcile_pending: the first order of a name, open or in flight.        *)
Reconciled == [s \in Symbols |->
  IF live[s] = <<>> THEN ""
  ELSE IF live[s][1].side = "BUY" THEN "exit" ELSE "enter"]

(* on_start: reservations from the orders, the book from the positions; no *)
(* trail is rebuilt.                                                       *)
OnStart ==
  /\ ~up /\ up' = TRUE
  /\ pending' = Reconciled /\ held' = Short
  /\ UNCHANGED <<env, day, clock, fired, trail, printed, short, live, leg, intent, atOpen,
                 missed>>

VenueActs == \E s \in Symbols : \E i \in DOMAIN live[s] : Fills(s, i) \/ Ends(s, i)

Next ==
  \/ Cross \/ Close \/ NextDay \/ OnBar \/ AlertRefuses \/ SessionIntent \/ GiveUp
  \/ \E s \in Symbols : SendCover(s) \/ SendOpening(s) \/ SendReplacement(s)
  \/ VenueActs \/ \E s \in Symbols : ProtectiveClose(s)
  \/ Stop \/ OnStart

Spec == Init /\ [][Next]_vars

-----------------------------------------------------------------------------
TypeOK ==
  /\ env \in Envs /\ day \in 1..Days /\ clock \in {"pre", "rth", "shut"}
  /\ fired \subseteq Before \cup After /\ {up, printed} \subseteq BOOLEAN
  /\ {held, trail, atOpen} \subseteq SUBSET Symbols
  /\ \A s \in Symbols : short[s] \in Int /\ pending[s] \in {"", "enter", "exit"}
  /\ missed \subseteq (1..Days) \X (Before \cup After)

(* Orders fill whole, and no stop fills while the lane's own cover is out: *)
(* the premise of what follows.                                            *)
Plain == env \cap {"parts", "races"} = {}

Selling == {s \in Symbols : \E i \in DOMAIN live[s] : live[s][i].side = "SELL"}

(* "A slot is spent at submit": what is short and what rests to become     *)
(* short never exceeds n_slots, over slots, refusals, stops and restarts.  *)
SlotsKept == Plain /\ "cancels" \notin env => Cardinality(Short \cup Selling) <= NSlots

(* A reservation stands for an order that is still out, and every order of *)
(* a running lane has one: no slot leaks and none is lost, whatever ended  *)
(* the order.                                                              *)
ReservedIsLive ==
  up /\ Plain =>
    \A s \in Symbols : pending[s] = "" <=> live[s] = <<>>

(* With nothing out, the lane knows what it is short, and every trail is   *)
(* that of a name it holds.                                                *)
BookIsTrue ==
  /\ up /\ Quiet /\ Plain => held = Short
  /\ trail \subseteq held

(* "The only question that matters is whether a second order can double    *)
(* the position", and a cover never buys more than there is to cover.      *)
NeverDoubled == Plain => \A s \in Symbols : short[s] \in 0..Lot

(* A name that was short when the session opened is not shorted by an      *)
(* order of that session, even after it was covered.                       *)
SpentForToday == Plain => \A s \in atOpen : ~SendOpening(s) /\ ~SendReplacement(s)
NotReshorted == [][SpentForToday]_vars

=============================================================================
