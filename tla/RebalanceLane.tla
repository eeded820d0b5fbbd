---------------------------- MODULE RebalanceLane ----------------------------
(***************************************************************************)
(* The two monthly lanes' adapters (qc345_rotation/nautilus.py and         *)
(* qc27_tech_inverse_vol/nautilus.py).  An alert a day makes a session     *)
(* due; it is decided when its bar is in the panel, nothing is in flight   *)
(* and the lane is warm; on a day that is not its month's first, QC345     *)
(* takes its trail exits and QC27 nothing.  A lane hands the decision to   *)
(* a session runner, or trades it itself and follows its book by the order *)
(* events.                                                                 *)
(*                                                                         *)
(* Ranking enters as any target its rules allow.  Arming against a         *)
(* calendar that refuses is LaneTimers' subject: here a next slot is set.  *)
(* env says what this behaviour's surroundings do.                         *)
(*                                                                         *)
(* A host that serves one callback at a time runs each to its end.  One    *)
(* that "overlaps" rings the alert on a thread of the clock, beside bars   *)
(* and order events on the loop; there the alert and _try_decide go step   *)
(* by step, reading _due anew at each, up to the decision itself.          *)
(***************************************************************************)
EXTENDS Integers, Sequences, FiniteSets

CONSTANTS
  Symbols,
  Size,        \* portfolio_size
  Lot,         \* shares of an entry
  Days,        \* bound: the last session
  MonthOf,     \* the month of a session, from 0
  Offset,      \* the configured decision offset
  Offsets,     \* those an operator may set
  MaxLive,     \* bound: orders of one symbol at once
  Envs         \* the surroundings explored, sets of
               \* {"parts", "races", "restarts", "edits", "overlaps"}

ASSUME SizesAssumption == Size \in Nat /\ Lot \in Nat \ {0} /\ MaxLive \in Nat \ {0}
ASSUME CalendarAssumption ==
  /\ Days \in Nat \ {0} /\ MonthOf \in [0..Days -> Nat]
  /\ \A d, e \in 0..Days : d <= e => MonthOf[d] <= MonthOf[e]
ASSUME OffsetsAssumption == Offset \in {1, 2} /\ Offsets \in (SUBSET {1, 2}) \ {{}}

VARIABLES
  lane,      \* which of the two
  hosted,    \* a session runner was given
  env,
  now,       \* three instants a session
  offset,    \* _open_offset
  armed,     \* the session alert: its session and its instant
  due,       \* _due; 0 is None
  bars,      \* the dates of the panel; 0 is history
  warm,
  forced,    \* _forced_rebalance
  book,      \* _held, _pending, and what the lane has at the venue
  pos,       \* its positions in the cache
  task,      \* the session the runner is at
  missed,    \* missed_rebalances
  deferred,  \* sessions that counted as warmup_deferrals
  skipped,   \* skipped_sessions, and the row of _record_skipped
  thread,    \* where the callback of each thread is
  fired,     \* history: sessions whose alert fired
  decided    \* history: decisions taken for a session

vars == <<lane, hosted, env, now, offset, armed, due, bars, warm, forced, book, pos, task,
          missed, deferred, skipped, thread, fired, decided>>

Threads == {"loop", "clock"}
Within(at, day, panel) == [at |-> at, day |-> day, panel |-> panel]
Rest == Within("rest", 0, {})
Resting == [th \in Threads |-> Rest]
Overlaps == "overlaps" \in env

Sessions == 1..Days
Today == (now \div 3) + 1
At(d, o) == 3 * (d - 1) + o
Never == [day |-> 0, at |-> 0]

(* _arm: calendar.next_fire, strictly after.                               *)
NextFire(after, o) ==
  LET later == {d \in Sessions : At(d, o) > after}
  IN  IF later = {} THEN Never
      ELSE LET d == CHOOSE d \in later : \A e \in later : d <= e
           IN  [day |-> d, at |-> At(d, o)]

Idle == [s \in Symbols |-> ""]
Shown(p) == {s \in Symbols : p[s] > 0}

Init ==
  /\ lane \in {"QC345", "QC27"} /\ hosted \in BOOLEAN /\ env \in Envs
  /\ now = 0 /\ offset = Offset /\ armed = NextFire(0, Offset)
  /\ due = 0 /\ bars = {0} /\ warm \in BOOLEAN
  /\ forced = {} /\ pos = [s \in Symbols |-> 0]
  /\ book = [held |-> {}, pending |-> Idle, live |-> [s \in Symbols |-> <<>>]]
  /\ task = 0 /\ missed = {} /\ deferred = {} /\ skipped = {} /\ fired = {}
  /\ thread = Resting
  /\ decided = [d \in Sessions |-> 0]

-----------------------------------------------------------------------------
(* Orders of the lane itself.                                              *)

Sent(bk, s, kind, side, qty) ==
  [bk EXCEPT !.pending[s] = kind, !.live[s] = Append(@, [side |-> side, left |-> qty])]

(* _close: sells what the cache, p, shows; a name it does not show is      *)
(* dropped.                                                                *)
Close(bk, p, s) ==
  IF p[s] = 0 THEN [bk EXCEPT !.held = @ \ {s}] ELSE Sent(bk, s, "exit", "SELL", p[s])

Open(bk, s) == Sent(bk, s, "enter", "BUY", Lot)

(* A name is closed or opened once; the order among names shows nowhere.   *)
Traded(bk, p, exits, entries) ==
  [held    |-> bk.held \ {s \in exits : p[s] = 0},
   pending |-> [s \in Symbols |->
                  IF s \in exits THEN Close(bk, p, s).pending[s]
                  ELSE IF s \in entries THEN Open(bk, s).pending[s] ELSE bk.pending[s]],
   live    |-> [s \in Symbols |->
                  IF s \in exits THEN Close(bk, p, s).live[s]
                  ELSE IF s \in entries THEN Open(bk, s).live[s] ELSE bk.live[s]]]

(* engine.decide.  QC345 ranks the scanner's universe and what is held     *)
(* there; what is new must be in the universe.                             *)
Targets(names) == {t \in SUBSET names : Cardinality(t) <= Size}

Decision(held, target, universe) ==
  [enter |-> (target \ held) \cap universe, exit |-> held \ target]

(* _trail_exits: of the names in _held, those the cache shows.             *)
TrailExits(bk, p) == SUBSET (bk.held \cap Shown(p))

(* _exit_only_for                                                          *)
ExitOnly(bk, p) == \E out \in TrailExits(bk, p) : book' = Traded(bk, p, out, {})

(* _decide_for, QC345: names out by the trail are neither ranked nor       *)
(* entered; where only they have rows, nothing else is decided.  A name    *)
(* that cannot be opened (no instrument, no price, less than a share) is   *)
(* passed over.                                                            *)
Decides345(bk, p) ==
  \E out \in TrailExits(bk, p) :
    \/ out # {} /\ book' = Traded(bk, p, out, {})
    \/ \E universe \in SUBSET Symbols :
       \E target \in Targets((universe \cup bk.held) \ out) :
         LET d == Decision(bk.held, target, universe)
         IN  \E entries \in SUBSET d.enter : book' = Traded(bk, p, d.exit \cup out, entries)

(* _decide_for, QC27.                                                      *)
Decides27(bk, p) ==
  \E target \in Targets(Symbols) :
    LET d == Decision(bk.held, target, Symbols)
    IN  \E entries \in SUBSET d.enter : book' = Traded(bk, p, d.exit, entries)

-----------------------------------------------------------------------------
(* A due session.                                                          *)

(* rebalance_dates: the first date of its month in the panel.              *)
FirstDate(d, panel) == d \in panel /\ \A e \in panel : MonthOf[e] = MonthOf[d] => d <= e

(* _run_session: one at a time.                                            *)
RunSession(d, m) ==
  IF task # 0
  THEN missed' = m \cup {d} /\ UNCHANGED <<task, decided>>
  ELSE /\ missed' = m /\ task' = d
       /\ decided' = [decided EXCEPT ![d] = @ + 1]

(* The session is decided by the lane itself.                              *)
DecidedHere(d, m) ==
  /\ decided' = [decided EXCEPT ![d] = @ + 1]
  /\ missed' = m /\ UNCHANGED task

(* _record_skipped                                                         *)
Skipped(d, m) == skipped' = skipped \cup {d} /\ missed' = m /\ UNCHANGED <<task, decided>>

(* What _try_decide makes of a session it has taken up.                    *)
Take345(bk, p, d, panel, m) ==
  IF ~(d \in forced \/ FirstDate(d, panel)) THEN ExitOnly(bk, p) /\ Skipped(d, m)
  ELSE /\ UNCHANGED skipped
       /\ IF hosted THEN RunSession(d, m) /\ book' = bk
          ELSE Decides345(bk, p) /\ DecidedHere(d, m)

Take27(bk, p, d, panel, m) ==
  IF ~FirstDate(d, panel) THEN book' = bk /\ Skipped(d, m)
  ELSE /\ UNCHANGED skipped
       /\ IF hosted THEN RunSession(d, m) /\ book' = bk
          ELSE Decides27(bk, p) /\ DecidedHere(d, m)

MayDecide(bk, d, panel, w) ==
  /\ d # 0 /\ bk.pending = Idle /\ w
  /\ d \in panel /\ \E e \in panel : e < d

(* MaxLive bounds the orders a decision may leave.                         *)
Room == \A s \in Symbols : Len(book'.live[s]) <= MaxLive

(* _try_decide takes up d.                                                 *)
Takes(bk, p, d, panel, m) ==
  /\ due' = 0
  /\ IF lane = "QC345" THEN Take345(bk, p, d, panel, m) ELSE Take27(bk, p, d, panel, m)

(* _try_decide on a thread, with the values a handler has just left.       *)
TryDecide(th, bk, p, d, panel, w, m) ==
  /\ IF MayDecide(bk, d, panel, w) /\ ~Overlaps
     THEN Takes(bk, p, d, panel, m) /\ UNCHANGED thread
     ELSE /\ due' = d /\ book' = bk /\ missed' = m /\ UNCHANGED <<task, skipped, decided>>
          /\ thread' = [thread EXCEPT ![th] =
                          IF MayDecide(bk, d, panel, w)
                          THEN Within("take", 0, panel) ELSE Rest]
  /\ Room

(* It goes on with what is due by then, on the panel it looked at.  None,  *)
(* when the other thread has taken the session, is no rebalance day.       *)
GoesOn(th) ==
  /\ thread[th].at = "take" /\ thread' = [thread EXCEPT ![th] = Rest]
  /\ IF due # 0 THEN Takes(book, pos, due, thread[th].panel, missed)
     ELSE /\ IF lane = "QC345" THEN ExitOnly(book, pos) ELSE UNCHANGED book
          /\ UNCHANGED <<due, missed, task, skipped, decided>>
  /\ Room
  /\ UNCHANGED <<lane, hosted, env, now, offset, armed, bars, warm, forced, pos, deferred, fired>>

-----------------------------------------------------------------------------
(* The clock and the feed.                                                 *)

LoopRests == thread["loop"] = Rest
Quiet == \A s \in Symbols : book.live[s] = <<>>

(* A DAY order has ended by the close; a callback takes no time.           *)
Ticks ==
  /\ thread = Resting
  /\ now < At(Days, 2)
  /\ armed = Never \/ now < armed.at
  /\ now % 3 = 2 => Quiet
  /\ now' = now + 1
  /\ UNCHANGED <<lane, hosted, env, offset, armed, due, bars, warm, forced, book, pos, task,
                 missed, deferred, skipped, thread, fired, decided>>

(* Mutant: the session that never got its bar is dropped without a word.   *)
OverdueUnsaid == <<missed, deferred>>

(* What the alert makes of a session still due: QC27 tells a cold lane     *)
(* from a missed rebalance.                                                *)
Overdue ==
  IF due = 0 THEN <<missed, deferred>>
  ELSE IF lane = "QC27" /\ ~warm THEN <<missed, deferred \cup {due}>>
  ELSE <<missed \cup {due}, deferred>>

(* _reread_open_offset: what it cannot read or use leaves the offset.      *)
Rereads == IF "edits" \in env THEN Offsets ELSE {offset}

Rearms ==
  /\ armed # Never /\ now = armed.at
  /\ \E o \in Rereads : offset' = o /\ armed' = NextFire(now, o)
  /\ fired' = fired \cup {armed.day}

(* _on_session_alert                                                       *)
Alert ==
  /\ ~Overlaps /\ Rearms
  /\ deferred' = Overdue[2]
  /\ TryDecide("clock", book, pos, armed.day, bars, warm, Overdue[1])
  /\ UNCHANGED <<lane, hosted, env, now, bars, warm, forced, pos>>

(* The same on a thread of its own: it re-arms and looks at _due, says     *)
(* what of it, and marks its session.                                      *)
AlertFires ==
  /\ Overlaps /\ thread["clock"] = Rest /\ Rearms
  /\ thread' = [thread EXCEPT !["clock"] =
                  Within(IF due = 0 THEN "mark" ELSE "overdue", armed.day, {})]
  /\ UNCHANGED <<lane, hosted, env, now, due, bars, warm, forced, book, pos, task, missed,
                 deferred, skipped, decided>>

(* By now the loop may have taken what was due: the warning reads the date *)
(* of None, and the callback ends there, its own session unmarked.  A cold *)
(* QC27 only counts.                                                       *)
AlertSays ==
  /\ thread["clock"].at = "overdue"
  /\ missed' = Overdue[1] /\ deferred' = Overdue[2]
  /\ thread' = [thread EXCEPT !["clock"] =
                  IF due = 0 /\ (lane = "QC345" \/ warm) THEN Rest
                  ELSE Within("mark", @.day, {})]
  /\ UNCHANGED <<lane, hosted, env, now, offset, armed, due, bars, warm, forced, book, pos, task,
                 skipped, fired, decided>>

AlertMarks ==
  /\ thread["clock"].at = "mark"
  /\ TryDecide("clock", book, pos, thread["clock"].day, bars, warm, missed)
  /\ UNCHANGED <<lane, hosted, env, now, offset, armed, bars, warm, forced, pos, deferred, fired>>

AlertBeside == AlertFires \/ AlertSays \/ AlertMarks \/ \E th \in Threads : GoesOn(th)

Qc345Alert == lane = "QC345" /\ Alert
Qc27Alert == lane = "QC27" /\ Alert

(* on_bar: the day's bar, perhaps the one that completes the warm-up, and  *)
(* perhaps again.                                                          *)
OnBar ==
  /\ LoopRests
  /\ \E w \in {warm, TRUE} :
       /\ warm' = w
       /\ bars' = bars \cup {Today}
       /\ TryDecide("loop", book, pos, due, bars', w, missed)
  /\ UNCHANGED <<lane, hosted, env, now, offset, armed, forced, pos, deferred, fired>>

Qc345Bar == lane = "QC345" /\ OnBar
Qc27Bar == lane = "QC27" /\ OnBar

(* on_historical_data fills the panel and looks no further.                *)
OnHistory ==
  /\ LoopRests
  /\ bars' = bars \cup {d \in Sessions : d < Today}
  /\ warm' \in {warm, TRUE}
  /\ UNCHANGED <<lane, hosted, env, now, offset, armed, due, forced, book, pos, task, missed,
                 deferred, skipped, thread, fired, decided>>

(* _on_rebalance_override, of QC345.                                       *)
OnRebalanceOverride ==
  /\ LoopRests /\ lane = "QC345" /\ "edits" \in env
  /\ \E d \in Sessions : forced' = forced \cup {d}
  /\ UNCHANGED <<lane, hosted, env, now, offset, armed, due, bars, warm, book, pos, task,
                 missed, deferred, skipped, thread, fired, decided>>

-----------------------------------------------------------------------------
(* What the venue answers.                                                 *)

Without(q, i) == SubSeq(q, 1, i - 1) \o SubSeq(q, i + 1, Len(q))
FillSizes(n) == IF "parts" \in env THEN 1..n ELSE {n}

(* order_provenance.completes, of a long lane.                             *)
Completes(intent, side) ==
  \/ intent = ""
  \/ intent = "enter" /\ side = "BUY"
  \/ intent = "exit" /\ side = "SELL"

(* Mutant: whatever is reserved is taken for an entry.                     *)
HeldAfterAnyFill(held, intent, s) == IF intent = "" THEN held ELSE held \cup {s}

HeldAfter(held, intent, s) ==
  IF intent = "enter" THEN held \cup {s}
  ELSE IF intent = "exit" THEN held \ {s} ELSE held

(* A fill, and on_order_filled.                                            *)
Fills(s, i) ==
  LET o == book.live[s][i]
      bk == [book EXCEPT !.live[s] = Without(@, i)]
  IN  /\ LoopRests
      /\ \E n \in FillSizes(o.left) :
           /\ o.side = "SELL" => pos[s] >= n
           /\ pos' = [pos EXCEPT ![s] = @ + (IF o.side = "BUY" THEN n ELSE -n)]
           /\ LET rest == IF n = o.left THEN bk
                          ELSE [book EXCEPT !.live[s][i].left = @ - n]
              IN  IF Completes(book.pending[s], o.side)
                  THEN TryDecide("loop",
                                 [rest EXCEPT !.pending[s] = "",
                                              !.held = HeldAfter(@, book.pending[s], s)],
                                 pos', due, bars, warm, missed)
                  ELSE book' = rest /\ UNCHANGED <<due, missed, task, skipped, thread, decided>>
      /\ UNCHANGED <<lane, hosted, env, now, offset, armed, bars, warm, forced, deferred, fired>>

(* Mutant: _forget does not look again.                                    *)
ForgetOnly(bk, s) ==
  /\ book' = [bk EXCEPT !.pending[s] = ""]
  /\ UNCHANGED <<due, missed, task, skipped, thread, decided>>

(* _forget                                                                 *)
Forget(bk, s) == TryDecide("loop", [bk EXCEPT !.pending[s] = ""], pos, due, bars, warm, missed)

(* Denied, rejected, canceled or expired: what is left will not fill.      *)
Ends(s, i) ==
  /\ LoopRests
  /\ Forget([book EXCEPT !.live[s] = Without(@, i)], s)
  /\ UNCHANGED <<lane, hosted, env, now, offset, armed, bars, warm, forced, pos, deferred, fired>>

Answers == \E s \in Symbols : \E i \in DOMAIN book.live[s] : Fills(s, i) \/ Ends(s, i)

(* The handlers of each lane, on_order_filled to on_order_expired.         *)
Qc345Answers == lane = "QC345" /\ Answers
Qc27Answers == lane = "QC27" /\ Answers

(* protective_close: a stop of another component empties a position.       *)
ProtectiveClose(s) ==
  /\ LoopRests /\ pos[s] > 0
  /\ book.pending[s] # "" => "races" \in env
  /\ pos' = [pos EXCEPT ![s] = 0]
  /\ book' = IF s \in book.held
             THEN [book EXCEPT !.held = @ \ {s}, !.pending[s] = ""] ELSE book
  /\ UNCHANGED <<lane, hosted, env, now, offset, armed, due, bars, warm, forced, task, missed,
                 deferred, skipped, thread, fired, decided>>

-----------------------------------------------------------------------------
(* _session_coro, and what its runner trades: a fill that no reservation   *)
(* of the adapter waits for.                                               *)
RunnerTrades(s) ==
  /\ LoopRests /\ hosted /\ task # 0 /\ book.pending[s] = ""
  /\ \E n \in {0, Lot} : pos' = [pos EXCEPT ![s] = n]
  /\ TryDecide("loop", book, pos', due, bars, warm, missed)
  /\ UNCHANGED <<lane, hosted, env, now, offset, armed, bars, warm, forced, deferred, fired>>

SessionEnds ==
  /\ LoopRests /\ task # 0
  /\ \E raised \in BOOLEAN : missed' = IF raised THEN missed \cup {task} ELSE missed
  /\ task' = 0
  /\ UNCHANGED <<lane, hosted, env, now, offset, armed, due, bars, warm, forced, book, pos,
                 deferred, skipped, thread, fired, decided>>

Qc345Session == lane = "QC345" /\ SessionEnds
Qc27Session == lane = "QC27" /\ SessionEnds

(* on_stop, and on_start of the next process: _held is seeded from the     *)
(* cache, nothing is reserved, history refills the panel in full or not,   *)
(* only the configured days stay forced.                                   *)
Restart ==
  /\ "restarts" \in env
  /\ due' = 0 /\ task' = 0 /\ forced' = {}
  /\ missed' = {} /\ deferred' = {} /\ skipped' = {}
  /\ armed' = NextFire(now, offset)
  /\ book' = [book EXCEPT !.held = Shown(pos), !.pending = Idle]
  /\ \E h \in SUBSET bars : bars' = h \cup {0}
  /\ warm' \in BOOLEAN /\ thread' = Resting
  /\ UNCHANGED <<lane, hosted, env, now, offset, pos, fired, decided>>

Qc345Restart == lane = "QC345" /\ Restart
Qc27Restart == lane = "QC27" /\ Restart

Next ==
  \/ Ticks \/ Qc345Bar \/ Qc27Bar \/ OnHistory \/ OnRebalanceOverride
  \/ Qc345Alert \/ Qc27Alert \/ AlertBeside \/ Qc345Answers \/ Qc27Answers
  \/ Qc345Session \/ Qc27Session \/ Qc345Restart \/ Qc27Restart
  \/ \E s \in Symbols : ProtectiveClose(s) \/ RunnerTrades(s)

Spec == Init /\ [][Next]_vars

(* The venue answers what it accepted, a session comes to an end, and so   *)
(* does a callback.                                                        *)
FairSpec ==
  /\ Spec
  /\ WF_vars(AlertBeside)
  /\ WF_vars(Qc345Answers) /\ WF_vars(Qc27Answers) /\ WF_vars(SessionEnds)

-----------------------------------------------------------------------------
TypeOK ==
  /\ lane \in {"QC345", "QC27"} /\ hosted \in BOOLEAN /\ env \in Envs /\ warm \in BOOLEAN
  /\ now \in 0..At(Days, 2) /\ offset \in Offsets \cup {Offset}
  /\ due \in 0..Days /\ task \in 0..Days
  /\ bars \subseteq 0..Days /\ 0 \in bars
  /\ {forced, missed, deferred, skipped, fired} \subseteq SUBSET Sessions
  /\ book.held \subseteq Symbols
  /\ \A th \in Threads : thread[th].day \in 0..Days /\ thread[th].panel \subseteq 0..Days
  /\ \A s \in Symbols :
       /\ pos[s] \in Nat /\ book.pending[s] \in {"", "enter", "exit"}
       /\ \A i \in DOMAIN book.live[s] : book.live[s][i].left \in Nat \ {0}

(* No session is passed over in silence: once its alert has fired it is    *)
(* due, decided, recorded as missed, counted as one the lane was too cold  *)
(* for, or skipped, which a month's first session never is.                *)
FirstOfMonth(d) == \A e \in 0..Days : MonthOf[e] = MonthOf[d] => d <= e
AllAccounted ==
  \A d \in fired :
    \/ d = due \/ decided[d] > 0 \/ d \in missed \cup deferred
    \/ d \in skipped /\ ~FirstOfMonth(d)

(* One process, undisturbed by its operator, that serves one callback at a *)
(* time: the premises of what follows.                                     *)
Steady == env \cap {"restarts", "edits", "overlaps"} = {}
MonthAccounted == Steady => AllAccounted

(* What the code promises of any host, once its callbacks have ended; an   *)
(* alert beside a bar breaks it.                                           *)
MonthAccountedAnywhere ==
  env \cap {"restarts", "edits"} = {} /\ thread = Resting => AllAccounted

(* A month is rebalanced at most once, unless the feed lost a day.         *)
MonthOnce ==
  Steady => \A d, e \in Sessions :
    /\ decided[d] <= 1
    /\ MonthOf[d] = MonthOf[e] /\ decided[d] > 0 /\ decided[e] > 0 => d = e

(* Every month is rebalanced once, or its first session is on record as    *)
(* the one that was not.                                                   *)
MonthIsRebalanced == MonthAccounted /\ MonthOnce

(* One process that serves a callback at a time, whole fills and no race. *)
Alone == env \cap {"parts", "races", "restarts", "overlaps"} = {}

(* "Book state, driven by ORDER EVENTS": with nothing in flight, a lane    *)
(* that trades itself knows what it holds, through refusals, expiries and  *)
(* the stops of others, as long as orders fill whole and one process sees  *)
(* their answers, a callback at a time.                                    *)
HeldIsTrue ==
  ~hosted /\ Alone /\ Quiet => book.held = Shown(pos)

(* A name never has two orders at the venue, one opening what the other    *)
(* closes.                                                                 *)
OneOrderEach ==
  Alone => \A s \in Symbols : Len(book.live[s]) <= 1

(* The book the next decision starts from: what the lane holds, and no     *)
(* name in two orders.                                                     *)
BookIsKnown == HeldIsTrue /\ OneOrderEach

(* A due session that an order in flight holds back is taken up once the   *)
(* venue has answered, by a fill, a refusal or an expiry alike; no bar and *)
(* no alert need come.                                                     *)
HeldBack(d) == due = d /\ warm /\ d \in bars /\ book.pending # Idle
HeldBackIsServed ==
  \A d \in Sessions : HeldBack(d) /\ "races" \notin env ~> due # d

=============================================================================
