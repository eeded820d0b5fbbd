--------------------------- MODULE RebalanceProofs ---------------------------
(***************************************************************************)
(* The adapters of the monthly lanes for every value of their constants:   *)
(* types, what becomes of a month's sessions, and the book the next        *)
(* decision starts from.                                                   *)
(***************************************************************************)
EXTENDS RebalanceLane, SumTheorems, SequenceTheorems, TLAPS

Kinds == {"", "enter", "exit"}
Placed == [side : {"BUY", "SELL"}, left : Nat \ {0}]
Books == [held : SUBSET Symbols, pending : [Symbols -> Kinds], live : [Symbols -> Seq(Placed)]]
Sell(n) == [side |-> "SELL", left |-> n]
Buy == [side |-> "BUY", left |-> Lot]
Added(q, o) == Append(q, o)
Alarms == {Never} \cup [day : Sessions, at : Nat]
Positions == [Symbols -> Nat]
Callbacks == [at : {"rest", "overdue", "mark", "take"}, day : 0..Days, panel : SUBSET (0..Days)]

(* Beside the loop only where a host overlaps its callbacks.               *)
ThreadsTyped ==
  /\ thread \in [Threads -> Callbacks]
  /\ ~Overlaps => \A th \in Threads : thread[th] = Rest

(* What every variable holds; what TypeOK says is part of it.              *)
TypeInv ==
  /\ lane \in {"QC345", "QC27"} /\ hosted \in BOOLEAN /\ env \in Envs /\ warm \in BOOLEAN
  /\ now \in 0..At(Days, 2) /\ offset \in Offsets \cup {Offset} /\ armed \in Alarms
  /\ due \in 0..Days /\ task \in 0..Days
  /\ bars \in SUBSET (0..Days) /\ 0 \in bars
  /\ forced \in SUBSET Sessions /\ missed \in SUBSET Sessions /\ deferred \in SUBSET Sessions
  /\ skipped \in SUBSET Sessions /\ fired \in SUBSET Sessions
  /\ book \in Books /\ pos \in Positions /\ decided \in [Sessions -> Nat]
  /\ ThreadsTyped

(* A session comes after what is before it, if there is one to come.       *)
LEMMA NextFireIs ==
  ASSUME NEW after \in Nat, NEW o \in {1, 2}, NextFire(after, o) # Never
  PROVE  \E d \in Sessions : At(d, o) > after /\ NextFire(after, o) = [day |-> d, at |-> At(d, o)]
<1> DEFINE later == {d \in Sessions : At(d, o) > after}
           F == {1..d : d \in later}
<1>1. later # {}
  BY DEF NextFire
<1>2. PICK T \in F : \A U \in F : U \subseteq T => U = T
  <2>1. IsFiniteSet(Sessions)
    BY CalendarAssumption, FS_Interval DEF Sessions
  <2>2. F \subseteq SUBSET Sessions /\ F # {}
    BY <1>1, CalendarAssumption DEF Sessions
  <2> HIDE DEF F
  <2> QED
    BY <2>1, <2>2, Smallest
<1>3. PICK d \in later : T = 1..d
  OBVIOUS
<1>4. \A e \in later : d <= e
  <2> SUFFICES ASSUME NEW e \in later, ~(d <= e) PROVE FALSE
    OBVIOUS
  <2>1. e \in Int /\ d \in Int /\ e >= 1 /\ e < d
    BY CalendarAssumption DEF Sessions
  <2>2. 1..e \in F /\ 1..e \subseteq 1..d
    BY <2>1
  <2>3. 1..e = 1..d
    BY <1>2, <1>3, <2>2
  <2> QED
    BY <2>1, <2>3
<1> DEFINE first == CHOOSE x \in later : \A e \in later : x <= e
<1>5. first \in later
  BY <1>4
<1>6. NextFire(after, o) = [day |-> first, at |-> At(first, o)]
  BY <1>1 DEF NextFire
<1> QED
  BY <1>5, <1>6

LEMMA NextFireTyped ==
  ASSUME NEW after \in Nat, NEW o \in {1, 2}
  PROVE  NextFire(after, o) \in Alarms
<1>1. CASE NextFire(after, o) = Never
  BY <1>1 DEF Alarms
<1>2. CASE NextFire(after, o) # Never
  <2>1. PICK d \in Sessions : At(d, o) > after /\ NextFire(after, o) = [day |-> d, at |-> At(d, o)]
    BY <1>2, NextFireIs
  <2>2. At(d, o) \in Nat
    BY CalendarAssumption DEF At, Sessions
  <2> QED
    BY <2>1, <2>2 DEF Alarms
<1> QED
  BY <1>1, <1>2

-----------------------------------------------------------------------------
(* What trading does to the book, name by name.                            *)
LEMMA TradedHeld ==
  ASSUME NEW bk \in Books, NEW p \in Positions,
         NEW exits \in SUBSET Symbols, NEW entries \in SUBSET Symbols
  PROVE  \A s : s \in Traded(bk, p, exits, entries).held
                <=> s \in bk.held /\ ~(s \in exits /\ p[s] = 0)
  BY DEF Traded

LEMMA TradedIs ==
  ASSUME NEW bk \in Books, NEW p \in Positions,
         NEW exits \in SUBSET Symbols, NEW entries \in SUBSET Symbols, NEW s \in Symbols
  PROVE  LET after == Traded(bk, p, exits, entries)
         IN  IF s \in exits /\ p[s] # 0
             THEN after.pending[s] = "exit" /\ after.live[s] = Added(bk.live[s], Sell(p[s]))
             ELSE IF s \notin exits /\ s \in entries
             THEN after.pending[s] = "enter" /\ after.live[s] = Added(bk.live[s], Buy)
             ELSE after.pending[s] = bk.pending[s] /\ after.live[s] = bk.live[s]
  BY DEF Traded, Close, Open, Sent, Books, Sell, Buy, Added

LEMMA TradedTyped ==
  ASSUME NEW bk \in Books, NEW p \in Positions,
         NEW exits \in SUBSET Symbols, NEW entries \in SUBSET Symbols
  PROVE  Traded(bk, p, exits, entries) \in Books
<1> DEFINE after == Traded(bk, p, exits, entries)
<1>1. after = [held |-> after.held, pending |-> [s \in Symbols |-> after.pending[s]],
               live |-> [s \in Symbols |-> after.live[s]]]
  BY DEF Traded
<1>2. after.held \in SUBSET Symbols
  <2>1. \A s : s \in after.held => s \in bk.held
    BY TradedHeld
  <2>2. bk.held \subseteq Symbols
    BY DEF Books
  <2> QED
    BY <2>1, <2>2
<1>3. ASSUME NEW s \in Symbols PROVE after.pending[s] \in Kinds /\ after.live[s] \in Seq(Placed)
  <2>1. bk.pending[s] \in Kinds /\ bk.live[s] \in Seq(Placed)
    BY DEF Books
  <2>2. Buy \in Placed
    BY SizesAssumption DEF Placed, Buy
  <2>3. p[s] # 0 => Sell(p[s]) \in Placed
    BY DEF Placed, Positions, Sell
  <2>4. Added(bk.live[s], Buy) \in Seq(Placed)
    BY <2>1, <2>2, AppendProperties DEF Added
  <2>5. p[s] # 0 => Added(bk.live[s], Sell(p[s])) \in Seq(Placed)
    BY <2>1, <2>3, AppendProperties DEF Added
  <2>6. \/ after.pending[s] = bk.pending[s] /\ after.live[s] = bk.live[s]
        \/ /\ p[s] # 0 /\ after.pending[s] = "exit"
           /\ after.live[s] = Added(bk.live[s], Sell(p[s]))
        \/ /\ after.pending[s] = "enter"
           /\ after.live[s] = Added(bk.live[s], Buy)
    BY TradedIs
  <2> HIDE DEF after
  <2> QED
    BY <2>1, <2>4, <2>5, <2>6 DEF Kinds
<1> HIDE DEF after
<1>4. [s \in Symbols |-> after.pending[s]] \in [Symbols -> Kinds]
  BY <1>3
<1>5. [s \in Symbols |-> after.live[s]] \in [Symbols -> Seq(Placed)]
  BY <1>3
<1>6. after \in Books
  BY <1>1, <1>2, <1>4, <1>5 DEF Books
<1> QED
  BY <1>6 DEF after

(* What a decision makes of the book: nothing, or exits of what is held    *)
(* and entries of what is not, and then nothing was in flight.             *)
Trades(bk, p, after) ==
  \E exits \in SUBSET bk.held, entries \in SUBSET (Symbols \ bk.held) :
    after = Traded(bk, p, exits, entries)

LEMMA DecisionsTrade ==
  ASSUME NEW bk \in Books, NEW p \in Positions
  PROVE  /\ ExitOnly(bk, p) => Trades(bk, p, book') /\ (bk.held = {} => book' = Traded(bk, p, {}, {}))
         /\ Decides345(bk, p) \/ Decides27(bk, p) => Trades(bk, p, book')
<1>0. bk.held \subseteq Symbols
  BY DEF Books
<1>1. ASSUME ExitOnly(bk, p)
      PROVE  Trades(bk, p, book') /\ (bk.held = {} => book' = Traded(bk, p, {}, {}))
  <2>1. PICK out \in TrailExits(bk, p) : book' = Traded(bk, p, out, {})
    BY <1>1 DEF ExitOnly
  <2>2. out \in SUBSET bk.held /\ {} \in SUBSET (Symbols \ bk.held)
    BY <2>1 DEF TrailExits
  <2>3. bk.held = {} => out = {}
    BY <2>2
  <2> QED
    BY <2>1, <2>2, <2>3 DEF Trades
<1>2. ASSUME Decides345(bk, p) PROVE Trades(bk, p, book')
  <2>1. PICK out \in TrailExits(bk, p) :
          \/ out # {} /\ book' = Traded(bk, p, out, {})
          \/ \E universe \in SUBSET Symbols :
             \E target \in Targets((universe \cup bk.held) \ out) :
               LET d == Decision(bk.held, target, universe)
               IN  \E entries \in SUBSET d.enter : book' = Traded(bk, p, d.exit \cup out, entries)
    BY <1>2 DEF Decides345
  <2>2. out \in SUBSET bk.held
    BY <2>1 DEF TrailExits
  <2>3. CASE book' = Traded(bk, p, out, {})
    BY <2>2, <2>3 DEF Trades
  <2>4. ASSUME NEW universe \in SUBSET Symbols,
               NEW target \in Targets((universe \cup bk.held) \ out),
               NEW entries \in SUBSET Decision(bk.held, target, universe).enter,
               book' = Traded(bk, p, Decision(bk.held, target, universe).exit \cup out, entries)
        PROVE  Trades(bk, p, book')
    <3>1. Decision(bk.held, target, universe).exit \cup out \in SUBSET bk.held
      BY <2>2 DEF Decision
    <3>2. entries \in SUBSET (Symbols \ bk.held)
      BY DEF Decision
    <3> QED
      BY <2>4, <3>1, <3>2 DEF Trades
  <2> QED
    BY <2>1, <2>3, <2>4
<1>3. ASSUME Decides27(bk, p) PROVE Trades(bk, p, book')
  <2>1. PICK target \in Targets(Symbols) :
          \E entries \in SUBSET Decision(bk.held, target, Symbols).enter :
            book' = Traded(bk, p, Decision(bk.held, target, Symbols).exit, entries)
    BY <1>3 DEF Decides27
  <2>2. PICK entries \in SUBSET Decision(bk.held, target, Symbols).enter :
          book' = Traded(bk, p, Decision(bk.held, target, Symbols).exit, entries)
    BY <2>1
  <2>3. Decision(bk.held, target, Symbols).exit \in SUBSET bk.held
    BY DEF Decision
  <2>4. entries \in SUBSET (Symbols \ bk.held)
    BY DEF Decision
  <2> QED
    BY <2>2, <2>3, <2>4 DEF Trades
<1> QED
  BY <1>1, <1>2, <1>3

(* What _try_decide does to the records: the session stays due, or it is   *)
(* skipped, missed or decided, and nothing was in flight.                  *)
Waits(d, m) == due' = d /\ missed' = m /\ UNCHANGED <<task, skipped, decided>>
Skips(d, panel, m) ==
  ~FirstDate(d, panel) /\ skipped' = skipped \cup {d} /\ missed' = m /\ UNCHANGED <<task, decided>>
Misses(d, m) == missed' = m \cup {d} /\ UNCHANGED <<task, skipped, decided>>
Rebalances(d, panel, m) ==
  /\ d \in forced \/ FirstDate(d, panel)
  /\ decided' = [decided EXCEPT ![d] = @ + 1] /\ missed' = m
  /\ task' \in {task, d} /\ UNCHANGED skipped

LEMMA TakesDo ==
  ASSUME NEW bk \in Books, NEW p \in Positions, NEW d, NEW panel, NEW m,
         Takes(bk, p, d, panel, m)
  PROVE  /\ due' = 0
         /\ \/ book' = bk
            \/ Trades(bk, p, book') /\ (hosted /\ bk.held = {} => book' = Traded(bk, p, {}, {}))
         /\ Skips(d, panel, m) \/ Misses(d, m) \/ Rebalances(d, panel, m)
<1>1. due' = 0
  BY DEF Takes
<1>2. RunSession(d, m) /\ UNCHANGED skipped =>
        Misses(d, m) \/ (d \in forced \/ FirstDate(d, panel) => Rebalances(d, panel, m))
  BY DEF RunSession, Misses, Rebalances
<1>3. DecidedHere(d, m) /\ UNCHANGED skipped /\ (d \in forced \/ FirstDate(d, panel))
        => Rebalances(d, panel, m)
  BY DEF DecidedHere, Rebalances
<1>4. CASE lane = "QC345"
  <2>1. Take345(bk, p, d, panel, m)
    BY <1>4 DEF Takes
  <2>2. CASE ~(d \in forced \/ FirstDate(d, panel))
    BY <1>1, <2>1, <2>2, DecisionsTrade DEF Take345, Skipped, Skips
  <2>3. CASE d \in forced \/ FirstDate(d, panel)
    BY <1>1, <1>2, <1>3, <2>1, <2>3, DecisionsTrade DEF Take345
  <2> QED
    BY <2>2, <2>3
<1>5. CASE lane # "QC345"
  <2>1. Take27(bk, p, d, panel, m)
    BY <1>5 DEF Takes
  <2> QED
    BY <1>1, <1>2, <1>3, <2>1, DecisionsTrade DEF Take27, Skipped, Skips
<1> QED
  BY <1>4, <1>5

LEMMA TryDecideDoes ==
  ASSUME NEW th, NEW bk \in Books, NEW p \in Positions, NEW d, NEW panel, NEW w, NEW m,
         TryDecide(th, bk, p, d, panel, w, m)
  PROVE  \/ book' = bk /\ Waits(d, m)
         \/ /\ d # 0 /\ d \in panel /\ bk.pending = Idle
            /\ Takes(bk, p, d, panel, m)
  BY DEF TryDecide, Waits, MayDecide

-----------------------------------------------------------------------------
(* The steps, whichever lane takes them.                                   *)
Acts ==
  \/ Ticks \/ OnBar \/ OnHistory \/ OnRebalanceOverride \/ Alert \/ SessionEnds \/ Restart
  \/ AlertFires \/ AlertSays \/ AlertMarks \/ \E th \in Threads : GoesOn(th)
  \/ \E s \in Symbols :
       \/ \E i \in DOMAIN book.live[s] : Fills(s, i) \/ Ends(s, i)
       \/ ProtectiveClose(s) \/ RunnerTrades(s)

LEMMA NextActs == Next => Acts
  BY DEF Next, Acts, Qc345Bar, Qc27Bar, Qc345Alert, Qc27Alert, Qc345Answers, Qc27Answers, Answers,
         Qc345Session, Qc27Session, Qc345Restart, Qc27Restart, AlertBeside

LEMMA TypesGiveTypeOK == TypeInv => TypeOK
<1> SUFFICES ASSUME TypeInv PROVE TypeOK
  OBVIOUS
<1>1. book.held \subseteq Symbols
  BY DEF TypeInv, Books
<1>2. ASSUME NEW s \in Symbols
      PROVE  /\ pos[s] \in Nat /\ book.pending[s] \in Kinds
             /\ \A i \in DOMAIN book.live[s] : book.live[s][i].left \in Nat \ {0}
  <2>1. book.live[s] \in Seq(Placed) /\ book.pending[s] \in Kinds /\ pos[s] \in Nat
    BY DEF TypeInv, Books, Positions
  <2>2. \A i \in DOMAIN book.live[s] : book.live[s][i] \in Placed
    BY <2>1
  <2> QED
    BY <2>1, <2>2 DEF Placed
<1>3. \A th \in Threads : thread[th].day \in 0..Days /\ thread[th].panel \subseteq 0..Days
  BY DEF TypeInv, ThreadsTyped, Callbacks
<1> QED
  BY <1>1, <1>2, <1>3 DEF TypeInv, TypeOK, Kinds

LEMMA TakesTyped ==
  ASSUME TypeInv, NEW bk \in Books, NEW p \in Positions, NEW d \in Sessions, NEW panel,
         NEW m \in SUBSET Sessions, Takes(bk, p, d, panel, m)
  PROVE  /\ book' \in Books /\ due' \in 0..Days /\ task' \in 0..Days
         /\ missed' \in SUBSET Sessions /\ skipped' \in SUBSET Sessions
         /\ decided' \in [Sessions -> Nat]
<1>0. task \in 0..Days /\ skipped \in SUBSET Sessions /\ decided \in [Sessions -> Nat]
  BY DEF TypeInv
<1>1. ASSUME NEW exits \in SUBSET bk.held, NEW entries \in SUBSET (Symbols \ bk.held),
             book' = Traded(bk, p, exits, entries)
      PROVE  book' \in Books
  <2>1. bk.held \subseteq Symbols
    BY DEF Books
  <2>2. exits \in SUBSET Symbols /\ entries \in SUBSET Symbols
    BY <2>1
  <2> QED
    BY <1>1, <2>2, TradedTyped
<1>2. Trades(bk, p, book') => book' \in Books
  BY <1>1 DEF Trades
<1>3. /\ due' = 0
      /\ book' = bk \/ Trades(bk, p, book')
      /\ Skips(d, panel, m) \/ Misses(d, m) \/ Rebalances(d, panel, m)
  BY TakesDo
<1>4. 0 \in 0..Days /\ Sessions \subseteq 0..Days
  BY CalendarAssumption DEF Sessions
<1>5. CASE Skips(d, panel, m)
  BY <1>0, <1>2, <1>3, <1>4, <1>5 DEF Skips
<1>6. CASE Misses(d, m)
  BY <1>0, <1>2, <1>3, <1>4, <1>6 DEF Misses
<1>7. CASE Rebalances(d, panel, m)
  BY <1>0, <1>2, <1>3, <1>4, <1>7 DEF Rebalances
<1> QED
  BY <1>3, <1>5, <1>6, <1>7

LEMMA ThreadSet ==
  ASSUME ThreadsTyped, NEW th \in Threads, NEW c \in Callbacks,
         thread' = [thread EXCEPT ![th] = c], UNCHANGED env, ~Overlaps => c = Rest
  PROVE  ThreadsTyped'
<1>1. thread' \in [Threads -> Callbacks]
  BY DEF ThreadsTyped
<1>2. ASSUME ~Overlaps, NEW u \in Threads PROVE thread'[u] = Rest
  BY <1>2 DEF ThreadsTyped
<1> QED
  BY <1>1, <1>2 DEF ThreadsTyped, Overlaps

LEMMA RestIs == Rest \in Callbacks
  BY CalendarAssumption DEF Rest, Within, Callbacks

LEMMA TryTyped ==
  ASSUME TypeInv, NEW th \in Threads, NEW bk \in Books, NEW p \in Positions, NEW d \in 0..Days,
         NEW panel \in SUBSET (0..Days), NEW w, NEW m \in SUBSET Sessions,
         TryDecide(th, bk, p, d, panel, w, m), UNCHANGED env
  PROVE  /\ book' \in Books /\ due' \in 0..Days /\ task' \in 0..Days
         /\ missed' \in SUBSET Sessions /\ skipped' \in SUBSET Sessions
         /\ decided' \in [Sessions -> Nat] /\ ThreadsTyped'
<1>1. ThreadsTyped'
  <2>1. CASE MayDecide(bk, d, panel, w) /\ ~Overlaps
    BY <2>1 DEF TypeInv, TryDecide, ThreadsTyped, Overlaps
  <2>2. CASE ~(MayDecide(bk, d, panel, w) /\ ~Overlaps)
    <3> DEFINE c == IF MayDecide(bk, d, panel, w) THEN Within("take", 0, panel) ELSE Rest
    <3>1. thread' = [thread EXCEPT ![th] = c]
      BY <2>2 DEF TryDecide
    <3>2. c \in Callbacks
      BY RestIs, CalendarAssumption DEF Within, Callbacks
    <3>3. ~Overlaps => c = Rest
      BY <2>2
    <3> HIDE DEF c
    <3> QED
      BY <3>1, <3>2, <3>3, ThreadSet DEF TypeInv
  <2> QED
    BY <2>1, <2>2
<1>2. CASE book' = bk /\ Waits(d, m)
  BY <1>1, <1>2 DEF Waits, TypeInv
<1>3. CASE ~(book' = bk /\ Waits(d, m))
  <2>1. d # 0 /\ Takes(bk, p, d, panel, m)
    BY <1>3, TryDecideDoes
  <2>2. d \in Sessions
    BY <2>1, CalendarAssumption DEF Sessions
  <2> QED
    BY <1>1, <2>1, <2>2, TakesTyped
<1> QED
  BY <1>2, <1>3

(* What is left of the orders of a name when one has ended.                *)
LEMMA WithoutTyped ==
  ASSUME NEW q \in Seq(Placed), NEW i \in DOMAIN q
  PROVE  Without(q, i) \in Seq(Placed)
<1>1. i \in 1..Len(q) /\ Len(q) \in Nat
  OBVIOUS
<1>2. ASSUME NEW a \in Int, NEW b \in Int, a >= 1, b <= Len(q)
      PROVE  SubSeq(q, a, b) \in Seq(Placed)
  <2>1. \A x \in a..b : q[x] \in Placed
    <3> SUFFICES ASSUME NEW x \in a..b PROVE q[x] \in Placed
      OBVIOUS
    <3>1. x \in 1..Len(q)
      BY <1>1, <1>2
    <3> QED
      BY <3>1
  <2> QED
    BY <1>1, <1>2, <2>1, SubSeqProperties
<1>3. SubSeq(q, 1, i - 1) \in Seq(Placed) /\ SubSeq(q, i + 1, Len(q)) \in Seq(Placed)
  BY <1>1, <1>2
<1> QED
  BY <1>3, ConcatProperties DEF Without

(* A book with one name's entries replaced is a book.                      *)
LEMMA BookParts ==
  ASSUME NEW bk \in Books
  PROVE  /\ bk.held \in SUBSET Symbols /\ bk.pending \in [Symbols -> Kinds]
         /\ bk.live \in [Symbols -> Seq(Placed)]
         /\ bk = [held |-> bk.held, pending |-> bk.pending, live |-> bk.live]
  BY DEF Books

LEMMA BookWithLive ==
  ASSUME NEW bk \in Books, NEW s \in Symbols, NEW q \in Seq(Placed)
  PROVE  [bk EXCEPT !.live[s] = q] \in Books
<1>1. [bk.live EXCEPT ![s] = q] \in [Symbols -> Seq(Placed)]
  BY BookParts
<1> QED
  BY <1>1, BookParts DEF Books

LEMMA BookFreed ==
  ASSUME NEW bk \in Books, NEW s \in Symbols
  PROVE  [bk EXCEPT !.pending[s] = ""] \in Books
<1>1. [bk.pending EXCEPT ![s] = ""] \in [Symbols -> Kinds]
  BY BookParts DEF Kinds
<1> QED
  BY <1>1, BookParts DEF Books

LEMMA BookFilled ==
  ASSUME NEW bk \in Books, NEW s \in Symbols, NEW h \in SUBSET Symbols
  PROVE  [bk EXCEPT !.pending[s] = "", !.held = h] \in Books
<1>1. [bk.pending EXCEPT ![s] = ""] \in [Symbols -> Kinds]
  BY BookParts DEF Kinds
<1> QED
  BY <1>1, BookParts DEF Books

LEMMA BookClosed ==
  ASSUME NEW bk \in Books, NEW s \in Symbols, NEW h \in SUBSET Symbols
  PROVE  [bk EXCEPT !.held = h, !.pending[s] = ""] \in Books
<1>1. [bk.pending EXCEPT ![s] = ""] \in [Symbols -> Kinds]
  BY BookParts DEF Kinds
<1> QED
  BY <1>1, BookParts DEF Books

LEMMA EndsBook ==
  ASSUME TypeInv, NEW s \in Symbols, NEW i \in DOMAIN book.live[s]
  PROVE  [[book EXCEPT !.live[s] = Without(@, i)] EXCEPT !.pending[s] = ""] \in Books
<1>1. book \in Books
  BY DEF TypeInv
<1>2. Without(book.live[s], i) \in Seq(Placed)
  BY <1>1, BookParts, WithoutTyped
<1> DEFINE gone == [book EXCEPT !.live[s] = Without(@, i)]
<1>3. gone = [book EXCEPT !.live[s] = Without(book.live[s], i)]
  OBVIOUS
<1> HIDE DEF gone
<1>4. gone \in Books
  BY <1>1, <1>2, <1>3, BookWithLive
<1>5. [gone EXCEPT !.pending[s] = ""] \in Books
  BY <1>4, BookFreed
<1> QED
  BY <1>5 DEF gone

(* A fill leaves a book, and what it completes is looked at again.         *)
LEMMA FillsDo ==
  ASSUME TypeInv, NEW s \in Symbols, NEW i \in DOMAIN book.live[s], Fills(s, i)
  PROVE  \/ book' \in Books /\ pos' \in Positions /\ UNCHANGED <<due, missed, task, skipped, thread, decided>>
         \/ \E bk \in Books, p \in Positions :
              pos' = p /\ TryDecide("loop", bk, p, due, bars, warm, missed)
<1> DEFINE o == book.live[s][i]
           gone == [book EXCEPT !.live[s] = Without(@, i)]
           rest(n) == IF n = o.left THEN gone ELSE [book EXCEPT !.live[s][i].left = @ - n]
           after(n) == [rest(n) EXCEPT !.pending[s] = "", !.held = HeldAfter(@, book.pending[s], s)]
<1>1. /\ book \in Books /\ book.live \in [Symbols -> Seq(Placed)] /\ book.live[s] \in Seq(Placed)
      /\ pos \in Positions /\ o \in Placed /\ o.left \in Nat \ {0}
  <2>1. book \in Books /\ pos \in Positions
    BY DEF TypeInv
  <2>2. book.live \in [Symbols -> Seq(Placed)] /\ book.live[s] \in Seq(Placed)
    BY <2>1, BookParts
  <2>3. o \in Placed
    BY <2>2
  <2> QED
    BY <2>1, <2>2, <2>3 DEF Placed
<1>2. PICK n \in FillSizes(o.left) :
        /\ o.side = "SELL" => pos[s] >= n
        /\ pos' = [pos EXCEPT ![s] = @ + (IF o.side = "BUY" THEN n ELSE -n)]
        /\ IF Completes(book.pending[s], o.side)
           THEN TryDecide("loop", after(n), pos', due, bars, warm, missed)
           ELSE book' = rest(n) /\ UNCHANGED <<due, missed, task, skipped, thread, decided>>
  BY DEF Fills
<1>3. n \in 1..o.left
  BY <1>1, <1>2 DEF FillSizes
<1>4. gone \in Books
  <2>1. Without(book.live[s], i) \in Seq(Placed)
    BY <1>1, WithoutTyped
  <2>2. gone = [book EXCEPT !.live[s] = Without(book.live[s], i)]
    OBVIOUS
  <2> HIDE DEF gone
  <2> QED
    BY <1>1, <2>1, <2>2, BookWithLive
<1>5. n # o.left => [book EXCEPT !.live[s][i].left = @ - n] \in Books
  <2> SUFFICES ASSUME n # o.left PROVE [book EXCEPT !.live[s][i].left = @ - n] \in Books
    OBVIOUS
  <2>1. o.left - n \in Nat \ {0}
    BY <1>1, <1>3
  <2>2. [o EXCEPT !.left = o.left - n] \in Placed
    BY <1>1, <2>1 DEF Placed
  <2> DEFINE less == [o EXCEPT !.left = o.left - n]
  <2>3. [book.live[s] EXCEPT ![i] = less] \in Seq(Placed)
    <3> HIDE DEF less
    <3> QED
      BY <1>1, <2>2, ExceptSeq DEF less
  <2>4. [book EXCEPT !.live[s][i].left = @ - n] = [book EXCEPT !.live[s] = [book.live[s] EXCEPT ![i] = less]]
    BY <1>1 DEF Books
  <2>5. [book EXCEPT !.live[s] = [book.live[s] EXCEPT ![i] = less]] \in Books
    <3> DEFINE q == [book.live[s] EXCEPT ![i] = less]
    <3>1. q \in Seq(Placed)
      BY <2>3
    <3> HIDE DEF q
    <3>2. [book EXCEPT !.live[s] = q] \in Books
      BY <1>1, <3>1, BookWithLive
    <3> QED
      BY <3>2 DEF q
  <2> QED
    BY <2>4, <2>5
<1>6. rest(n) \in Books
  BY <1>4, <1>5
<1>7. pos' \in Positions
  <2>1. o.side \in {"BUY", "SELL"} /\ pos[s] \in Nat /\ n \in Nat
    BY <1>1, <1>3 DEF Positions, Placed
  <2>2. pos[s] + (IF o.side = "BUY" THEN n ELSE -n) \in Nat
    BY <1>2, <2>1
  <2> QED
    BY <1>1, <1>2, <2>2 DEF Positions
<1>8. after(n) \in Books
  <2> HIDE DEF rest
  <2>1. rest(n).held \subseteq Symbols
    BY <1>6 DEF Books
  <2>2. HeldAfter(rest(n).held, book.pending[s], s) \in SUBSET Symbols
    BY <2>1 DEF HeldAfter
  <2>3. after(n) = [rest(n) EXCEPT !.pending[s] = "",
                                   !.held = HeldAfter(rest(n).held, book.pending[s], s)]
    OBVIOUS
  <2> QED
    BY <1>6, <2>2, <2>3, BookFilled
<1> HIDE DEF after, rest
<1> QED
  BY <1>2, <1>6, <1>7, <1>8

LEMMA TodayIs == TypeInv => Today \in Sessions
<1> SUFFICES ASSUME TypeInv PROVE Today \in Sessions
  OBVIOUS
<1>1. Days \in Nat \ {0} /\ now \in 0..3 * (Days - 1) + 2
  BY CalendarAssumption DEF TypeInv, At
<1>2. now \div 3 \in 0..(Days - 1)
  BY <1>1
<1> QED
  BY <1>1, <1>2 DEF Today, Sessions

LEMMA OffsetIs == TypeInv => offset \in {1, 2} /\ now \in Nat /\ Rereads \subseteq {1, 2}
  BY OffsetsAssumption DEF TypeInv, Rereads

LEMMA OverdueTyped ==
  TypeInv => Overdue[1] \in SUBSET Sessions /\ Overdue[2] \in SUBSET Sessions
<1> SUFFICES ASSUME TypeInv
             PROVE  Overdue[1] \in SUBSET Sessions /\ Overdue[2] \in SUBSET Sessions
  OBVIOUS
<1>1. missed \in SUBSET Sessions /\ deferred \in SUBSET Sessions /\ due \in 0..Days
  BY DEF TypeInv
<1>2. due # 0 => due \in Sessions
  BY <1>1, CalendarAssumption DEF Sessions
<1> QED
  BY <1>1, <1>2 DEF Overdue

LEMMA TypeInit == Init => TypeInv
<1> SUFFICES ASSUME Init PROVE TypeInv
  OBVIOUS
<1>1. armed \in Alarms
  BY NextFireTyped, OffsetsAssumption DEF Init
<1>2. book \in Books
  <2>1. Idle \in [Symbols -> Kinds] /\ [s \in Symbols |-> <<>>] \in [Symbols -> Seq(Placed)]
    BY DEF Idle, Kinds
  <2> QED
    BY <2>1 DEF Init, Books
<1>3. now \in 0..At(Days, 2) /\ 0 \in 0..Days
  BY CalendarAssumption DEF Init, At
<1>4. ThreadsTyped
  BY RestIs DEF Init, Resting, ThreadsTyped
<1> QED
  BY <1>1, <1>2, <1>3, <1>4 DEF Init, TypeInv, Positions

LEMMA TypeStep == TypeInv /\ [Next]_vars => TypeInv'
<1> SUFFICES ASSUME TypeInv, [Next]_vars PROVE TypeInv'
  OBVIOUS
<1> USE DEF TypeInv
<1>u. ASSUME UNCHANGED <<thread, env>> PROVE ThreadsTyped'
  BY <1>u DEF ThreadsTyped, Overlaps
<1>th. "loop" \in Threads /\ "clock" \in Threads
  BY DEF Threads
<1>1. CASE UNCHANGED vars
  BY <1>1, <1>u DEF vars, Books, Positions, Alarms
<1>2. CASE Ticks
  <2>1. now' \in 0..At(Days, 2)
    <3>1. At(Days, 2) \in Nat
      BY CalendarAssumption DEF At
    <3> QED
      BY <1>2, <3>1 DEF Ticks
  <2> QED
    BY <1>2, <1>u, <2>1 DEF Ticks
<1>3. CASE OnBar
  <2>1. PICK w \in {warm, TRUE} :
          warm' = w /\ bars' = bars \cup {Today} /\ TryDecide("loop", book, pos, due, bars', w, missed)
    BY <1>3 DEF OnBar
  <2>2. warm' \in BOOLEAN /\ bars' \in SUBSET (0..Days) /\ 0 \in bars'
    <3>1. Today \in 0..Days
      <4>1. Today \in Sessions
        BY TodayIs
      <4>2. Sessions \subseteq 0..Days
        BY CalendarAssumption DEF Sessions
      <4> QED
        BY <4>1, <4>2
    <3> QED
      BY <2>1, <3>1
  <2>3. /\ book' \in Books /\ due' \in 0..Days /\ task' \in 0..Days
        /\ missed' \in SUBSET Sessions /\ skipped' \in SUBSET Sessions
        /\ decided' \in [Sessions -> Nat] /\ ThreadsTyped'
    BY <1>3, <2>1, <2>2, <1>th, TryTyped DEF OnBar
  <2> QED
    BY <1>3, <2>2, <2>3 DEF OnBar
<1>4. CASE OnHistory
  <2>1. warm' \in BOOLEAN
    BY <1>4 DEF OnHistory
  <2>2. {d \in Sessions : d < Today} \in SUBSET (0..Days)
    BY CalendarAssumption DEF Sessions
  <2>3. bars' \in SUBSET (0..Days) /\ 0 \in bars'
    BY <1>4, <2>2 DEF OnHistory
  <2> QED
    BY <1>4, <1>u, <2>1, <2>3 DEF OnHistory
<1>5. CASE OnRebalanceOverride
  BY <1>5, <1>u DEF OnRebalanceOverride
<1>6. CASE Alert
  <2>1. armed \in [day : Sessions, at : Nat] /\ armed.day \in Sessions /\ armed.day \in 0..Days
    BY <1>6, CalendarAssumption DEF Alert, Rearms, Alarms, Sessions
  <2>2. armed' \in Alarms /\ offset' \in Offsets \cup {Offset}
    <3>1. PICK o \in Rereads : offset' = o /\ armed' = NextFire(now, o)
      BY <1>6 DEF Alert, Rearms
    <3>2. o \in Offsets \cup {Offset}
      BY <3>1 DEF Rereads
    <3> QED
      BY <3>1, <3>2, OffsetIs, NextFireTyped
  <2>3. Overdue[1] \in SUBSET Sessions /\ Overdue[2] \in SUBSET Sessions
    BY OverdueTyped
  <2>4. TryDecide("clock", book, pos, armed.day, bars, warm, Overdue[1])
    BY <1>6 DEF Alert
  <2>5. /\ book' \in Books /\ due' \in 0..Days /\ task' \in 0..Days
        /\ missed' \in SUBSET Sessions /\ skipped' \in SUBSET Sessions
        /\ decided' \in [Sessions -> Nat] /\ ThreadsTyped'
    BY <1>6, <2>1, <2>3, <2>4, <1>th, TryTyped DEF Alert
  <2>6. fired' \in SUBSET Sessions
    BY <1>6, <2>1 DEF Alert, Rearms
  <2> QED
    BY <1>6, <2>2, <2>3, <2>5, <2>6 DEF Alert
<1>7. CASE SessionEnds
  <2>1. task \in Sessions /\ 0 \in 0..Days
    BY <1>7, CalendarAssumption DEF SessionEnds, Sessions
  <2>2. missed' \in SUBSET Sessions
    BY <1>7, <2>1 DEF SessionEnds
  <2> QED
    BY <1>7, <1>u, <2>1, <2>2 DEF SessionEnds
<1>8. CASE Restart
  <2>1. armed' \in Alarms
    BY <1>8, OffsetIs, NextFireTyped DEF Restart
  <2>2. book' \in Books
    <3>1. Shown(pos) \in SUBSET Symbols /\ Idle \in [Symbols -> Kinds]
      BY DEF Shown, Idle, Kinds
    <3> QED
      BY <1>8, <3>1, BookParts DEF Restart, Books
  <2>3. ThreadsTyped'
    BY <1>8, RestIs DEF Restart, ThreadsTyped, Resting
  <2> QED
    BY <1>8, <2>1, <2>2, <2>3, CalendarAssumption DEF Restart
<1>9. ASSUME NEW s \in Symbols, NEW i \in DOMAIN book.live[s], Fills(s, i) PROVE TypeInv'
  <2>1. CASE /\ book' \in Books /\ pos' \in Positions
             /\ UNCHANGED <<due, missed, task, skipped, thread, decided>>
    BY <1>9, <1>u, <2>1 DEF Fills
  <2>2. ASSUME NEW bk \in Books, NEW p \in Positions, pos' = p,
               TryDecide("loop", bk, p, due, bars, warm, missed)
        PROVE  TypeInv'
    <3>1. /\ book' \in Books /\ due' \in 0..Days /\ task' \in 0..Days
          /\ missed' \in SUBSET Sessions /\ skipped' \in SUBSET Sessions
          /\ decided' \in [Sessions -> Nat] /\ ThreadsTyped'
      BY <1>9, <2>2, <1>th, TryTyped DEF Fills
    <3> QED
      BY <1>9, <2>2, <3>1 DEF Fills
  <2> QED
    BY <1>9, <2>1, <2>2, FillsDo
<1>10. ASSUME NEW s \in Symbols, NEW i \in DOMAIN book.live[s], Ends(s, i) PROVE TypeInv'
  <2> DEFINE bk == [[book EXCEPT !.live[s] = Without(@, i)] EXCEPT !.pending[s] = ""]
  <2>1. bk \in Books
    BY EndsBook
  <2>2. TryDecide("loop", bk, pos, due, bars, warm, missed)
    BY <1>10 DEF Ends, Forget
  <2>3. /\ book' \in Books /\ due' \in 0..Days /\ task' \in 0..Days
        /\ missed' \in SUBSET Sessions /\ skipped' \in SUBSET Sessions
        /\ decided' \in [Sessions -> Nat] /\ ThreadsTyped'
    <3>1. UNCHANGED env
      BY <1>10 DEF Ends
    <3> HIDE DEF bk
    <3> QED
      BY <2>1, <2>2, <3>1, <1>th, TryTyped
  <2> QED
    BY <1>10, <2>3 DEF Ends
<1>11. ASSUME NEW s \in Symbols, ProtectiveClose(s) PROVE TypeInv'
  <2>1. pos' \in Positions
    BY <1>11 DEF ProtectiveClose, Positions
  <2>2. book' \in Books
    <3>1. book.held \ {s} \in SUBSET Symbols
      BY BookParts
    <3>2. [book EXCEPT !.held = book.held \ {s}, !.pending[s] = ""] \in Books
      BY <3>1, BookClosed
    <3>3. book' \in {book, [book EXCEPT !.held = book.held \ {s}, !.pending[s] = ""]}
      BY <1>11 DEF ProtectiveClose
    <3> QED
      BY <3>2, <3>3
  <2> QED
    BY <1>11, <1>u, <2>1, <2>2 DEF ProtectiveClose
<1>12. ASSUME NEW s \in Symbols, RunnerTrades(s) PROVE TypeInv'
  <2>1. pos' \in Positions
    <3>1. Lot \in Nat /\ {0, Lot} \subseteq Nat
      BY SizesAssumption
    <3>2. PICK n \in {0, Lot} : pos' = [pos EXCEPT ![s] = n]
      BY <1>12 DEF RunnerTrades
    <3> QED
      BY <3>1, <3>2 DEF Positions
  <2>2. TryDecide("loop", book, pos', due, bars, warm, missed)
    BY <1>12 DEF RunnerTrades
  <2>3. /\ book' \in Books /\ due' \in 0..Days /\ task' \in 0..Days
        /\ missed' \in SUBSET Sessions /\ skipped' \in SUBSET Sessions
        /\ decided' \in [Sessions -> Nat] /\ ThreadsTyped'
    BY <1>12, <2>1, <2>2, <1>th, TryTyped DEF RunnerTrades
  <2> QED
    BY <1>12, <2>1, <2>3 DEF RunnerTrades
<1>13. CASE AlertFires
  <2>1. armed \in [day : Sessions, at : Nat] /\ armed.day \in Sessions /\ armed.day \in 0..Days
    BY <1>13, CalendarAssumption DEF AlertFires, Rearms, Alarms, Sessions
  <2>2. armed' \in Alarms /\ offset' \in Offsets \cup {Offset}
    <3>1. PICK o \in Rereads : offset' = o /\ armed' = NextFire(now, o)
      BY <1>13 DEF AlertFires, Rearms
    <3>2. o \in Offsets \cup {Offset}
      BY <3>1 DEF Rereads
    <3> QED
      BY <3>1, <3>2, OffsetIs, NextFireTyped
  <2>3. ThreadsTyped'
    <3> DEFINE c == Within(IF due = 0 THEN "mark" ELSE "overdue", armed.day, {})
    <3>1. thread' = [thread EXCEPT !["clock"] = c] /\ Overlaps /\ UNCHANGED env
      BY <1>13 DEF AlertFires
    <3>2. c \in Callbacks
      BY <2>1 DEF Within, Callbacks
    <3> HIDE DEF c
    <3> QED
      BY <1>th, <3>1, <3>2, ThreadSet
  <2>4. fired' \in SUBSET Sessions
    BY <1>13, <2>1 DEF AlertFires, Rearms
  <2>5. UNCHANGED <<lane, hosted, env, now, due, bars, warm, forced, book, pos, task, missed,
                    deferred, skipped, decided>>
    BY <1>13 DEF AlertFires
  <2> QED
    BY <2>2, <2>3, <2>4, <2>5
<1>14. CASE AlertSays
  <2>1. Overdue[1] \in SUBSET Sessions /\ Overdue[2] \in SUBSET Sessions
    BY OverdueTyped
  <2>2. ThreadsTyped'
    <3> DEFINE c == IF due = 0 /\ (lane = "QC345" \/ warm) THEN Rest
                    ELSE Within("mark", thread["clock"].day, {})
    <3>1. thread' = [thread EXCEPT !["clock"] = c] /\ UNCHANGED env
      BY <1>14 DEF AlertSays
    <3>2. thread["clock"] \in Callbacks
      BY <1>th DEF ThreadsTyped
    <3>3. c \in Callbacks
      BY <3>2, RestIs DEF Within, Callbacks
    <3>4. Overlaps
      BY <1>14, <1>th DEF AlertSays, ThreadsTyped, Rest, Within
    <3> HIDE DEF c
    <3> QED
      BY <1>th, <3>1, <3>3, <3>4, ThreadSet
  <2> QED
    BY <1>14, <2>1, <2>2 DEF AlertSays
<1>15. CASE AlertMarks
  <2>1. thread["clock"].day \in 0..Days
    BY <1>th DEF ThreadsTyped, Callbacks
  <2>2. TryDecide("clock", book, pos, thread["clock"].day, bars, warm, missed) /\ UNCHANGED env
    BY <1>15 DEF AlertMarks
  <2>3. /\ book' \in Books /\ due' \in 0..Days /\ task' \in 0..Days
        /\ missed' \in SUBSET Sessions /\ skipped' \in SUBSET Sessions
        /\ decided' \in [Sessions -> Nat] /\ ThreadsTyped'
    BY <1>th, <2>1, <2>2, TryTyped
  <2> QED
    BY <1>15, <2>3 DEF AlertMarks
<1>16. ASSUME NEW th \in Threads, GoesOn(th) PROVE TypeInv'
  <2>1. ThreadsTyped'
    <3>1. thread' = [thread EXCEPT ![th] = Rest] /\ UNCHANGED env
      BY <1>16 DEF GoesOn
    <3> QED
      BY <3>1, RestIs, ThreadSet
  <2>2. CASE due # 0
    <3>1. due \in Sessions /\ Takes(book, pos, due, thread[th].panel, missed)
      BY <1>16, <2>2, CalendarAssumption DEF GoesOn, Sessions
    <3>2. /\ book' \in Books /\ due' \in 0..Days /\ task' \in 0..Days
          /\ missed' \in SUBSET Sessions /\ skipped' \in SUBSET Sessions
          /\ decided' \in [Sessions -> Nat]
      BY <3>1, TakesTyped
    <3> QED
      BY <1>16, <2>1, <3>2 DEF GoesOn
  <2>3. CASE due = 0
    <3>1. ExitOnly(book, pos) \/ book' = book
      BY <1>16, <2>3 DEF GoesOn
    <3>2. book' \in Books
      <4>1. ASSUME NEW exits \in SUBSET book.held, NEW entries \in SUBSET (Symbols \ book.held),
                   book' = Traded(book, pos, exits, entries)
            PROVE  book' \in Books
        <5>1. exits \in SUBSET Symbols /\ entries \in SUBSET Symbols
          BY BookParts
        <5> QED
          BY <4>1, <5>1, TradedTyped
      <4>2. Trades(book, pos, book') \/ book' = book
        BY <3>1, DecisionsTrade
      <4> QED
        BY <4>1, <4>2 DEF Trades
    <3> QED
      BY <1>16, <2>1, <2>3, <3>2 DEF GoesOn
  <2> QED
    BY <2>2, <2>3
<1> QED
  BY <1>1, <1>2, <1>3, <1>4, <1>5, <1>6, <1>7, <1>8, <1>9, <1>10, <1>11, <1>12, <1>13, <1>14,
     <1>15, <1>16, NextActs DEF Acts

(* Every variable keeps its type, for any calendar, any names and sizes.   *)
THEOREM TypeCorrect == Spec => []TypeOK
<1>1. Init => TypeInv
  BY TypeInit
<1>2. TypeInv /\ [Next]_vars => TypeInv'
  BY TypeStep
<1>3. TypeInv => TypeOK
  BY TypesGiveTypeOK
<1> QED
  BY <1>1, <1>2, <1>3, PTL DEF Spec

-----------------------------------------------------------------------------
(* What becomes of a month's sessions.  The session that is due is the     *)
(* latest of those whose alert fired, and not decided yet; what was        *)
(* decided was decided once and has its date in the panel.  So no later    *)
(* session of its month is that panel's first, and every session that is   *)
(* not due any more is on record.                                          *)
Accounted(d, rung, panel, dec, m, df, sk) ==
  /\ d # 0 => d \in rung /\ (\A e \in rung : e <= d) /\ dec[d] = 0
  /\ \A e \in Sessions : dec[e] # 0 => e \in rung /\ e \in panel /\ dec[e] = 1
  /\ \A e, f \in Sessions : MonthOf[e] = MonthOf[f] /\ dec[e] # 0 /\ dec[f] # 0 => e = f
  /\ \A e \in rung : e = d \/ dec[e] # 0 \/ e \in m \/ e \in df \/ (e \in sk /\ ~FirstOfMonth(e))

(* The alert to come is of a session after those that had theirs.          *)
AlarmAhead(a, rung) == a # Never => a.at = At(a.day, Offset) /\ \A e \in rung : e < a.day

MonthInv ==
  Steady => /\ offset = Offset /\ forced = {} /\ AlarmAhead(armed, fired)
            /\ Accounted(due, fired, bars, decided, missed, deferred, skipped)

(* A session that is looked at stays due or is put on record.              *)
LEMMA TryAccounts ==
  ASSUME TypeInv, NEW th, NEW bk \in Books, NEW p \in Positions, NEW d \in 0..Days,
         NEW panel \in SUBSET (0..Days), NEW w, NEW m \in SUBSET Sessions, NEW df, NEW rung,
         rung \subseteq Sessions, forced = {}, TryDecide(th, bk, p, d, panel, w, m),
         Accounted(d, rung, panel, decided, m, df, skipped)
  PROVE  Accounted(due', rung, panel, decided', missed', df, skipped')
<1>0. decided \in [Sessions -> Nat] /\ skipped \in SUBSET Sessions
  BY DEF TypeInv
<1>1. CASE Waits(d, m)
  BY <1>1 DEF Waits
<1>2. CASE ~Waits(d, m)
  <2>1. /\ due' = 0 /\ d # 0 /\ d \in panel
        /\ Skips(d, panel, m) \/ Misses(d, m) \/ Rebalances(d, panel, m)
    BY <1>2, TryDecideDoes, TakesDo
  <2>2. d \in rung /\ d \in Sessions /\ (\A e \in rung : e <= d) /\ decided[d] = 0
    BY <2>1 DEF Accounted
  <2>3. CASE Skips(d, panel, m)
    <3>1. ~FirstOfMonth(d)
      BY <2>1, <2>3 DEF Skips, FirstDate, FirstOfMonth
    <3> QED
      BY <2>1, <2>3, <3>1 DEF Accounted, Skips
  <2>4. CASE Misses(d, m)
    BY <2>1, <2>4 DEF Accounted, Misses
  <2>5. CASE Rebalances(d, panel, m)
    <3>1. /\ FirstDate(d, panel) /\ missed' = m /\ skipped' = skipped
          /\ decided' = [decided EXCEPT ![d] = @ + 1]
      BY <2>5 DEF Rebalances
    <3>2. decided'[d] = 1 /\ \A e \in Sessions : e # d => decided'[e] = decided[e]
      BY <1>0, <2>2, <3>1
    <3>3. \A e \in Sessions : MonthOf[e] = MonthOf[d] /\ decided[e] # 0 => e = d
      <4> SUFFICES ASSUME NEW e \in Sessions, MonthOf[e] = MonthOf[d], decided[e] # 0
                   PROVE  e = d
        OBVIOUS
      <4>1. e \in rung /\ e \in panel
        BY DEF Accounted
      <4>2. d <= e /\ e <= d
        BY <2>2, <3>1, <4>1 DEF FirstDate
      <4> QED
        BY <2>2, <4>2 DEF Sessions
    <3>4. \A e \in Sessions : decided'[e] # 0 => e \in rung /\ e \in panel /\ decided'[e] = 1
      BY <2>1, <2>2, <3>2 DEF Accounted
    <3>5. \A e, f \in Sessions :
            MonthOf[e] = MonthOf[f] /\ decided'[e] # 0 /\ decided'[f] # 0 => e = f
      <4> SUFFICES ASSUME NEW e \in Sessions, NEW f \in Sessions, MonthOf[e] = MonthOf[f],
                          decided'[e] # 0, decided'[f] # 0
                   PROVE  e = f
        OBVIOUS
      <4>1. CASE e = d
        BY <2>2, <3>2, <3>3, <4>1
      <4>2. CASE f = d
        BY <2>2, <3>2, <3>3, <4>2
      <4>3. CASE e # d /\ f # d
        BY <3>2, <4>3 DEF Accounted
      <4> QED
        BY <4>1, <4>2, <4>3
    <3>6. \A e \in rung : \/ decided'[e] # 0 \/ e \in m \/ e \in df
                         \/ (e \in skipped /\ ~FirstOfMonth(e))
      <4> SUFFICES ASSUME NEW e \in rung
                   PROVE  \/ decided'[e] # 0 \/ e \in m \/ e \in df
                          \/ (e \in skipped /\ ~FirstOfMonth(e))
        OBVIOUS
      <4>1. e \in Sessions
        OBVIOUS
      <4>2. e = d \/ decided[e] # 0 \/ e \in m \/ e \in df \/ (e \in skipped /\ ~FirstOfMonth(e))
        BY DEF Accounted
      <4> QED
        BY <3>2, <4>1, <4>2
    <3> QED
      BY <2>1, <3>1, <3>4, <3>5, <3>6 DEF Accounted
  <2> QED
    BY <2>1, <2>3, <2>4, <2>5
<1> QED
  BY <1>1, <1>2

(* Where callbacks do not overlap, the split alert and look never happen.  *)
LEMMA Serial ==
  ASSUME TypeInv, ~Overlaps
  PROVE  ~AlertFires /\ ~AlertSays /\ ~AlertMarks /\ \A th \in Threads : ~GoesOn(th)
<1>1. \A th \in Threads : thread[th] = Rest
  BY DEF TypeInv, ThreadsTyped
<1>2. Rest.at = "rest" /\ "clock" \in Threads
  BY DEF Rest, Within, Threads
<1> QED
  BY <1>1, <1>2 DEF AlertFires, AlertSays, AlertMarks, GoesOn

LEMMA MonthInit == Init => MonthInv
<1> SUFFICES ASSUME Init PROVE MonthInv
  OBVIOUS
<1>1. offset = Offset /\ forced = {} /\ fired = {} /\ due = 0 /\ \A d \in Sessions : decided[d] = 0
  BY DEF Init
<1>2. AlarmAhead(armed, fired)
  <2> SUFFICES ASSUME armed # Never PROVE armed.at = At(armed.day, Offset)
    BY <1>1 DEF AlarmAhead
  <2>1. armed = NextFire(0, Offset) /\ Offset \in {1, 2}
    BY OffsetsAssumption DEF Init
  <2> QED
    BY <2>1, NextFireIs
<1>3. Accounted(due, fired, bars, decided, missed, deferred, skipped)
  BY <1>1 DEF Accounted
<1> QED
  BY <1>1, <1>2, <1>3 DEF MonthInv

LEMMA MonthStep == TypeInv /\ MonthInv /\ [Next]_vars => MonthInv'
<1> SUFFICES ASSUME TypeInv, MonthInv, [Next]_vars, Steady' PROVE MonthInv'
  BY DEF MonthInv
<1> DEFINE Kept == /\ UNCHANGED <<env, offset, armed, forced, fired>>
                   /\ Accounted(due', fired, bars', decided', missed', deferred', skipped')
<1>0. UNCHANGED env
  BY NextActs DEF Acts, vars, Ticks, OnBar, OnHistory, OnRebalanceOverride, Alert, SessionEnds,
     Restart, Fills, Ends, ProtectiveClose, RunnerTrades, AlertFires, AlertSays, AlertMarks, GoesOn
<1>a. /\ Steady /\ offset = Offset /\ forced = {} /\ AlarmAhead(armed, fired)
      /\ Accounted(due, fired, bars, decided, missed, deferred, skipped)
  BY <1>0 DEF MonthInv, Steady
<1>o. ~Overlaps
  BY <1>a DEF Steady, Overlaps
<1>t. /\ due \in 0..Days /\ bars \in SUBSET (0..Days) /\ missed \in SUBSET Sessions
      /\ fired \in SUBSET Sessions /\ book \in Books /\ pos \in Positions
      /\ decided \in [Sessions -> Nat] /\ now \in Nat /\ bars' \in SUBSET (0..Days)
      /\ pos' \in Positions
  BY TypeStep, OffsetIs DEF TypeInv
<1>k. Kept => MonthInv'
  BY <1>a DEF MonthInv
<1>g. ASSUME NEW b \in SUBSET (0..Days), bars \subseteq b
      PROVE  Accounted(due, fired, b, decided, missed, deferred, skipped)
  BY <1>a, <1>g DEF Accounted
<1>1. CASE UNCHANGED vars
  BY <1>1, <1>a, <1>k DEF vars
<1>2. CASE Ticks
  BY <1>2, <1>a, <1>k DEF Ticks
<1>3. CASE OnBar
  <2>1. PICK w \in {warm, TRUE} :
          bars' = bars \cup {Today} /\ TryDecide("loop", book, pos, due, bars', w, missed)
    BY <1>3 DEF OnBar
  <2>2. Accounted(due, fired, bars', decided, missed, deferred, skipped)
    BY <1>g, <1>t, <2>1
  <2>3. Accounted(due', fired, bars', decided', missed', deferred, skipped')
    BY <1>a, <1>t, <2>1, <2>2, TryAccounts
  <2> QED
    BY <1>3, <1>k, <2>3 DEF OnBar
<1>4. CASE OnHistory
  <2>1. Accounted(due, fired, bars', decided, missed, deferred, skipped)
    BY <1>4, <1>g, <1>t DEF OnHistory
  <2> QED
    BY <1>4, <1>k, <2>1 DEF OnHistory
<1>5. CASE OnRebalanceOverride
  BY <1>5, <1>a DEF OnRebalanceOverride, Steady
<1>6. CASE Alert
  <2> DEFINE rung == fired \cup {armed.day}
  <2>1. /\ armed # Never /\ armed.day \in Sessions /\ armed.day \in 0..Days
        /\ now = At(armed.day, Offset) /\ \A e \in fired : e < armed.day
    BY <1>6, <1>a, CalendarAssumption DEF Alert, Rearms, AlarmAhead, TypeInv, Alarms, Sessions
  <2>2. /\ fired' = rung /\ forced' = forced /\ bars' = bars /\ deferred' = Overdue[2]
        /\ TryDecide("clock", book, pos, armed.day, bars, warm, Overdue[1])
    BY <1>6 DEF Alert, Rearms
  <2>3. offset' = Offset /\ armed' = NextFire(now, Offset)
    BY <1>6, <1>a DEF Alert, Rearms, Rereads, Steady
  <2>4. AlarmAhead(armed', fired')
    <3> SUFFICES ASSUME armed' # Never
                 PROVE  armed'.at = At(armed'.day, Offset) /\ \A e \in rung : e < armed'.day
      BY <2>2 DEF AlarmAhead
    <3>1. PICK d \in Sessions :
            At(d, Offset) > now /\ NextFire(now, Offset) = [day |-> d, at |-> At(d, Offset)]
      BY <1>t, <2>3, NextFireIs, OffsetsAssumption
    <3>2. armed'.day = d /\ armed'.at = At(d, Offset)
      BY <2>3, <3>1
    <3>3. armed.day < d /\ d \in Int /\ armed.day \in Int
      BY <2>1, <3>1, OffsetsAssumption DEF At, Sessions
    <3>4. \A e \in fired : e < d
      BY <1>t, <2>1, <3>3 DEF Sessions
    <3> QED
      BY <3>2, <3>3, <3>4
  <2>5. Overdue[1] \in SUBSET Sessions
    BY <1>t, CalendarAssumption DEF Overdue, Sessions
  <2>6. Accounted(armed.day, rung, bars, decided, Overdue[1], Overdue[2], skipped)
    <3>1. decided[armed.day] = 0
      BY <1>a, <1>t, <2>1 DEF Accounted, Sessions
    <3>2. \A e \in rung : e <= armed.day
      BY <1>t, <2>1 DEF Sessions
    <3>3. /\ missed \subseteq Overdue[1] /\ deferred \subseteq Overdue[2]
          /\ due # 0 => due \in Overdue[1] \/ due \in Overdue[2]
      BY DEF Overdue
    <3>4. 0 \notin fired
      BY <1>t DEF Sessions
    <3> QED
      BY <1>a, <3>1, <3>2, <3>3, <3>4 DEF Accounted
  <2>7. rung \subseteq Sessions
    BY <1>t, <2>1
  <2>8. Accounted(due', rung, bars, decided', missed', Overdue[2], skipped')
    <3> HIDE DEF rung
    <3> QED
      BY <1>a, <1>t, <2>1, <2>2, <2>5, <2>6, <2>7, TryAccounts
  <2> QED
    BY <1>a, <2>2, <2>3, <2>4, <2>8 DEF MonthInv
<1>7. CASE SessionEnds
  <2>1. missed \subseteq missed'
    BY <1>7 DEF SessionEnds
  <2>2. Accounted(due, fired, bars, decided, missed', deferred, skipped)
    BY <1>a, <2>1 DEF Accounted
  <2> QED
    BY <1>7, <1>k, <2>2 DEF SessionEnds
<1>8. CASE Restart
  BY <1>8, <1>a DEF Restart, Steady
<1>l. ASSUME NEW bk \in Books, NEW p \in Positions, TryDecide("loop", bk, p, due, bars, warm, missed)
      PROVE  Accounted(due', fired, bars, decided', missed', deferred, skipped')
  BY <1>a, <1>l, <1>t, TryAccounts
<1>9. ASSUME NEW s \in Symbols, NEW i \in DOMAIN book.live[s], Fills(s, i) PROVE MonthInv'
  <2>1. UNCHANGED <<env, offset, armed, forced, fired, bars, deferred>>
    BY <1>9 DEF Fills
  <2>2. CASE UNCHANGED <<due, missed, task, skipped, thread, decided>>
    BY <1>a, <1>k, <2>1, <2>2
  <2>3. CASE \E bk \in Books, p \in Positions : TryDecide("loop", bk, p, due, bars, warm, missed)
    BY <1>l, <1>k, <2>1, <2>3
  <2> QED
    BY <1>9, <2>2, <2>3, FillsDo
<1>10. ASSUME NEW s \in Symbols, NEW i \in DOMAIN book.live[s], Ends(s, i) PROVE MonthInv'
  <2> DEFINE bk == [[book EXCEPT !.live[s] = Without(@, i)] EXCEPT !.pending[s] = ""]
  <2>1. bk \in Books
    BY EndsBook
  <2>2. TryDecide("loop", bk, pos, due, bars, warm, missed)
    BY <1>10 DEF Ends, Forget
  <2>3. Accounted(due', fired, bars, decided', missed', deferred, skipped')
    <3> HIDE DEF bk
    <3> QED
      BY <1>l, <1>t, <2>1, <2>2
  <2> QED
    BY <1>10, <1>k, <2>3 DEF Ends
<1>11. ASSUME NEW s \in Symbols, ProtectiveClose(s) PROVE MonthInv'
  BY <1>11, <1>a, <1>k DEF ProtectiveClose
<1>12. ASSUME NEW s \in Symbols, RunnerTrades(s) PROVE MonthInv'
  <2>1. TryDecide("loop", book, pos', due, bars, warm, missed)
    BY <1>12 DEF RunnerTrades
  <2>2. Accounted(due', fired, bars, decided', missed', deferred, skipped')
    BY <1>l, <1>t, <2>1
  <2> QED
    BY <1>12, <1>k, <2>2 DEF RunnerTrades
<1> QED
  BY <1>1, <1>2, <1>3, <1>4, <1>5, <1>6, <1>7, <1>8, <1>9, <1>10, <1>11, <1>12, <1>o, Serial,
     NextActs DEF Acts

(* In one process that its operator leaves alone, every month is           *)
(* rebalanced at most once, and a session that was not is on record:       *)
(* missed, or one the lane was too cold for.                               *)
THEOREM MonthRebalanced == Spec => []MonthIsRebalanced
<1>1. Init => TypeInv /\ MonthInv
  BY TypeInit, MonthInit
<1>2. TypeInv /\ MonthInv /\ [Next]_vars => (TypeInv /\ MonthInv)'
  BY TypeStep, MonthStep
<1>3. TypeInv /\ MonthInv => MonthIsRebalanced
  <2> SUFFICES ASSUME TypeInv, MonthInv, Steady
               PROVE  /\ \A d \in fired : \/ d = due \/ decided[d] > 0 \/ d \in missed \cup deferred
                                          \/ (d \in skipped /\ ~FirstOfMonth(d))
                      /\ \A d, e \in Sessions :
                           /\ decided[d] <= 1
                           /\ MonthOf[d] = MonthOf[e] /\ decided[d] > 0 /\ decided[e] > 0 => d = e
    BY DEF MonthIsRebalanced, MonthAccounted, AllAccounted, MonthOnce
  <2>1. Accounted(due, fired, bars, decided, missed, deferred, skipped)
    BY DEF MonthInv
  <2>2. fired \subseteq Sessions /\ \A d \in Sessions : decided[d] \in Nat
    BY DEF TypeInv
  <2>3. \A d \in Sessions : decided[d] <= 1 /\ (decided[d] > 0 <=> decided[d] # 0)
    BY <2>1, <2>2 DEF Accounted
  <2> QED
    BY <2>1, <2>2, <2>3 DEF Accounted
<1> QED
  BY <1>1, <1>2, <1>3, PTL DEF Spec

-----------------------------------------------------------------------------
(* The book of a lane whose orders fill whole, whose positions nobody else *)
(* closes while it has an order for them, and which is not restarted: a    *)
(* name is at rest and known, on its way out, or on its way in.            *)
AtRest(bk, p, s) ==
  bk.pending[s] = "" /\ bk.live[s] = <<>> /\ (~hosted => (s \in bk.held <=> p[s] > 0))
Leaving(bk, p, s) ==
  ~hosted /\ bk.pending[s] = "exit" /\ s \in bk.held /\ p[s] > 0 /\ bk.live[s] = <<Sell(p[s])>>
Entering(bk, p, s) ==
  ~hosted /\ bk.pending[s] = "enter" /\ s \notin bk.held /\ p[s] = 0 /\ bk.live[s] = <<Buy>>

Known(bk, p) ==
  /\ hosted => bk.held = {}
  /\ \A s \in Symbols : AtRest(bk, p, s) \/ Leaving(bk, p, s) \/ Entering(bk, p, s)

BookInv == Alone => Known(book, pos)

(* Looking at a session leaves a known book known: what is held is sold    *)
(* whole, and only what is not held is bought, when nothing is in flight.  *)
LEMMA TryKnows ==
  ASSUME NEW th, NEW bk \in Books, NEW p \in Positions, NEW d, NEW panel, NEW w, NEW m,
         TryDecide(th, bk, p, d, panel, w, m), Known(bk, p)
  PROVE  Known(book', p)
<1>1. CASE book' = bk
  BY <1>1
<1>2. CASE book' # bk
  <2>1. /\ bk.pending = Idle /\ Trades(bk, p, book')
        /\ hosted /\ bk.held = {} => book' = Traded(bk, p, {}, {})
    BY <1>2, TryDecideDoes, TakesDo
  <2>2. \A s \in Symbols : AtRest(bk, p, s)
    BY <2>1 DEF Known, Idle, Leaving, Entering
  <2>3. PICK exits \in SUBSET bk.held, entries \in SUBSET (Symbols \ bk.held) :
          book' = Traded(bk, p, exits, entries) /\ (hosted => exits = {} /\ entries = {})
    <3>1. CASE hosted
      BY <2>1, <3>1 DEF Known
    <3>2. CASE ~hosted
      BY <2>1, <3>2 DEF Trades
    <3> QED
      BY <3>1, <3>2
  <2>4. bk.held \subseteq Symbols /\ exits \in SUBSET Symbols /\ entries \in SUBSET Symbols
    BY BookParts
  <2>5. \A s \in exits : p[s] > 0 /\ p[s] # 0
    <3> SUFFICES ASSUME NEW s \in exits PROVE p[s] > 0 /\ p[s] # 0
      OBVIOUS
    <3>1. s \in Symbols /\ s \in bk.held /\ ~hosted
      BY <2>3, <2>4
    <3>2. p[s] > 0 /\ p[s] \in Nat
      BY <2>2, <3>1 DEF AtRest, Positions
    <3> QED
      BY <3>2
  <2>6. \A s : s \in book'.held <=> s \in bk.held
    <3>1. \A s : s \in Traded(bk, p, exits, entries).held
                  <=> s \in bk.held /\ ~(s \in exits /\ p[s] = 0)
      BY <2>4, TradedHeld
    <3> QED
      BY <2>3, <2>5, <3>1
  <2>7. hosted => book'.held = {}
    BY <2>6 DEF Known
  <2>8. ASSUME NEW s \in Symbols
        PROVE  AtRest(book', p, s) \/ Leaving(book', p, s) \/ Entering(book', p, s)
    <3>1. LET after == Traded(bk, p, exits, entries)
          IN  IF s \in exits /\ p[s] # 0
              THEN after.pending[s] = "exit" /\ after.live[s] = Added(bk.live[s], Sell(p[s]))
              ELSE IF s \notin exits /\ s \in entries
              THEN after.pending[s] = "enter" /\ after.live[s] = Added(bk.live[s], Buy)
              ELSE after.pending[s] = bk.pending[s] /\ after.live[s] = bk.live[s]
      BY <2>4, TradedIs
    <3>2. bk.pending[s] = "" /\ bk.live[s] = <<>> /\ (~hosted => (s \in bk.held <=> p[s] > 0))
      BY <2>2 DEF AtRest
    <3>3. \A o : Added(<<>>, o) = <<o>>
      BY DEF Added
    <3>4. CASE s \in exits
      <4>1. book'.pending[s] = "exit" /\ book'.live[s] = <<Sell(p[s])>>
        BY <2>3, <2>5, <3>1, <3>2, <3>3, <3>4
      <4> QED
        BY <2>3, <2>5, <2>6, <3>4, <4>1 DEF Leaving
    <3>5. CASE s \notin exits /\ s \in entries
      <4>1. book'.pending[s] = "enter" /\ book'.live[s] = <<Buy>>
        BY <2>3, <3>1, <3>2, <3>3, <3>5
      <4>2. s \notin bk.held /\ p[s] \in Nat
        BY <3>5 DEF Positions
      <4>3. ~hosted /\ p[s] = 0
        <5>1. ~hosted
          BY <2>3, <3>5
        <5>2. ~(p[s] > 0)
          BY <3>2, <4>2, <5>1
        <5> QED
          BY <4>2, <5>1, <5>2
      <4> QED
        BY <2>6, <4>1, <4>2, <4>3 DEF Entering
    <3>6. CASE s \notin exits /\ s \notin entries
      BY <2>3, <2>6, <3>1, <3>2, <3>6 DEF AtRest
    <3> QED
      BY <3>4, <3>5, <3>6
  <2> QED
    BY <2>7, <2>8 DEF Known
<1> QED
  BY <1>1, <1>2

LEMMA OneIs == \A x : Len(<<x>>) = 1 /\ <<x>> # <<>>
  OBVIOUS

(* The end of the only order of a name leaves none.                        *)
LEMMA WithoutOnly ==
  ASSUME NEW x, NEW i \in DOMAIN <<x>>
  PROVE  i = 1 /\ Without(<<x>>, i) = <<>>
<1>1. i = 1 /\ Len(<<x>>) = 1
  OBVIOUS
<1>2. SubSeq(<<x>>, 1, 0) = <<>> /\ SubSeq(<<x>>, 2, 1) = <<>>
  BY SubSeqEmpty
<1> QED
  BY <1>1, <1>2 DEF Without

(* A name with an order is on its way out or in, with that order only.     *)
LEMMA OnlyOrder ==
  ASSUME Known(book, pos), NEW s \in Symbols, NEW i \in DOMAIN book.live[s]
  PROVE  /\ ~hosted /\ i = 1 /\ Without(book.live[s], i) = <<>>
         /\ \/ Leaving(book, pos, s) /\ book.live[s][i] = Sell(pos[s])
            \/ Entering(book, pos, s) /\ book.live[s][i] = Buy
<1>1. CASE AtRest(book, pos, s)
  <2>1. i \in DOMAIN <<>>
    BY <1>1 DEF AtRest
  <2> QED
    BY <2>1
<1>2. CASE Leaving(book, pos, s)
  <2>1. i = 1 /\ Without(book.live[s], i) = <<>>
    BY <1>2, WithoutOnly DEF Leaving
  <2> QED
    BY <1>2, <2>1 DEF Leaving
<1>3. CASE Entering(book, pos, s)
  <2>1. i = 1 /\ Without(book.live[s], i) = <<>>
    BY <1>3, WithoutOnly DEF Entering
  <2> QED
    BY <1>3, <2>1 DEF Entering
<1> QED
  BY <1>1, <1>2, <1>3 DEF Known

(* One name settled, the others as they were.                              *)
LEMMA KnownWith ==
  ASSUME Known(book, pos), ~hosted, NEW s \in Symbols, NEW bk \in Books, NEW p \in Positions,
         bk.pending[s] = "", bk.live[s] = <<>>, s \in bk.held <=> p[s] > 0,
         \A r \in Symbols \ {s} :
           /\ bk.pending[r] = book.pending[r] /\ bk.live[r] = book.live[r]
           /\ r \in bk.held <=> r \in book.held
           /\ p[r] = pos[r]
  PROVE  Known(bk, p)
<1>1. AtRest(bk, p, s)
  BY DEF AtRest
<1>2. ASSUME NEW r \in Symbols \ {s}
      PROVE  AtRest(bk, p, r) \/ Leaving(bk, p, r) \/ Entering(bk, p, r)
  <2>1. /\ bk.pending[r] = book.pending[r] /\ bk.live[r] = book.live[r]
        /\ r \in bk.held <=> r \in book.held
        /\ p[r] = pos[r]
    OBVIOUS
  <2>2. AtRest(book, pos, r) \/ Leaving(book, pos, r) \/ Entering(book, pos, r)
    BY DEF Known
  <2>3. AtRest(book, pos, r) => AtRest(bk, p, r)
    BY <2>1 DEF AtRest
  <2>4. Leaving(book, pos, r) => Leaving(bk, p, r)
    BY <2>1 DEF Leaving
  <2>5. Entering(book, pos, r) => Entering(bk, p, r)
    BY <2>1 DEF Entering
  <2> QED
    BY <2>2, <2>3, <2>4, <2>5
<1> QED
  BY <1>1, <1>2 DEF Known

LEMMA BookInit == Init => BookInv
<1> SUFFICES ASSUME Init PROVE Known(book, pos)
  BY DEF BookInv
<1>1. /\ book.held = {} /\ \A s \in Symbols : book.pending[s] = "" /\ book.live[s] = <<>> /\ pos[s] = 0
  BY DEF Init, Idle
<1>2. ASSUME NEW s \in Symbols PROVE AtRest(book, pos, s)
  <2>1. pos[s] = 0
    BY <1>1
  <2>2. ~(pos[s] > 0)
    BY <2>1
  <2>3. s \notin book.held
    BY <1>1
  <2> QED
    BY <1>1, <2>2, <2>3 DEF AtRest
<1> QED
  BY <1>1, <1>2 DEF Known

LEMMA BookStep == TypeInv /\ BookInv /\ [Next]_vars => BookInv'
<1> SUFFICES ASSUME TypeInv, BookInv, [Next]_vars, Alone' PROVE Known(book, pos)'
  BY DEF BookInv
<1>0. UNCHANGED <<env, hosted>>
  BY NextActs DEF Acts, vars, Ticks, OnBar, OnHistory, OnRebalanceOverride, Alert, SessionEnds,
     Restart, Fills, Ends, ProtectiveClose, RunnerTrades, AlertFires, AlertSays, AlertMarks, GoesOn
<1>a. Alone /\ Known(book, pos)
  BY <1>0 DEF BookInv, Alone
<1>o. ~Overlaps
  BY <1>a DEF Alone, Overlaps
<1>t. book \in Books /\ pos \in Positions /\ pos' \in Positions /\ TypeInv'
  BY TypeStep DEF TypeInv
<1>k. ASSUME Known(book', pos') PROVE Known(book, pos)'
  BY <1>0, <1>k DEF Known, AtRest, Leaving, Entering
<1>s. ASSUME UNCHANGED <<book, pos>> PROVE Known(book, pos)'
  BY <1>a, <1>k, <1>s
<1>1. CASE UNCHANGED vars
  BY <1>1, <1>s DEF vars
<1>2. CASE Ticks
  BY <1>2, <1>s DEF Ticks
<1>3. CASE OnBar
  <2>1. PICK w \in {warm, TRUE} : TryDecide("loop", book, pos, due, bars', w, missed)
    BY <1>3 DEF OnBar
  <2> QED
    BY <1>3, <1>a, <1>k, <1>t, <2>1, TryKnows DEF OnBar
<1>4. CASE OnHistory
  BY <1>4, <1>s DEF OnHistory
<1>5. CASE OnRebalanceOverride
  BY <1>5, <1>s DEF OnRebalanceOverride
<1>6. CASE Alert
  <2>1. TryDecide("clock", book, pos, armed.day, bars, warm, Overdue[1])
    BY <1>6 DEF Alert
  <2> QED
    BY <1>6, <1>a, <1>k, <1>t, <2>1, TryKnows DEF Alert
<1>7. CASE SessionEnds
  BY <1>7, <1>s DEF SessionEnds
<1>8. CASE Restart
  BY <1>8, <1>a DEF Restart, Alone
<1>9. ASSUME NEW s \in Symbols, NEW i \in DOMAIN book.live[s], Fills(s, i) PROVE Known(book, pos)'
  <2> DEFINE o == book.live[s][i]
             gone == [book EXCEPT !.live[s] = Without(@, i)]
             after == [gone EXCEPT !.pending[s] = "", !.held = HeldAfter(@, book.pending[s], s)]
  <2>1. /\ ~hosted /\ i = 1 /\ Without(book.live[s], i) = <<>>
        /\ \/ Leaving(book, pos, s) /\ o = Sell(pos[s])
           \/ Entering(book, pos, s) /\ o = Buy
    BY <1>a, OnlyOrder
  <2>2. FillSizes(o.left) = {o.left}
    BY <1>a DEF FillSizes, Alone
  <2>3. /\ pos' = [pos EXCEPT ![s] = @ + (IF o.side = "BUY" THEN o.left ELSE -o.left)]
        /\ Completes(book.pending[s], o.side) => TryDecide("loop", after, pos', due, bars, warm, missed)
    BY <1>9, <2>2 DEF Fills
  <2>4. Completes(book.pending[s], o.side)
    <3>1. Sell(pos[s]).side = "SELL" /\ Buy.side = "BUY"
      BY DEF Sell, Buy
    <3>2. CASE Leaving(book, pos, s) /\ o = Sell(pos[s])
      <4>1. book.pending[s] = "exit" /\ o.side = "SELL"
        BY <3>1, <3>2 DEF Leaving
      <4> HIDE DEF o
      <4> QED
        BY <4>1 DEF Completes
    <3>3. CASE Entering(book, pos, s) /\ o = Buy
      <4>1. book.pending[s] = "enter" /\ o.side = "BUY"
        BY <3>1, <3>3 DEF Entering
      <4> HIDE DEF o
      <4> QED
        BY <4>1 DEF Completes
    <3> QED
      BY <2>1, <3>2, <3>3
  <2>5. /\ after.pending = [book.pending EXCEPT ![s] = ""]
        /\ after.live = [book.live EXCEPT ![s] = <<>>]
        /\ after.held = HeldAfter(book.held, book.pending[s], s)
    BY <1>t, <2>1 DEF Books
  <2>6. after \in Books
    <3>2. book.live[s] \in Seq(Placed)
      BY <1>t, BookParts
    <3>3. Without(book.live[s], i) \in Seq(Placed)
      BY <3>2, WithoutTyped
    <3>4. [book EXCEPT !.live[s] = Without(book.live[s], i)] \in Books
      BY <1>t, <3>3, BookWithLive
    <3>5. gone \in Books
      BY <3>4
    <3>6. HeldAfter(gone.held, book.pending[s], s) \in SUBSET Symbols
      BY <3>5, BookParts DEF HeldAfter
    <3> HIDE DEF gone
    <3>7. after = [gone EXCEPT !.pending[s] = "", !.held = HeldAfter(gone.held, book.pending[s], s)]
      OBVIOUS
    <3> QED
      BY <3>5, <3>6, <3>7, BookFilled
  <2>7. after.pending[s] = "" /\ after.live[s] = <<>>
    BY <1>t, <2>5, BookParts
  <2>8. s \in after.held <=> pos'[s] > 0
    <3>1. CASE Leaving(book, pos, s) /\ o = Sell(pos[s])
      <4>1. s \notin after.held
        BY <2>5, <3>1 DEF Leaving, HeldAfter
      <4>2. pos'[s] = 0
        BY <1>t, <2>3, <3>1 DEF Sell, Positions
      <4> QED
        BY <4>1, <4>2
    <3>2. CASE Entering(book, pos, s) /\ o = Buy
      <4>1. s \in after.held
        BY <2>5, <3>2 DEF Entering, HeldAfter
      <4>2. pos'[s] = Lot /\ Lot > 0
        BY <1>t, <2>3, <3>2, SizesAssumption DEF Entering, Buy, Positions
      <4> QED
        BY <4>1, <4>2
    <3> QED
      BY <2>1, <3>1, <3>2
  <2>9. ASSUME NEW r \in Symbols \ {s}
        PROVE  /\ after.pending[r] = book.pending[r] /\ after.live[r] = book.live[r]
               /\ r \in after.held <=> r \in book.held
               /\ pos'[r] = pos[r]
    BY <1>t, <2>3, <2>5, BookParts DEF HeldAfter, Positions
  <2> HIDE DEF after
  <2>10. Known(after, pos')
    BY <1>a, <1>t, <2>1, <2>6, <2>7, <2>8, <2>9, KnownWith
  <2> QED
    BY <1>k, <1>t, <2>3, <2>4, <2>6, <2>10, TryKnows
<1>10. ASSUME NEW s \in Symbols, NEW i \in DOMAIN book.live[s], Ends(s, i) PROVE Known(book, pos)'
  <2> DEFINE bk == [[book EXCEPT !.live[s] = Without(@, i)] EXCEPT !.pending[s] = ""]
  <2>1. bk \in Books
    BY EndsBook
  <2>2. TryDecide("loop", bk, pos, due, bars, warm, missed) /\ pos' = pos
    BY <1>10 DEF Ends, Forget
  <2>3. /\ ~hosted /\ Without(book.live[s], i) = <<>>
        /\ Leaving(book, pos, s) \/ Entering(book, pos, s)
    BY <1>a, OnlyOrder
  <2>4. /\ bk.pending = [book.pending EXCEPT ![s] = ""]
        /\ bk.live = [book.live EXCEPT ![s] = <<>>] /\ bk.held = book.held
    BY <1>t, <2>3 DEF Books
  <2>5. bk.pending[s] = "" /\ bk.live[s] = <<>>
    BY <1>t, <2>4, BookParts
  <2>6. s \in bk.held <=> pos[s] > 0
    BY <2>3, <2>4 DEF Leaving, Entering
  <2>7. ASSUME NEW r \in Symbols \ {s}
        PROVE  /\ bk.pending[r] = book.pending[r] /\ bk.live[r] = book.live[r]
               /\ r \in bk.held <=> r \in book.held
               /\ pos[r] = pos[r]
    BY <1>t, <2>4, BookParts
  <2> HIDE DEF bk
  <2>8. Known(bk, pos)
    BY <1>a, <1>t, <2>1, <2>3, <2>5, <2>6, <2>7, KnownWith
  <2> QED
    BY <1>k, <1>t, <2>1, <2>2, <2>8, TryKnows
<1>11. ASSUME NEW s \in Symbols, ProtectiveClose(s) PROVE Known(book, pos)'
  <2>1. book.pending[s] = "" /\ pos' = [pos EXCEPT ![s] = 0] /\ pos[s] > 0
    BY <1>11, <1>a DEF ProtectiveClose, Alone
  <2>2. AtRest(book, pos, s)
    BY <1>a, <2>1 DEF Known, Leaving, Entering
  <2>3. \A r \in Symbols \ {s} : pos'[r] = pos[r]
    BY <1>t, <2>1 DEF Positions
  <2>4. pos'[s] = 0
    BY <1>t, <2>1 DEF Positions
  <2>5. CASE hosted
    <3>1. book' = book
      BY <1>11, <1>a, <2>5 DEF ProtectiveClose, Known
    <3>2. \A r \in Symbols : AtRest(book, pos, r)
      BY <1>a, <2>5 DEF Known, Leaving, Entering
    <3>3. Known(book, pos')
      BY <1>a, <2>5, <3>2 DEF Known, AtRest
    <3> QED
      BY <1>k, <3>1, <3>3
  <2>6. CASE ~hosted
    <3>1. s \in book.held
      BY <2>1, <2>2, <2>6 DEF AtRest
    <3>2. book' = [book EXCEPT !.held = @ \ {s}, !.pending[s] = ""]
      BY <1>11, <3>1 DEF ProtectiveClose
    <3>3. /\ book'.pending = [book.pending EXCEPT ![s] = ""] /\ book'.live = book.live
          /\ book'.held = book.held \ {s}
      BY <1>t, <3>2 DEF Books
    <3>4. book' \in Books
      BY <1>t DEF TypeInv
    <3>5. book'.pending[s] = "" /\ book'.live[s] = <<>> /\ (s \in book'.held <=> pos'[s] > 0)
      <4>1. book'.pending[s] = "" /\ s \notin book'.held
        <5>1. book.pending \in [Symbols -> Kinds]
          BY <1>t, BookParts
        <5> QED
          BY <3>3, <5>1
      <4>2. book'.live[s] = <<>>
        BY <2>2, <3>3 DEF AtRest
      <4>3. ~(pos'[s] > 0)
        BY <2>4
      <4> QED
        BY <4>1, <4>2, <4>3
    <3>6. ASSUME NEW r \in Symbols \ {s}
          PROVE  /\ book'.pending[r] = book.pending[r] /\ book'.live[r] = book.live[r]
                 /\ r \in book'.held <=> r \in book.held
                 /\ pos'[r] = pos[r]
      BY <1>t, <2>3, <3>3, BookParts
    <3>7. Known(book', pos')
      BY <1>a, <1>t, <2>6, <3>4, <3>5, <3>6, KnownWith
    <3> QED
      BY <1>k, <3>7
  <2> QED
    BY <2>5, <2>6
<1>12. ASSUME NEW s \in Symbols, RunnerTrades(s) PROVE Known(book, pos)'
  <2>1. hosted /\ TryDecide("loop", book, pos', due, bars, warm, missed)
    BY <1>12 DEF RunnerTrades
  <2>2. \A r \in Symbols : AtRest(book, pos, r)
    BY <1>a, <2>1 DEF Known, Leaving, Entering
  <2>3. Known(book, pos')
    BY <1>a, <2>1, <2>2 DEF Known, AtRest
  <2> QED
    BY <1>k, <1>t, <2>1, <2>3, TryKnows
<1> QED
  BY <1>1, <1>2, <1>3, <1>4, <1>5, <1>6, <1>7, <1>8, <1>9, <1>10, <1>11, <1>12, <1>o, Serial,
     NextActs DEF Acts

(* A lane that trades itself knows what it holds whenever nothing is in    *)
(* flight, and has at most one order of a name, as long as orders fill     *)
(* whole, one process sees their answers and nobody closes what it is      *)
(* trading.                                                                *)
THEOREM BookKnown == Spec => []BookIsKnown
<1>1. Init => TypeInv /\ BookInv
  BY TypeInit, BookInit
<1>2. TypeInv /\ BookInv /\ [Next]_vars => (TypeInv /\ BookInv)'
  BY TypeStep, BookStep
<1>3. TypeInv /\ BookInv => BookIsKnown
  <2> SUFFICES ASSUME TypeInv, BookInv, Alone PROVE BookIsKnown
    BY DEF BookIsKnown, HeldIsTrue, OneOrderEach, Alone
  <2>1. Known(book, pos) /\ book.held \subseteq Symbols
    BY BookParts DEF BookInv, TypeInv
  <2>2. HeldIsTrue
    <3> SUFFICES ASSUME ~hosted, Quiet PROVE book.held = Shown(pos)
      BY DEF HeldIsTrue
    <3>1. ASSUME NEW s \in Symbols PROVE s \in book.held <=> pos[s] > 0
      <4>1. book.live[s] = <<>>
        BY DEF Quiet
      <4>2. ~Leaving(book, pos, s) /\ ~Entering(book, pos, s)
        BY <4>1, OneIs DEF Leaving, Entering
      <4> QED
        BY <2>1, <4>2 DEF Known, AtRest
    <3> QED
      BY <2>1, <3>1 DEF Shown
  <2>3. OneOrderEach
    <3> SUFFICES ASSUME NEW s \in Symbols PROVE Len(book.live[s]) <= 1
      BY DEF OneOrderEach
    <3>1. CASE AtRest(book, pos, s)
      <4>1. book.live[s] = <<>>
        BY <3>1 DEF AtRest
      <4>2. Len(book.live[s]) = 0
        BY <4>1
      <4> QED
        BY <4>2
    <3>2. CASE Leaving(book, pos, s)
      <4>1. Len(book.live[s]) = 1
        BY <3>2, OneIs DEF Leaving
      <4> QED
        BY <4>1
    <3>3. CASE Entering(book, pos, s)
      <4>1. Len(book.live[s]) = 1
        BY <3>3, OneIs DEF Entering
      <4> QED
        BY <4>1
    <3> QED
      BY <2>1, <3>1, <3>2, <3>3 DEF Known
  <2> QED
    BY <2>2, <2>3 DEF BookIsKnown
<1> QED
  BY <1>1, <1>2, <1>3, PTL DEF Spec

=============================================================================
