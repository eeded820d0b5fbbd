------------------------------ MODULE LanesProofs ------------------------------
(***************************************************************************)
(* The monthly runner for any symbols, runs and surroundings: types, what  *)
(* backs an order, and that no claim is too small; the short lane for any  *)
(* names, slots and lot: its slots, reservations, book and orders; the     *)
(* intraday lane for any names, grid and book: the bars a slot is decided  *)
(* on, and what it holds; the sleeve and the template for any legs,        *)
(* weights and prices: their books and claims, and the sleeve's plan; the  *)
(* rotation for any panels and estimates: what it decides and sizes.       *)
(***************************************************************************)
EXTENDS Lanes, SumTheorems, SequenceTheorems, FiniteSetTheorems, WellFoundedInduction, TLAPS

-----------------------------------------------------------------------------
(* Types.                                                                  *)
Steps == {"idle", "check", "decide", "write", "recheck", "exits", "entries", "claim"} \cup Sides
Runs == [step : Steps, st : States, exit : SUBSET Symbols, enter : SUBSET Symbols,
         sure : BOOLEAN, sym : SUBSET Symbols, qty : Nat]
Orders == [is : {"none", "working", "filled", "refused"}, left : Nat, sure : BOOLEAN]
Decisions == [exit : SUBSET Symbols, enter : SUBSET Symbols, made : BOOLEAN]

TypeInv ==
  /\ env \in Envs /\ lifecycle \in States /\ decision \in Decisions /\ intents \subseteq Ids
  /\ order \in [Ids -> Orders]
  /\ pos \in [Symbols -> Nat] /\ claim \in [Symbols -> Nat] /\ due \subseteq Symbols \X Nat
  /\ awake \in BOOLEAN /\ unsaid \subseteq Symbols /\ (~awake => due = {})
  /\ run \in [Procs -> Runs]

LEMMA IdleIsARun == Idle \in Runs
  BY DEF Idle, Runs, Steps, States

LEMMA GoesToARun ==
  ASSUME TypeInv, NEW p \in Procs, NEW r \in Runs, Goto(p, r)
  PROVE  run' \in [Procs -> Runs] /\ run'[p] = r /\ \A q \in Procs : q # p => run'[q] = run[q]
  BY DEF TypeInv, Goto

(* What _send leaves: an intent row and the order to come, or nothing.     *)
LEMMA IntendsTyped ==
  ASSUME TypeInv, NEW p \in Procs, NEW s \in Symbols, NEW side \in Sides, NEW qty \in Nat,
         NEW rest \in Runs, Intend(p, s, side, qty, rest)
  PROVE  /\ run' \in [Procs -> Runs] /\ intents' \subseteq Ids /\ intents \subseteq intents'
         /\ \A q \in Procs : q # p => run'[q] = run[q]
         /\ \/ run'[p] = rest
            \/ run'[p] = [rest EXCEPT !.step = side, !.sym = {s}, !.qty = qty]
               /\ <<s, side>> \in intents'
<1>1. [rest EXCEPT !.step = side, !.sym = {s}, !.qty = qty] \in Runs
  BY DEF Runs, Steps
<1>2. intents' \subseteq Ids /\ intents \subseteq intents'
  BY DEF Intend, TypeInv, Ids
<1>3. CASE Goto(p, rest)
  BY <1>2, <1>3, GoesToARun
<1>4. CASE /\ Goto(p, [rest EXCEPT !.step = side, !.sym = {s}, !.qty = qty])
           /\ <<s, side>> \in intents'
  BY <1>1, <1>2, <1>4, GoesToARun
<1> QED
  BY <1>3, <1>4 DEF Intend

(* Runs that die are idle, the others go on.                               *)
LEMMA GoneAreIdle ==
  ASSUME TypeInv, Dies
  PROVE  /\ run' \in [Procs -> Runs]
         /\ \A p \in Procs : run'[p] = Idle \/ run'[p] = run[p]
<1>1. PICK gone \in SUBSET Procs : run' = [p \in Procs |-> IF p \in gone THEN Idle ELSE run[p]]
  BY DEF Dies
<1> QED
  BY <1>1, IdleIsARun DEF TypeInv

(* What the adapter does with an event of a name.                          *)
LEMMA HearsTyped ==
  ASSUME TypeInv, NEW s \in Symbols, pos' \in [Symbols -> Nat], Hears(s), UNCHANGED awake
  PROVE  due' \subseteq Symbols \X Nat /\ unsaid' \subseteq Symbols /\ (~awake' => due' = {})
  BY DEF TypeInv, Hears

(* Every row, order, position and run keeps its type; no position and no   *)
(* claim goes below zero.                                                  *)
THEOREM TypeInvariant == Spec => []TypeInv
<1>1. Init => TypeInv
  BY IdleIsARun, SizesAssumption
  DEF Init, TypeInv, NotMade, Decisions, Unsent, Orders, Ids, States
<1>2. TypeInv /\ [Next]_vars => TypeInv'
  <2> SUFFICES ASSUME TypeInv, [Next]_vars PROVE TypeInv'
    OBVIOUS
  <2> USE DEF TypeInv
  <2>1. ASSUME NEW p \in Procs, ReadState(p) PROVE TypeInv'
    <3>1. [Idle EXCEPT !.step = "check", !.st = lifecycle] \in Runs
      BY IdleIsARun DEF Runs, Steps
    <3> QED
      BY <2>1, <3>1, GoesToARun DEF ReadState, Book
  <2>2. ASSUME NEW p \in Procs, Check(p) PROVE TypeInv'
    <3>1. [run[p] EXCEPT !.step = "decide"] \in Runs
      BY DEF Runs, Steps
    <3> QED
      BY <2>2, <3>1, IdleIsARun, GoesToARun DEF Check, Return, Book
  <2>3. ASSUME NEW p \in Procs, Declines(p) PROVE TypeInv'
    BY <2>3, IdleIsARun, GoesToARun DEF Declines, Return, Book, Halt, States
  <2>4. ASSUME NEW p \in Procs, Decide(p) PROVE TypeInv'
    <3>1. PICK target \in SUBSET Symbols, mine \in ReadsHeld :
            Goto(p, [run[p] EXCEPT !.step = "write", !.exit = mine \ target,
                                   !.enter = target \ mine])
      BY <2>4 DEF Decide
    <3>2. mine \subseteq Symbols
      BY DEF ReadsHeld, Held
    <3>3. [run[p] EXCEPT !.step = "write", !.exit = mine \ target, !.enter = target \ mine]
            \in Runs
      BY <3>2 DEF Runs, Steps
    <3> QED
      BY <2>4, <3>1, <3>3, GoesToARun DEF Decide, Book
  <2>5. ASSUME NEW p \in Procs, WriteDecision(p) PROVE TypeInv'
    <3>1. [run[p] EXCEPT !.step = "recheck"] \in Runs /\ Row(p) \in Decisions
      BY DEF Runs, Steps, Row, Decisions
    <3> QED
      BY <2>5, <3>1, IdleIsARun, GoesToARun DEF WriteDecision, Return, Book
  <2>6. ASSUME NEW p \in Procs, Recheck(p) PROVE TypeInv'
    <3>1. [run[p] EXCEPT !.step = "exits", !.sure = TRUE] \in Runs
      BY DEF Runs, Steps
    <3> QED
      BY <2>6, <3>1, IdleIsARun, GoesToARun DEF Recheck, Return, Book
  <2>7. ASSUME NEW p \in Procs, IntendExit(p) PROVE TypeInv'
    <3>1. PICK s \in run[p].exit :
            Intend(p, s, "SELL", IF pos[s] > 0 THEN pos[s] ELSE 0, [run[p] EXCEPT !.exit = @ \ {s}])
      BY <2>7 DEF IntendExit
    <3>2. s \in Symbols /\ [run[p] EXCEPT !.exit = @ \ {s}] \in Runs /\ "SELL" \in Sides
      BY DEF Runs, Sides
    <3>3. (IF pos[s] > 0 THEN pos[s] ELSE 0) \in Nat
      BY <3>2
    <3> QED
      BY <2>7, <3>1, <3>2, <3>3, IntendsTyped DEF IntendExit, Book
  <2>8. ASSUME NEW p \in Procs, ExitsDone(p) PROVE TypeInv'
    <3>1. [run[p] EXCEPT !.step = "entries"] \in Runs
      BY DEF Runs, Steps
    <3> QED
      BY <2>8, <3>1, IdleIsARun, GoesToARun DEF ExitsDone, Return, Book
  <2>9. ASSUME NEW p \in Procs, IntendEntry(p) PROVE TypeInv'
    <3>1. PICK s \in run[p].enter, qty \in {0, Lot} :
            Intend(p, s, "BUY", qty, [run[p] EXCEPT !.enter = @ \ {s}])
      BY <2>9 DEF IntendEntry
    <3>2. /\ s \in Symbols /\ [run[p] EXCEPT !.enter = @ \ {s}] \in Runs /\ "BUY" \in Sides
          /\ qty \in Nat
      BY SizesAssumption DEF Runs, Sides
    <3> QED
      BY <2>9, <3>1, <3>2, IntendsTyped DEF IntendEntry, Book
  <2>10. ASSUME NEW p \in Procs, EntriesDone(p) PROVE TypeInv'
    BY <2>10, IdleIsARun, GoesToARun DEF EntriesDone, Return, Book
  <2>11. ASSUME NEW p \in Procs, Send(p) PROVE TypeInv'
    <3>1. PICK s \in run[p].sym, ok \in BOOLEAN :
            LET i == <<s, run[p].step>>
            IN  /\ IF order[i].is = "none"
                   THEN order' = [order EXCEPT ![i] =
                          [is |-> IF ok THEN "working" ELSE "refused",
                           left |-> IF ok THEN run[p].qty ELSE 0, sure |-> run[p].sure]]
                   ELSE ok = (order[i].is # "refused") /\ UNCHANGED order
                /\ Goto(p, IF ok /\ run[p].step = "BUY" THEN [run[p] EXCEPT !.step = "claim"]
                           ELSE [run[p] EXCEPT !.step =
                                   IF run[p].step = "SELL" THEN "exits" ELSE "entries"])
      BY <2>11 DEF Send
    <3>2. /\ [run[p] EXCEPT !.step = "claim"] \in Runs
          /\ [run[p] EXCEPT !.step = IF run[p].step = "SELL" THEN "exits" ELSE "entries"] \in Runs
      BY DEF Runs, Steps
    <3>3. run' \in [Procs -> Runs]
      BY <3>1, <3>2, GoesToARun
    <3>4. [is |-> IF ok THEN "working" ELSE "refused", left |-> IF ok THEN run[p].qty ELSE 0,
           sure |-> run[p].sure] \in Orders
      BY DEF Orders, Runs
    <3>5. order' \in [Ids -> Orders]
      BY <3>1, <3>4
    <3> QED
      BY <2>11, <3>3, <3>5 DEF Send
  <2>12. ASSUME NEW p \in Procs, WriteClaim(p) PROVE TypeInv'
    <3>1. [run[p] EXCEPT !.step = "entries"] \in Runs /\ run[p].qty \in Nat
      BY DEF Runs, Steps
    <3> QED
      BY <2>12, <3>1, GoesToARun DEF WriteClaim
  <2>13. ASSUME Dies PROVE TypeInv'
    <3>1. UNCHANGED <<env, lifecycle, decision, intents, order, pos, claim>>
      BY <2>13 DEF Dies
    <3>2. \/ UNCHANGED <<awake, due, unsaid>>
          \/ awake' = FALSE /\ due' = {} /\ unsaid' = unsaid \cup {d[1] : d \in due}
      BY <2>13 DEF Dies
    <3>3. {d[1] : d \in due} \subseteq Symbols
      OBVIOUS
    <3>4. awake' \in BOOLEAN /\ unsaid' \subseteq Symbols /\ (~awake' => due' = {})
          /\ due' \subseteq Symbols \X Nat
      BY <3>2, <3>3
    <3> QED
      BY <2>13, <3>1, <3>4, GoneAreIdle
  <2>14. ASSUME NEW i \in Ids, Fills(i) PROVE TypeInv'
    <3>1. PICK n \in 1..order[i].left :
            /\ i[2] = "SELL" => pos[i[1]] >= n
            /\ pos' = [pos EXCEPT ![i[1]] = @ + Signed(i[2], n)]
            /\ order' = [order EXCEPT ![i].left = @ - n,
                                      ![i].is = IF n = order[i].left THEN "filled" ELSE @]
      BY <2>14 DEF Fills
    <3>2. i[1] \in Symbols /\ i[2] \in Sides
      BY DEF Ids
    <3>3. order[i].left - n \in Nat
      BY <3>1 DEF Orders
    <3>4. pos[i[1]] + Signed(i[2], n) \in Nat
      BY <3>1, <3>2 DEF Signed, Sides, Orders
    <3>5. order' \in [Ids -> Orders] /\ pos' \in [Symbols -> Nat]
      BY <3>1, <3>3, <3>4 DEF Orders
    <3>6. Hears(i[1]) /\ UNCHANGED <<env, lifecycle, decision, intents, claim, awake, run>>
      BY <2>14 DEF Fills
    <3>7. due' \subseteq Symbols \X Nat /\ unsaid' \subseteq Symbols /\ (~awake' => due' = {})
      BY <3>2, <3>5, <3>6, HearsTyped
    <3> QED
      BY <3>5, <3>6, <3>7
  <2>15. ASSUME NEW i \in Ids, Ends(i) PROVE TypeInv'
    <3>1. order' \in [Ids -> Orders] /\ i[1] \in Symbols
      BY <2>15 DEF Ends, Orders, Ids
    <3>2. UNCHANGED <<env, lifecycle, decision, intents, pos, claim, awake, run>>
      BY <2>15 DEF Ends
    <3>3. Hears(i[1]) \/ UNCHANGED <<due, unsaid>>
      BY <2>15 DEF Ends
    <3>4. due' \subseteq Symbols \X Nat /\ unsaid' \subseteq Symbols /\ (~awake' => due' = {})
      BY <3>1, <3>2, <3>3, HearsTyped
    <3> QED
      BY <3>1, <3>2, <3>4
  <2>16. ASSUME NEW d \in due, Sync(d) PROVE TypeInv'
    BY <2>16 DEF Sync
  <2>17. ASSUME Operator PROVE TypeInv'
    BY <2>17, SizesAssumption DEF Operator, Book
  <2>18. ASSUME UNCHANGED vars PROVE TypeInv'
    BY <2>18 DEF vars
  <2>19. ASSUME Starts PROVE TypeInv'
    BY <2>19 DEF Starts
  <2> QED
    BY <2>1, <2>2, <2>3, <2>4, <2>5, <2>6, <2>7, <2>8, <2>9, <2>10, <2>11, <2>12, <2>13, <2>14,
       <2>15, <2>16, <2>17, <2>18, <2>19 DEF Next
<1> QED
  BY <1>1, <1>2, PTL DEF Spec

-----------------------------------------------------------------------------
(* What backs an order.  A run past the last look has looked; what it is   *)
(* about to send has its intent row; and, while the journal takes its      *)
(* rows, all it still carries is of the decision on record.                *)
Submitting == {"exits", "entries", "claim"} \cup Sides

Looked(r) == r.step \in Submitting => r.sure
Intended(r) == r.step \in Sides => \A s \in r.sym : <<s, r.step>> \in intents
OfTheDecision(r) ==
  "lost" \notin env /\ r.step \in Submitting \cup {"recheck"} =>
    /\ decision.made /\ r.exit \subseteq decision.exit /\ r.enter \subseteq decision.enter
    /\ r.step = "SELL" => r.sym \subseteq decision.exit
    /\ r.step = "BUY" => r.sym \subseteq decision.enter

Backing(r) == Looked(r) /\ Intended(r) /\ OfTheDecision(r)

BackedInv ==
  /\ OrdersAreBacked
  /\ ~decision.made => decision = NotMade
  /\ \A p \in Procs : Backing(run[p])

LEMMA IdleIsBacked == Backing(Idle)
  BY DEF Backing, Looked, Intended, OfTheDecision, Submitting, Sides, Idle

(* A step of one run that writes no decision and sends no order disturbs   *)
(* no other run.                                                           *)
LEMMA OnlyThisRunMoved ==
  ASSUME TypeInv, BackedInv, NEW p \in Procs, UNCHANGED <<env, decision, order>>,
         intents \subseteq intents', Backing(run[p])',
         \A q \in Procs : q # p => run'[q] = run[q]
  PROVE  BackedInv'
<1>1. OrdersAreBacked' /\ (~decision.made => decision = NotMade)'
  BY DEF BackedInv, OrdersAreBacked, Sent, Exits, Enters
<1>2. ASSUME NEW q \in Procs, q # p PROVE Backing(run[q])'
  BY <1>2 DEF BackedInv, Backing, Looked, Intended, OfTheDecision
<1> QED
  BY <1>1, <1>2 DEF BackedInv

(* A run that returns, or goes on with what it had, stays backed.          *)
LEMMA Returns ==
  ASSUME TypeInv, BackedInv, NEW p \in Procs, UNCHANGED <<env, decision, intents, order>>,
         Return(p)
  PROVE  BackedInv'
<1>1. run'[p] = Idle /\ \A q \in Procs : q # p => run'[q] = run[q]
  BY IdleIsARun, GoesToARun DEF Return
<1>2. Backing(run[p])'
  BY <1>1, IdleIsBacked DEF Backing, Looked, Intended, OfTheDecision
<1> QED
  BY <1>1, <1>2, OnlyThisRunMoved

LEMMA GoesOn ==
  ASSUME TypeInv, BackedInv, NEW p \in Procs, NEW r \in Runs,
         UNCHANGED <<env, decision, intents, order>>, Goto(p, r), Backing(r)
  PROVE  BackedInv'
<1>1. run'[p] = r /\ \A q \in Procs : q # p => run'[q] = run[q]
  BY GoesToARun
<1>2. Backing(run[p])'
  BY <1>1 DEF Backing, Looked, Intended, OfTheDecision
<1> QED
  BY <1>1, <1>2, OnlyThisRunMoved

(* An intent written for a name the run still carried backs its order.     *)
LEMMA IntendsBacked ==
  ASSUME TypeInv, BackedInv, NEW p \in Procs, NEW s \in Symbols, NEW side \in Sides,
         NEW qty \in Nat, NEW rest \in Runs, Intend(p, s, side, qty, rest),
         UNCHANGED <<env, decision, order>>, Backing(rest), rest.step \in {"exits", "entries"},
         "lost" \notin env => s \in IF side = "SELL" THEN decision.exit ELSE decision.enter
  PROVE  BackedInv'
<1>1. Backing(run[p])'
  <2>1. CASE run'[p] = rest
    BY <2>1 DEF Backing, Looked, Intended, OfTheDecision, Submitting, Sides
  <2>2. CASE run'[p] = [rest EXCEPT !.step = side, !.sym = {s}, !.qty = qty]
             /\ <<s, side>> \in intents'
    <3>1. /\ run'[p].step = side /\ run'[p].sym = {s} /\ run'[p].sure = rest.sure
          /\ run'[p].exit = rest.exit /\ run'[p].enter = rest.enter
      BY <2>2 DEF Runs
    <3>2. /\ rest.sure
          /\ "lost" \notin env => /\ decision.made
                                  /\ rest.exit \subseteq decision.exit
                                  /\ rest.enter \subseteq decision.enter
      BY DEF Backing, Looked, OfTheDecision, Submitting
    <3> QED
      BY <2>2, <3>1, <3>2 DEF Backing, Looked, Intended, OfTheDecision, Sides
  <2>3. \/ run'[p] = rest
        \/ run'[p] = [rest EXCEPT !.step = side, !.sym = {s}, !.qty = qty]
           /\ <<s, side>> \in intents'
    <3>1. [rest EXCEPT !.step = side, !.sym = {s}, !.qty = qty] \in Runs
      BY DEF Runs, Steps
    <3> QED
      BY <3>1, GoesToARun DEF Intend
  <2> QED
    BY <2>1, <2>2, <2>3
<1> QED
  BY <1>1, IntendsTyped, OnlyThisRunMoved

(* Every order is backed, for any number of runs of the slot.              *)
THEOREM BackedInvariant == Spec => []BackedInv
<1>1. Init => BackedInv
  BY IdleIsBacked DEF Init, BackedInv, OrdersAreBacked, Sent, Unsent
<1>2. TypeInv /\ TypeInv' /\ BackedInv /\ [Next]_vars => BackedInv'
  <2> SUFFICES ASSUME TypeInv, TypeInv', BackedInv, [Next]_vars PROVE BackedInv'
    OBVIOUS
  <2> DEFINE B == <<env, decision, intents, order>>
  <2>1. ASSUME NEW p \in Procs, ReadState(p) PROVE BackedInv'
    <3>1. [Idle EXCEPT !.step = "check", !.st = lifecycle] \in Runs
      BY IdleIsARun DEF Runs, Steps, TypeInv
    <3>2. Backing([Idle EXCEPT !.step = "check", !.st = lifecycle])
      BY DEF Backing, Looked, Intended, OfTheDecision, Submitting, Sides, Idle
    <3> QED
      BY <2>1, <3>1, <3>2, GoesOn DEF ReadState, Book
  <2>2. ASSUME NEW p \in Procs, Check(p) PROVE BackedInv'
    <3>1. [run[p] EXCEPT !.step = "decide"] \in Runs
      BY DEF Runs, Steps, TypeInv
    <3>2. Backing([run[p] EXCEPT !.step = "decide"])
      BY <3>1 DEF Backing, Looked, Intended, OfTheDecision, Submitting, Sides, Runs, TypeInv
    <3> QED
      BY <2>2, <3>1, <3>2, GoesOn, Returns DEF Check, Book
  <2>3. ASSUME NEW p \in Procs, Declines(p) PROVE BackedInv'
    BY <2>3, Returns DEF Declines, Book
  <2>4. ASSUME NEW p \in Procs, Decide(p) PROVE BackedInv'
    <3>1. PICK target \in SUBSET Symbols, mine \in ReadsHeld :
            Goto(p, [run[p] EXCEPT !.step = "write", !.exit = mine \ target,
                                   !.enter = target \ mine])
      BY <2>4 DEF Decide
    <3> DEFINE r == [run[p] EXCEPT !.step = "write", !.exit = mine \ target,
                                   !.enter = target \ mine]
    <3>2. mine \subseteq Symbols
      BY DEF ReadsHeld, Held
    <3>3. r \in Runs
      <4>1. run[p] \in Runs
        BY DEF TypeInv
      <4>2. mine \ target \in SUBSET Symbols /\ target \ mine \in SUBSET Symbols
        BY <3>2
      <4>3. "write" \in Steps
        BY DEF Steps
      <4> QED
        BY <4>1, <4>2, <4>3 DEF Runs
    <3>4. Backing(r)
      BY DEF Backing, Looked, Intended, OfTheDecision, Submitting, Sides, Runs, TypeInv
    <3> QED
      BY <2>4, <3>1, <3>3, <3>4, GoesOn DEF Decide, Book
  <2>5. ASSUME NEW p \in Procs, WriteDecision(p) PROVE BackedInv'
    <3> DEFINE r == [run[p] EXCEPT !.step = "recheck"]
    <3>1. /\ r \in Runs /\ r.step = "recheck"
          /\ r.exit = run[p].exit /\ r.enter = run[p].enter
      BY DEF Runs, Steps, TypeInv
    <3>2. CASE decision.made /\ Return(p) /\ UNCHANGED decision
      BY <2>5, <3>2, Returns DEF WriteDecision, Book
    <3>3. CASE "lost" \in env /\ Goto(p, r) /\ UNCHANGED decision
      <4>1. Backing(r)
        BY <3>1, <3>3 DEF Backing, Looked, Intended, OfTheDecision, Submitting, Sides
      <4> QED
        BY <2>5, <3>1, <3>3, <4>1, GoesOn DEF WriteDecision, Book
    <3>4. CASE ~decision.made /\ decision' = Row(p) /\ Goto(p, r)
      <4>1. run'[p] = r /\ \A q \in Procs : q # p => run'[q] = run[q]
        BY <3>1, <3>4, GoesToARun
      <4>2. UNCHANGED <<env, intents, order>>
        BY <2>5 DEF WriteDecision, Book
      <4>3. decision'.made /\ decision'.exit = run[p].exit /\ decision'.enter = run[p].enter
        BY <3>4 DEF Row
      <4>4. "lost" \notin env => Sent = {}
        BY <3>4 DEF BackedInv, OrdersAreBacked, NotMade, Exits, Enters
      <4>5. OrdersAreBacked'
        BY <4>2, <4>4 DEF BackedInv, OrdersAreBacked, Sent
      <4>6. Backing(run[p])'
        BY <3>1, <4>1, <4>3 DEF Backing, Looked, Intended, OfTheDecision, Submitting, Sides
      <4>7. ASSUME NEW q \in Procs, q # p PROVE Backing(run[q])'
        <5>1. "lost" \in env \/ run[q].step \notin Submitting \cup {"recheck"}
          BY <3>4 DEF BackedInv, Backing, OfTheDecision
        <5> QED
          BY <4>1, <4>2, <4>7, <5>1 DEF BackedInv, Backing, Looked, Intended, OfTheDecision
      <4> QED
        BY <4>3, <4>5, <4>6, <4>7 DEF BackedInv
    <3> QED
      BY <2>5, <3>2, <3>3, <3>4 DEF WriteDecision
  <2>6. ASSUME NEW p \in Procs, Recheck(p) PROVE BackedInv'
    <3> DEFINE r == [run[p] EXCEPT !.step = "exits", !.sure = TRUE]
    <3>1. /\ r \in Runs /\ r.step = "exits" /\ r.sure
          /\ r.exit = run[p].exit /\ r.enter = run[p].enter
      BY DEF Runs, Steps, TypeInv
    <3>2. Backing(r)
      BY <2>6, <3>1
      DEF Recheck, BackedInv, Backing, Looked, Intended, OfTheDecision, Submitting, Sides
    <3> QED
      BY <2>6, <3>1, <3>2, GoesOn, Returns DEF Recheck, Book
  <2>7. ASSUME NEW p \in Procs, IntendExit(p) PROVE BackedInv'
    <3>1. PICK s \in run[p].exit :
            Intend(p, s, "SELL", IF pos[s] > 0 THEN pos[s] ELSE 0, [run[p] EXCEPT !.exit = @ \ {s}])
      BY <2>7 DEF IntendExit
    <3> DEFINE r == [run[p] EXCEPT !.exit = @ \ {s}]
    <3>2. /\ s \in Symbols /\ r \in Runs /\ "SELL" \in Sides /\ r.step = "exits"
          /\ r.sure = run[p].sure /\ r.exit \subseteq run[p].exit /\ r.enter = run[p].enter
      BY <2>7 DEF IntendExit, Runs, Sides, TypeInv
    <3>3. (IF pos[s] > 0 THEN pos[s] ELSE 0) \in Nat
      BY <3>2 DEF TypeInv
    <3>4. Backing(r) /\ ("lost" \notin env => s \in decision.exit)
      BY <2>7, <3>2
      DEF IntendExit, BackedInv, Backing, Looked, Intended, OfTheDecision, Submitting, Sides
    <3> QED
      BY <2>7, <3>1, <3>2, <3>3, <3>4, IntendsBacked DEF IntendExit, Book
  <2>8. ASSUME NEW p \in Procs, ExitsDone(p) PROVE BackedInv'
    <3> DEFINE r == [run[p] EXCEPT !.step = "entries"]
    <3>1. /\ r \in Runs /\ r.step = "entries" /\ r.sure = run[p].sure
          /\ r.exit = run[p].exit /\ r.enter = run[p].enter
      BY DEF Runs, Steps, TypeInv
    <3>2. Backing(r)
      BY <2>8, <3>1
      DEF ExitsDone, BackedInv, Backing, Looked, Intended, OfTheDecision, Submitting, Sides
    <3> QED
      BY <2>8, <3>1, <3>2, GoesOn, Returns DEF ExitsDone, Book
  <2>9. ASSUME NEW p \in Procs, IntendEntry(p) PROVE BackedInv'
    <3>1. PICK s \in run[p].enter, qty \in {0, Lot} :
            Intend(p, s, "BUY", qty, [run[p] EXCEPT !.enter = @ \ {s}])
      BY <2>9 DEF IntendEntry
    <3> DEFINE r == [run[p] EXCEPT !.enter = @ \ {s}]
    <3>2. /\ s \in Symbols /\ r \in Runs /\ "BUY" \in Sides /\ r.step = "entries"
          /\ r.sure = run[p].sure /\ r.enter \subseteq run[p].enter /\ r.exit = run[p].exit
      BY <2>9 DEF IntendEntry, Runs, Sides, TypeInv
    <3>4. qty \in Nat
      BY SizesAssumption
    <3>3. Backing(r) /\ ("lost" \notin env => s \in decision.enter)
      BY <2>9, <3>2
      DEF IntendEntry, BackedInv, Backing, Looked, Intended, OfTheDecision, Submitting, Sides
    <3> QED
      BY <2>9, <3>1, <3>2, <3>3, <3>4, IntendsBacked DEF IntendEntry, Book
  <2>10. ASSUME NEW p \in Procs, EntriesDone(p) PROVE BackedInv'
    BY <2>10, Returns DEF EntriesDone, Book
  <2>11. ASSUME NEW p \in Procs, Send(p) PROVE BackedInv'
    <3>1. PICK s \in run[p].sym, ok \in BOOLEAN :
            LET i == <<s, run[p].step>>
            IN  /\ IF order[i].is = "none"
                   THEN order' = [order EXCEPT ![i] =
                          [is |-> IF ok THEN "working" ELSE "refused",
                           left |-> IF ok THEN run[p].qty ELSE 0, sure |-> run[p].sure]]
                   ELSE ok = (order[i].is # "refused") /\ UNCHANGED order
                /\ Goto(p, IF ok /\ run[p].step = "BUY" THEN [run[p] EXCEPT !.step = "claim"]
                           ELSE [run[p] EXCEPT !.step =
                                   IF run[p].step = "SELL" THEN "exits" ELSE "entries"])
      BY <2>11 DEF Send
    <3> DEFINE i == <<s, run[p].step>>
               next == IF ok /\ run[p].step = "BUY" THEN "claim"
                       ELSE IF run[p].step = "SELL" THEN "exits" ELSE "entries"
               r == [run[p] EXCEPT !.step = next]
    <3>2. /\ r \in Runs /\ r.step = next /\ r.sure = run[p].sure
          /\ r.exit = run[p].exit /\ r.enter = run[p].enter
      BY DEF Runs, Steps, TypeInv
    <3>3. run'[p] = r /\ \A q \in Procs : q # p => run'[q] = run[q]
      BY <3>1, <3>2, GoesToARun
    <3>4. run[p].step \in Sides /\ UNCHANGED <<env, decision, intents>>
      BY <2>11 DEF Send
    <3>5. /\ run[p].sure /\ i \in intents
          /\ "lost" \notin env =>
               /\ decision.made /\ i \in Exits(decision) \cup Enters(decision)
               /\ run[p].exit \subseteq decision.exit /\ run[p].enter \subseteq decision.enter
      BY <3>4 DEF BackedInv, Backing, Looked, Intended, OfTheDecision, Submitting, Sides, Exits, Enters
    <3>6. \A j \in Ids : order'[j].is # "none" =>
            \/ order[j].is # "none" /\ order'[j].sure = order[j].sure
            \/ j = i /\ order'[j].sure
      <4>1. i \in Ids
        BY <3>4 DEF TypeInv, Runs, Ids
      <4>2. CASE UNCHANGED order
        BY <4>2
      <4>3. CASE order' = [order EXCEPT ![i] =
                   [is |-> IF ok THEN "working" ELSE "refused",
                    left |-> IF ok THEN run[p].qty ELSE 0, sure |-> run[p].sure]]
        <5>1. order'[i].sure = run[p].sure /\ \A j \in Ids : j # i => order'[j] = order[j]
          BY <4>1, <4>3 DEF TypeInv
        <5> QED
          BY <3>5, <5>1
      <4> QED
        BY <3>1, <4>2, <4>3
    <3>7. OrdersAreBacked'
      BY <3>4, <3>5, <3>6 DEF BackedInv, OrdersAreBacked, Sent, Exits, Enters
    <3>8. Backing(run[p])'
      BY <3>2, <3>3, <3>4, <3>5 DEF Backing, Looked, Intended, OfTheDecision, Submitting, Sides
    <3>9. ASSUME NEW q \in Procs, q # p PROVE Backing(run[q])'
      BY <3>3, <3>4, <3>9 DEF BackedInv, Backing, Looked, Intended, OfTheDecision
    <3> QED
      BY <3>4, <3>7, <3>8, <3>9 DEF BackedInv
  <2>12. ASSUME NEW p \in Procs, WriteClaim(p) PROVE BackedInv'
    <3> DEFINE r == [run[p] EXCEPT !.step = "entries"]
    <3>1. /\ r \in Runs /\ r.step = "entries" /\ r.sure = run[p].sure
          /\ r.exit = run[p].exit /\ r.enter = run[p].enter
      BY DEF Runs, Steps, TypeInv
    <3>2. Backing(r)
      BY <2>12, <3>1
      DEF WriteClaim, BackedInv, Backing, Looked, Intended, OfTheDecision, Submitting, Sides
    <3> QED
      BY <2>12, <3>1, <3>2, GoesOn DEF WriteClaim
  <2>13. ASSUME Dies PROVE BackedInv'
    <3>1. UNCHANGED <<env, decision, intents, order>>
      BY <2>13 DEF Dies
    <3>2. \A p \in Procs : Backing(run[p])'
      <4> SUFFICES ASSUME NEW p \in Procs PROVE Backing(run[p])'
        OBVIOUS
      <4>1. CASE run'[p] = Idle
        BY <4>1, IdleIsBacked DEF Backing, Looked, Intended, OfTheDecision, Submitting, Sides, Idle
      <4>2. CASE run'[p] = run[p]
        BY <3>1, <4>2 DEF BackedInv, Backing, Looked, Intended, OfTheDecision
      <4> QED
        BY <2>13, <4>1, <4>2, GoneAreIdle
    <3> QED
      BY <3>1, <3>2 DEF BackedInv, OrdersAreBacked, Sent
  <2>14. ASSUME NEW i \in Ids, Fills(i) \/ Ends(i) PROVE BackedInv'
    <3>1. \A j \in Ids : order'[j].is # "none" =>
            order[j].is # "none" /\ order'[j].sure = order[j].sure
      <4>1. order[i].is = "working"
        BY <2>14 DEF Fills, Ends
      <4>2. CASE Fills(i)
        <5>1. PICK n \in 1..order[i].left :
                order' = [order EXCEPT ![i].left = @ - n,
                                       ![i].is = IF n = order[i].left THEN "filled" ELSE @]
          BY <4>2 DEF Fills
        <5> QED
          BY <4>1, <5>1 DEF TypeInv, Orders
      <4>3. CASE Ends(i)
        BY <4>1, <4>3 DEF Ends, TypeInv, Orders
      <4> QED
        BY <2>14, <4>2, <4>3
    <3>2. UNCHANGED <<env, decision, intents, run>>
      BY <2>14 DEF Fills, Ends
    <3> QED
      BY <3>1, <3>2 DEF BackedInv, OrdersAreBacked, Sent, Backing, Looked, Intended, OfTheDecision
  <2>15. ASSUME \/ \E d \in due : Sync(d)
                \/ Operator \/ Starts
                \/ UNCHANGED vars
         PROVE BackedInv'
    <3>1. UNCHANGED <<env, decision, intents, order, run>>
      BY <2>15 DEF Sync, Operator, Starts, Book, vars
    <3> QED
      BY <3>1 DEF BackedInv, OrdersAreBacked, Sent, Backing, Looked, Intended, OfTheDecision
  <2> QED
    BY <2>1, <2>2, <2>3, <2>4, <2>5, <2>6, <2>7, <2>8, <2>9, <2>10, <2>11, <2>12, <2>13, <2>14,
       <2>15 DEF Next
<1> QED
  BY <1>1, <1>2, TypeInvariant, PTL DEF Spec

(* The type invariant.                                                     *)
THEOREM TypeCorrect == Spec => []TypeOK
<1>1. TypeInv => TypeOK
  BY DEF TypeInv, TypeOK, Decisions, Runs
<1> QED
  BY <1>1, TypeInvariant, PTL

(* Every order at the venue has its intent row, was sent past the last     *)
(* look, and is one the slot's decision names while the journal takes its  *)
(* rows: for any number of runs and symbols, deaths and blind reads.       *)
THEOREM OrdersBacked == Spec => []OrdersAreBacked
  BY BackedInvariant, PTL DEF BackedInv

-----------------------------------------------------------------------------
(* No claim is too small.  While the journal takes its rows and the book   *)
(* can be read, what a decision enters is not held, so the one entry of a  *)
(* name fills at most to what its claim is written at; and between a fill  *)
(* and its claim the claim write is on its way, or the name is unsaid.     *)
Truthful == env \cap {"lost", "blind"} = {}

(* What a run carries towards an entry.                                    *)
Entering(r) ==
  /\ r.step = "write" /\ ~decision.made => \A s \in r.enter : pos[s] = 0
  /\ r.step \in {"BUY", "claim"} => r.qty = Lot
  /\ r.step = "claim" => r.sym \subseteq decision.enter

(* A name that is entered is not held before its order, and the order and  *)
(* what has filled of it are one entry.                                    *)
EnteredOnce ==
  \A s \in decision.enter :
    IF order[<<s, "BUY">>].is = "none" THEN pos[s] = 0
    ELSE pos[s] + order[<<s, "BUY">>].left <= Lot

DueIsTrue == \A d \in due : d[2] = pos[d[1]]
Covered == \A s \in Symbols \ unsaid : (\A d \in due : d[1] # s) => claim[s] >= pos[s]

ClaimInv ==
  Truthful => EnteredOnce /\ DueIsTrue /\ Covered /\ \A p \in Procs : Entering(run[p])

LEMMA RunMovedClaims ==
  ASSUME ClaimInv, NEW p \in Procs, UNCHANGED <<env, decision, order, pos, claim, due, unsaid>>,
         Truthful => Entering(run[p])', \A q \in Procs : q # p => run'[q] = run[q]
  PROVE  ClaimInv'
BY DEF ClaimInv, Truthful, Entering, EnteredOnce, DueIsTrue, Covered

LEMMA GoesWithoutEntry ==
  ASSUME TypeInv, ClaimInv, NEW p \in Procs, NEW r \in Runs, Goto(p, r),
         r.step \notin {"write", "BUY", "claim"}, UNCHANGED <<env, decision, order, pos, claim, due, unsaid>>
  PROVE  ClaimInv'
<1>1. run'[p] = r /\ \A q \in Procs : q # p => run'[q] = run[q]
  BY GoesToARun
<1>2. Entering(run[p])'
  BY <1>1 DEF Entering
<1> QED
  BY <1>1, <1>2, RunMovedClaims

LEMMA ReturnsWithoutEntry ==
  ASSUME TypeInv, ClaimInv, NEW p \in Procs, Return(p),
         UNCHANGED <<env, decision, order, pos, claim, due, unsaid>>
  PROVE  ClaimInv'
<1>1. Idle.step \notin {"write", "BUY", "claim"}
  BY DEF Idle
<1> QED
  BY <1>1, IdleIsARun, GoesWithoutEntry DEF Return

(* An entry is only of a name the decision enters, and an order is only    *)
(* out when there is a decision.                                           *)
LEMMA EntriesAreDecided ==
  ASSUME TypeInv, BackedInv, Truthful
  PROVE  /\ \A i \in Ids : order[i].is # "none" =>
                decision.made /\ (i[2] = "BUY" => i[1] \in decision.enter)
         /\ \A p \in Procs : run[p].step = "BUY" => run[p].sym \subseteq decision.enter
<1>1. "lost" \notin env
  BY DEF Truthful
<1>2. ASSUME NEW i \in Ids, order[i].is # "none"
      PROVE  decision.made /\ (i[2] = "BUY" => i[1] \in decision.enter)
  <2>1. i \in Exits(decision) \cup Enters(decision)
    BY <1>1, <1>2 DEF BackedInv, OrdersAreBacked, Sent
  <2> QED
    BY <2>1 DEF Exits, Enters, BackedInv, NotMade
<1>3. ASSUME NEW p \in Procs, run[p].step = "BUY" PROVE run[p].sym \subseteq decision.enter
  BY <1>1, <1>3 DEF BackedInv, Backing, OfTheDecision, Submitting, Sides
<1> QED
  BY <1>2, <1>3

(* An event of a name leaves its claim write on the way, or the name       *)
(* unsaid; the other names are as they were.                               *)
LEMMA HeardIsCovered ==
  ASSUME TypeInv, DueIsTrue, Covered, NEW s \in Symbols, Hears(s), UNCHANGED claim,
         \A u \in Symbols : u # s => pos'[u] = pos[u]
  PROVE  DueIsTrue' /\ Covered'
<1>1. \A d \in due : d[1] \in Symbols
  BY DEF TypeInv
<1>2. CASE awake
  <2>1. due' = {d \in due : d[1] # s} \cup {<<s, pos'[s]>>} /\ unsaid' = unsaid \ {s}
    BY <1>2 DEF Hears
  <2>2. DueIsTrue'
    BY <1>1, <2>1 DEF DueIsTrue
  <2>3. Covered'
    <3> SUFFICES ASSUME NEW u \in Symbols \ unsaid', \A d \in due' : d[1] # u
                 PROVE  claim[u] >= pos'[u]
      BY DEF Covered
    <3>1. <<s, pos'[s]>> \in due'
      BY <2>1
    <3>2. u # s
      BY <3>1
    <3>3. u \in Symbols \ unsaid /\ \A d \in due : d[1] # u
      BY <2>1, <3>2
    <3> QED
      BY <3>2, <3>3 DEF Covered
  <2> QED
    BY <2>2, <2>3
<1>3. CASE ~awake
  <2>1. due = {} /\ due' = {} /\ unsaid' = unsaid \cup {s}
    BY <1>3 DEF Hears, TypeInv
  <2> QED
    BY <2>1 DEF DueIsTrue, Covered
<1> QED
  BY <1>2, <1>3 DEF TypeInv

LEMMA FillsKeep ==
  ASSUME TypeInv, BackedInv, ClaimInv, NEW i \in Ids, Fills(i)
  PROVE  ClaimInv'
<1> SUFFICES ASSUME Truthful PROVE ClaimInv'
  BY DEF ClaimInv, Truthful, Fills
<1>1. PICK n \in 1..order[i].left :
        /\ i[2] = "SELL" => pos[i[1]] >= n
        /\ pos' = [pos EXCEPT ![i[1]] = @ + Signed(i[2], n)]
        /\ order' = [order EXCEPT ![i].left = @ - n,
                                  ![i].is = IF n = order[i].left THEN "filled" ELSE @]
  BY DEF Fills
<1>2. /\ i[1] \in Symbols /\ i[2] \in Sides /\ i = <<i[1], i[2]>>
      /\ pos[i[1]] \in Nat /\ order[i] \in Orders /\ order[i].left \in Nat /\ n \in Nat
  BY <1>1 DEF Ids, TypeInv, Orders
<1>3. /\ pos'[i[1]] = pos[i[1]] + Signed(i[2], n)
      /\ \A s \in Symbols : s # i[1] => pos'[s] = pos[s]
      /\ order'[i].left = order[i].left - n /\ order'[i].is # "none"
      /\ \A j \in Ids : j # i => order'[j] = order[j]
  <2>1. order[i].is = "working"
    BY DEF Fills
  <2> QED
    BY <1>1, <1>2, <2>1 DEF TypeInv, Orders
<1>4. /\ Hears(i[1])
      /\ UNCHANGED <<env, decision, claim, run>> /\ order[i].is = "working"
  BY DEF Fills
<1>5. decision.made /\ (i[2] = "BUY" => i[1] \in decision.enter)
  BY <1>4, EntriesAreDecided
<1>6. EnteredOnce'
  <2> SUFFICES ASSUME NEW s \in decision.enter
               PROVE  IF order'[<<s, "BUY">>].is = "none" THEN pos'[s] = 0
                      ELSE pos'[s] + order'[<<s, "BUY">>].left <= Lot
    BY <1>4 DEF EnteredOnce
  <2>1. s \in Symbols /\ <<s, "BUY">> \in Ids /\ pos[s] \in Nat /\ order[<<s, "BUY">>].left \in Nat
    BY DEF TypeInv, Decisions, Ids, Sides, Orders
  <2>2. IF order[<<s, "BUY">>].is = "none" THEN pos[s] = 0
        ELSE pos[s] + order[<<s, "BUY">>].left <= Lot
    BY DEF ClaimInv, EnteredOnce
  <2>3. CASE s # i[1]
    BY <1>2, <1>3, <2>1, <2>2, <2>3
  <2>4. CASE s = i[1] /\ i[2] = "BUY"
    BY <1>2, <1>3, <1>4, <2>1, <2>2, <2>4, SizesAssumption DEF Signed
  <2>5. CASE s = i[1] /\ i[2] = "SELL"
    <3>1. pos'[s] = pos[s] - n /\ pos[s] >= n
      BY <1>1, <1>2, <1>3, <2>1, <2>5 DEF Signed
    <3>2. <<s, "BUY">> # i
      BY <1>2, <2>5
    <3>3. order'[<<s, "BUY">>] = order[<<s, "BUY">>]
      BY <1>3, <2>1, <3>2
    <3>4. CASE order[<<s, "BUY">>].is = "none"
      BY <1>1, <1>2, <2>1, <2>2, <3>1, <3>3, <3>4
    <3>5. CASE order[<<s, "BUY">>].is # "none"
      BY <1>1, <1>2, <2>1, <2>2, <3>1, <3>3, <3>5, SizesAssumption
    <3> QED
      BY <3>4, <3>5
  <2> QED
    BY <1>2, <2>3, <2>4, <2>5 DEF Sides
<1>78. DueIsTrue' /\ Covered'
  BY <1>2, <1>3, <1>4, HeardIsCovered DEF ClaimInv
<1>9. \A p \in Procs : Entering(run[p])'
  BY <1>4, <1>5 DEF ClaimInv, Entering
<1> QED
  BY <1>6, <1>78, <1>9 DEF ClaimInv

LEMMA SendKeeps ==
  ASSUME TypeInv, BackedInv, ClaimInv, NEW p \in Procs, Send(p)
  PROVE  ClaimInv'
<1> SUFFICES ASSUME Truthful PROVE ClaimInv'
  BY DEF ClaimInv, Truthful, Send
<1>1. PICK s \in run[p].sym, ok \in BOOLEAN :
        LET i == <<s, run[p].step>>
        IN  /\ IF order[i].is = "none"
               THEN order' = [order EXCEPT ![i] =
                      [is |-> IF ok THEN "working" ELSE "refused",
                       left |-> IF ok THEN run[p].qty ELSE 0, sure |-> run[p].sure]]
               ELSE ok = (order[i].is # "refused") /\ UNCHANGED order
            /\ Goto(p, IF ok /\ run[p].step = "BUY" THEN [run[p] EXCEPT !.step = "claim"]
                       ELSE [run[p] EXCEPT !.step =
                               IF run[p].step = "SELL" THEN "exits" ELSE "entries"])
  BY DEF Send
<1> DEFINE i == <<s, run[p].step>>
           next == IF ok /\ run[p].step = "BUY" THEN "claim"
                   ELSE IF run[p].step = "SELL" THEN "exits" ELSE "entries"
           r == [run[p] EXCEPT !.step = next]
<1>2. r \in Runs /\ r.step = next /\ r.sym = run[p].sym /\ r.qty = run[p].qty
  BY DEF Runs, Steps, TypeInv
<1>3. run'[p] = r /\ \A q \in Procs : q # p => run'[q] = run[q]
  BY <1>1, <1>2, GoesToARun
<1>4. run[p].step \in Sides /\ UNCHANGED <<env, decision, pos, claim, due, unsaid>>
  BY DEF Send
<1>5. run[p].step = "BUY" => run[p].sym \subseteq decision.enter /\ run[p].qty = Lot
  BY EntriesAreDecided DEF ClaimInv, Entering
<1>6. Entering(run[p])'
  BY <1>2, <1>3, <1>4, <1>5 DEF Entering
<1>7. \A q \in Procs : q # p => Entering(run[q])'
  BY <1>3, <1>4 DEF ClaimInv, Entering
<1>8. EnteredOnce'
  <2> SUFFICES ASSUME NEW t \in decision.enter
               PROVE  IF order'[<<t, "BUY">>].is = "none" THEN pos[t] = 0
                      ELSE pos[t] + order'[<<t, "BUY">>].left <= Lot
    BY <1>4 DEF EnteredOnce
  <2>1. t \in Symbols /\ <<t, "BUY">> \in Ids /\ i \in Ids
    BY <1>4 DEF TypeInv, Decisions, Ids, Sides, Runs
  <2>2. IF order[<<t, "BUY">>].is = "none" THEN pos[t] = 0
        ELSE pos[t] + order[<<t, "BUY">>].left <= Lot
    BY DEF ClaimInv, EnteredOnce
  <2>3. CASE order'[<<t, "BUY">>] = order[<<t, "BUY">>]
    BY <2>2, <2>3
  <2>4. CASE /\ i = <<t, "BUY">> /\ order[i].is = "none"
             /\ order'[i] = [is |-> IF ok THEN "working" ELSE "refused",
                             left |-> IF ok THEN run[p].qty ELSE 0, sure |-> run[p].sure]
    <3>1. order'[i].is # "none" /\ order'[i].left \in {0, run[p].qty} /\ run[p].step = "BUY"
      BY <2>4
    <3>2. pos[t] = 0
      BY <2>2, <2>4
    <3> QED
      BY <1>5, <2>4, <3>1, <3>2, SizesAssumption
  <2>5. \/ order'[<<t, "BUY">>] = order[<<t, "BUY">>]
        \/ /\ i = <<t, "BUY">> /\ order[i].is = "none"
           /\ order'[i] = [is |-> IF ok THEN "working" ELSE "refused",
                           left |-> IF ok THEN run[p].qty ELSE 0, sure |-> run[p].sure]
    BY <1>1, <2>1 DEF TypeInv
  <2> QED
    BY <2>3, <2>4, <2>5
<1> QED
  BY <1>4, <1>6, <1>7, <1>8 DEF ClaimInv, DueIsTrue, Covered

LEMMA StepClaims ==
  ASSUME TypeInv, BackedInv, ClaimInv, [Next]_vars
  PROVE  ClaimInv'
<1>1. ASSUME NEW p \in Procs, ReadState(p) PROVE ClaimInv'
  <2>1. [Idle EXCEPT !.step = "check", !.st = lifecycle] \in Runs
    BY IdleIsARun DEF Runs, Steps, TypeInv
  <2>2. [Idle EXCEPT !.step = "check", !.st = lifecycle].step = "check"
    BY DEF Idle
  <2> QED
    BY <1>1, <2>1, <2>2, GoesWithoutEntry DEF ReadState, Book
<1>2. ASSUME NEW p \in Procs, Check(p) PROVE ClaimInv'
  <2>1. [run[p] EXCEPT !.step = "decide"] \in Runs /\ [run[p] EXCEPT !.step = "decide"].step = "decide"
    BY DEF Runs, Steps, TypeInv
  <2> QED
    BY <1>2, <2>1, GoesWithoutEntry, ReturnsWithoutEntry DEF Check, Book
<1>3. ASSUME NEW p \in Procs, Declines(p) \/ EntriesDone(p) PROVE ClaimInv'
  BY <1>3, ReturnsWithoutEntry DEF Declines, EntriesDone, Book
<1>4. ASSUME NEW p \in Procs, Decide(p) PROVE ClaimInv'
  <2>1. PICK target \in SUBSET Symbols, mine \in ReadsHeld :
          Goto(p, [run[p] EXCEPT !.step = "write", !.exit = mine \ target,
                                 !.enter = target \ mine])
    BY <1>4 DEF Decide
  <2> DEFINE r == [run[p] EXCEPT !.step = "write", !.exit = mine \ target,
                                 !.enter = target \ mine]
  <2>2. mine \subseteq Symbols
    BY DEF ReadsHeld, Held
  <2>3. r \in Runs /\ r.step = "write" /\ r.enter = target \ mine
    BY <2>2 DEF Runs, Steps, TypeInv
  <2>4. run'[p] = r /\ \A q \in Procs : q # p => run'[q] = run[q]
    BY <2>1, <2>3, GoesToARun
  <2>5. UNCHANGED <<env, decision, order, pos, claim, due, unsaid>>
    BY <1>4 DEF Decide, Book
  <2>6. Truthful => Entering(run[p])'
    <3>1. Truthful => mine = {s \in Symbols : pos[s] > 0}
      BY DEF Truthful, ReadsHeld, Held
    <3>2. \A s \in Symbols : pos[s] \in Nat
      BY DEF TypeInv
    <3> QED
      BY <2>3, <2>4, <2>5, <3>1, <3>2 DEF Entering
  <2> QED
    BY <2>4, <2>5, <2>6, RunMovedClaims
<1>5. ASSUME NEW p \in Procs, WriteDecision(p) PROVE ClaimInv'
  <2> DEFINE r == [run[p] EXCEPT !.step = "recheck"]
  <2>1. r \in Runs /\ r.step = "recheck" /\ run[p].step = "write"
    BY <1>5 DEF Runs, Steps, TypeInv, WriteDecision
  <2>2. UNCHANGED <<env, order, pos, claim, due, unsaid>>
    BY <1>5 DEF WriteDecision, Book
  <2>3. CASE Return(p) /\ UNCHANGED decision
    BY <2>2, <2>3, ReturnsWithoutEntry
  <2>4. CASE Goto(p, r) /\ UNCHANGED decision
    BY <2>1, <2>2, <2>4, GoesWithoutEntry
  <2>5. CASE ~decision.made /\ decision' = Row(p) /\ Goto(p, r)
    <3> SUFFICES ASSUME Truthful PROVE ClaimInv'
      BY <2>2 DEF ClaimInv, Truthful
    <3>1. run'[p] = r /\ \A q \in Procs : q # p => run'[q] = run[q]
      BY <2>1, <2>5, GoesToARun
    <3>2. decision'.made /\ decision'.enter = run[p].enter /\ run[p].enter \subseteq Symbols
      BY <2>5 DEF Row, TypeInv, Runs
    <3>3. \A s \in run[p].enter : pos[s] = 0
      BY <2>1, <2>5 DEF ClaimInv, Entering
    <3>4. \A i \in Ids : order[i].is = "none"
      BY <2>5, EntriesAreDecided
    <3>5. EnteredOnce'
      BY <2>2, <3>2, <3>3, <3>4 DEF EnteredOnce, Ids, Sides
    <3>6. ASSUME NEW q \in Procs, q # p PROVE Entering(run[q])'
      <4>1. "lost" \notin env
        BY DEF Truthful
      <4>2. run[q].step # "claim"
        BY <2>5, <4>1 DEF BackedInv, Backing, OfTheDecision, Submitting
      <4> QED
        BY <2>2, <3>1, <3>2, <3>6, <4>2 DEF ClaimInv, Entering
    <3>7. Entering(run[p])'
      BY <2>1, <3>1 DEF Entering
    <3> QED
      BY <2>2, <3>5, <3>6, <3>7 DEF ClaimInv, DueIsTrue, Covered
  <2> QED
    BY <1>5, <2>3, <2>4, <2>5 DEF WriteDecision
<1>6. ASSUME NEW p \in Procs, Recheck(p) PROVE ClaimInv'
  <2>1. /\ [run[p] EXCEPT !.step = "exits", !.sure = TRUE] \in Runs
        /\ [run[p] EXCEPT !.step = "exits", !.sure = TRUE].step = "exits"
    BY DEF Runs, Steps, TypeInv
  <2> QED
    BY <1>6, <2>1, GoesWithoutEntry, ReturnsWithoutEntry DEF Recheck, Book
<1>7. ASSUME NEW p \in Procs, IntendExit(p) PROVE ClaimInv'
  <2>1. PICK s \in run[p].exit :
          Intend(p, s, "SELL", IF pos[s] > 0 THEN pos[s] ELSE 0, [run[p] EXCEPT !.exit = @ \ {s}])
    BY <1>7 DEF IntendExit
  <2> DEFINE rest == [run[p] EXCEPT !.exit = @ \ {s}]
             qty == IF pos[s] > 0 THEN pos[s] ELSE 0
  <2>2. s \in Symbols /\ rest \in Runs /\ rest.step = "exits" /\ qty \in Nat
    BY <1>7 DEF IntendExit, Runs, TypeInv
  <2> HIDE DEF rest, qty
  <2>3. /\ [rest EXCEPT !.step = "SELL", !.sym = {s}, !.qty = qty] \in Runs
        /\ [rest EXCEPT !.step = "SELL", !.sym = {s}, !.qty = qty].step = "SELL"
    BY <2>2 DEF Runs, Steps, Sides
  <2>4. Goto(p, rest) \/ Goto(p, [rest EXCEPT !.step = "SELL", !.sym = {s}, !.qty = qty])
    BY <2>1 DEF Intend, rest, qty
  <2> QED
    BY <1>7, <2>2, <2>3, <2>4, GoesWithoutEntry DEF IntendExit, Book
<1>8. ASSUME NEW p \in Procs, ExitsDone(p) PROVE ClaimInv'
  <2>1. [run[p] EXCEPT !.step = "entries"] \in Runs /\ [run[p] EXCEPT !.step = "entries"].step = "entries"
    BY DEF Runs, Steps, TypeInv
  <2> QED
    BY <1>8, <2>1, GoesWithoutEntry, ReturnsWithoutEntry DEF ExitsDone, Book
<1>9. ASSUME NEW p \in Procs, IntendEntry(p) PROVE ClaimInv'
  <2>1. PICK s \in run[p].enter, qty \in {0, Lot} :
          Intend(p, s, "BUY", qty, [run[p] EXCEPT !.enter = @ \ {s}])
    BY <1>9 DEF IntendEntry
  <2> DEFINE rest == [run[p] EXCEPT !.enter = @ \ {s}]
             next == [rest EXCEPT !.step = "BUY", !.sym = {s}, !.qty = qty]
  <2>2. s \in Symbols /\ rest \in Runs /\ rest.step = "entries" /\ qty \in Nat
    BY <1>9, SizesAssumption DEF IntendEntry, Runs, TypeInv
  <2>3. next \in Runs /\ next.step = "BUY" /\ next.qty = qty
    BY <2>2 DEF Runs, Steps, Sides
  <2>4. UNCHANGED <<env, decision, order, pos, claim, due, unsaid>>
    BY <1>9 DEF IntendEntry, Book
  <2>5. CASE Goto(p, rest)
    BY <2>2, <2>4, <2>5, GoesWithoutEntry
  <2>6. CASE qty > 0 /\ Goto(p, next)
    <3>1. run'[p] = next /\ \A q \in Procs : q # p => run'[q] = run[q]
      BY <2>3, <2>6, GoesToARun
    <3>2. qty = Lot
      BY <2>6
    <3>3. Entering(run[p])'
      BY <2>3, <3>1, <3>2 DEF Entering
    <3> QED
      BY <2>4, <3>1, <3>3, RunMovedClaims
  <2> QED
    BY <2>1, <2>5, <2>6 DEF Intend
<1>10. ASSUME NEW p \in Procs, Send(p) PROVE ClaimInv'
  BY <1>10, SendKeeps
<1>11. ASSUME NEW p \in Procs, WriteClaim(p) PROVE ClaimInv'
  <2> SUFFICES ASSUME Truthful PROVE ClaimInv'
    BY <1>11 DEF ClaimInv, Truthful, WriteClaim
  <2> DEFINE r == [run[p] EXCEPT !.step = "entries"]
  <2>1. r \in Runs /\ r.step = "entries"
    BY DEF Runs, Steps, TypeInv
  <2>2. run'[p] = r /\ \A q \in Procs : q # p => run'[q] = run[q]
    BY <1>11, <2>1, GoesToARun DEF WriteClaim
  <2>3. /\ claim' = [s \in Symbols |-> IF s \in run[p].sym THEN run[p].qty ELSE claim[s]]
        /\ UNCHANGED <<env, decision, order, pos, due, unsaid>> /\ run[p].step = "claim"
    BY <1>11 DEF WriteClaim, Truthful
  <2>4. run[p].sym \subseteq decision.enter /\ run[p].qty = Lot
    BY <2>3 DEF ClaimInv, Entering
  <2>5. \A s \in decision.enter : pos[s] <= Lot
    <3> SUFFICES ASSUME NEW s \in decision.enter PROVE pos[s] <= Lot
      OBVIOUS
    <3>1. s \in Symbols /\ pos[s] \in Nat /\ order[<<s, "BUY">>].left \in Nat
      BY DEF TypeInv, Decisions, Ids, Sides, Orders
    <3> QED
      BY <3>1, SizesAssumption DEF ClaimInv, EnteredOnce
  <2>6. Covered'
    <3> SUFFICES ASSUME NEW s \in Symbols \ unsaid, \A d \in due : d[1] # s
                 PROVE  claim'[s] >= pos[s]
      BY <2>3 DEF Covered
    <3>1. pos[s] \in Nat /\ claim[s] >= pos[s]
      BY DEF ClaimInv, Covered, TypeInv
    <3>2. CASE s \in run[p].sym
      BY <2>3, <2>4, <2>5, <3>1, <3>2, SizesAssumption
    <3>3. CASE s \notin run[p].sym
      BY <2>3, <3>1, <3>3
    <3> QED
      BY <3>2, <3>3
  <2>7. Entering(run[p])'
    BY <2>1, <2>2 DEF Entering
  <2> QED
    BY <2>2, <2>3, <2>6, <2>7 DEF ClaimInv, EnteredOnce, DueIsTrue, Entering
<1>12. ASSUME NEW i \in Ids, Fills(i) PROVE ClaimInv'
  BY <1>12, FillsKeep
<1>13. ASSUME NEW i \in Ids, Ends(i) PROVE ClaimInv'
  <2> SUFFICES ASSUME Truthful PROVE ClaimInv'
    BY <1>13 DEF ClaimInv, Truthful, Ends
  <2>1. /\ order' = [order EXCEPT ![i].left = 0, ![i].is = "refused"] /\ i[1] \in Symbols
        /\ UNCHANGED <<env, decision, pos, claim, run>> /\ order[i].is = "working"
        /\ Hears(i[1]) \/ UNCHANGED <<due, unsaid>>
    BY <1>13 DEF Ends, Ids
  <2>2. \A j \in Ids : \/ order'[j] = order[j]
                       \/ order'[j].is # "none" /\ order'[j].left = 0 /\ order[j].is # "none"
    BY <2>1 DEF TypeInv, Orders
  <2>3. EnteredOnce'
    <3> SUFFICES ASSUME NEW s \in decision.enter
                 PROVE  IF order'[<<s, "BUY">>].is = "none" THEN pos[s] = 0
                        ELSE pos[s] + order'[<<s, "BUY">>].left <= Lot
      BY <2>1 DEF EnteredOnce
    <3>1. s \in Symbols /\ <<s, "BUY">> \in Ids /\ pos[s] \in Nat /\ order[<<s, "BUY">>].left \in Nat
      BY DEF TypeInv, Decisions, Ids, Sides, Orders
    <3> QED
      BY <2>2, <3>1, SizesAssumption DEF ClaimInv, EnteredOnce
  <2>4. DueIsTrue' /\ Covered'
    <3>1. CASE Hears(i[1])
      BY <2>1, <3>1, HeardIsCovered DEF ClaimInv
    <3>2. CASE UNCHANGED <<due, unsaid>>
      BY <2>1, <3>2 DEF ClaimInv, DueIsTrue, Covered
    <3> QED
      BY <2>1, <3>1, <3>2
  <2> QED
    BY <2>1, <2>3, <2>4 DEF ClaimInv, Entering
<1>14. ASSUME NEW d \in due, Sync(d) PROVE ClaimInv'
  <2> SUFFICES ASSUME Truthful PROVE ClaimInv'
    BY <1>14 DEF ClaimInv, Truthful, Sync
  <2>1. /\ due' = due \ {d} /\ claim' = [claim EXCEPT ![d[1]] = d[2]]
        /\ UNCHANGED <<env, decision, order, pos, unsaid, run>>
    BY <1>14 DEF Sync, Truthful
  <2>2. d[1] \in Symbols /\ d[2] = pos[d[1]] /\ pos[d[1]] \in Nat
    BY DEF ClaimInv, DueIsTrue, TypeInv
  <2>3. Covered'
    <3> SUFFICES ASSUME NEW s \in Symbols \ unsaid, \A e \in due' : e[1] # s
                 PROVE  claim'[s] >= pos[s]
      BY <2>1 DEF Covered
    <3>1. CASE s = d[1]
      BY <2>1, <2>2, <3>1 DEF TypeInv
    <3>2. CASE s # d[1]
      BY <2>1, <3>2 DEF ClaimInv, Covered, TypeInv
    <3> QED
      BY <3>1, <3>2
  <2> QED
    BY <2>1, <2>3 DEF ClaimInv, EnteredOnce, DueIsTrue, Entering
<1>15. CASE Operator \/ Starts \/ UNCHANGED vars
  <2>1. UNCHANGED <<env, decision, order, pos, claim, due, unsaid, run>>
    BY <1>15 DEF Operator, Starts, Book, vars
  <2> QED
    BY <2>1 DEF ClaimInv, Truthful, Entering, EnteredOnce, DueIsTrue, Covered
<1>16. ASSUME Dies PROVE ClaimInv'
  <2>1. UNCHANGED <<env, decision, order, pos, claim>>
    BY <1>16 DEF Dies
  <2>2. \A p \in Procs : Entering(run[p]) => Entering(run[p])'
    <3> SUFFICES ASSUME NEW p \in Procs, Entering(run[p]) PROVE Entering(run[p])'
      OBVIOUS
    <3>1. CASE run'[p] = Idle
      BY <3>1 DEF Entering, Idle
    <3>2. CASE run'[p] = run[p]
      BY <2>1, <3>2 DEF Entering
    <3> QED
      BY <1>16, <3>1, <3>2, GoneAreIdle
  <2>3. DueIsTrue /\ Covered => DueIsTrue' /\ Covered'
    <3>1. CASE UNCHANGED <<due, unsaid>>
      BY <2>1, <3>1 DEF DueIsTrue, Covered
    <3>2. CASE due' = {} /\ unsaid' = unsaid \cup {d[1] : d \in due}
      <4>1. DueIsTrue'
        BY <3>2 DEF DueIsTrue
      <4>2. \A s \in Symbols \ unsaid' : s \notin unsaid /\ \A d \in due : d[1] # s
        BY <3>2
      <4> QED
        BY <2>1, <4>1, <4>2 DEF Covered
    <3> QED
      BY <1>16, <3>1, <3>2 DEF Dies
  <2> QED
    BY <2>1, <2>2, <2>3 DEF ClaimInv, Truthful, EnteredOnce
<1> QED
  BY <1>1, <1>2, <1>3, <1>4, <1>5, <1>6, <1>7, <1>8, <1>9, <1>10, <1>11, <1>12, <1>13, <1>14,
     <1>15, <1>16 DEF Next

(* A lane at rest claims no less than it holds, however its fills,         *)
(* refusals and the claim of an acceptance fall in line (_write_claim,     *)
(* _record_terminal): for any number of symbols, runs and claim writes in  *)
(* flight, and through deaths of runs and of the adapter's process, but    *)
(* for the names whose last event that death, or its down time, swallowed. *)
THEOREM ClaimsCover == Spec => []NeverUnderClaimed
<1>1. Init => ClaimInv
  <2> SUFFICES ASSUME Init PROVE ClaimInv
    OBVIOUS
  <2>1. \A p \in Procs : Entering(run[p])
    BY DEF Init, Entering, Idle
  <2>2. \A s \in Symbols : pos[s] \in Nat /\ claim[s] = pos[s]
    BY SizesAssumption DEF Init
  <2> QED
    BY <2>1, <2>2 DEF Init, ClaimInv, EnteredOnce, DueIsTrue, Covered, NotMade
<1>2. TypeInv /\ BackedInv /\ ClaimInv /\ [Next]_vars => ClaimInv'
  BY StepClaims
<1>3. ClaimInv => NeverUnderClaimed
  BY DEF ClaimInv, Truthful, Covered, NeverUnderClaimed, AtRest
<1> QED
  BY <1>1, <1>2, <1>3, TypeInvariant, BackedInvariant, PTL DEF Spec

-----------------------------------------------------------------------------
(* The short lane (ShortLane).  A name has at most one order out: a sale   *)
(* of a lot of what is not short, or a cover of all that is.               *)
ShortOrders == [side : {"SELL", "BUY"}, tif : {"DAY", "AT_THE_OPEN"}, left : Nat, of : Nat]
Kinds == {"", "enter", "exit"}
LegStates == {"none", "live", "replaced", "FILLED", "PARTIALLY_FILLED", "REJECTED", "CANCELED",
              "EXPIRED"}
Owed == {s \in ShortNames : Short!ReplacementIsOwed(leg[s])}

ShortTypes ==
  /\ clock \in {"pre", "rth", "shut"}
  /\ short \in [ShortNames -> Int] /\ reserved \in [ShortNames -> Kinds]
  /\ leg \in [ShortNames -> LegStates] /\ live \in [ShortNames -> Seq(ShortOrders)]
  /\ intent \in [cover : SUBSET ShortNames, enter : SUBSET ShortNames, replace : SUBSET ShortNames]
  /\ atOpen \subseteq ShortNames

(* Only a name that is held has a trail, and a lane that is down has none. *)
TrailsAreHeld == trail \subseteq shorts /\ (~up => trail = {})

(* What is out for a name, if anything is.                                 *)
OrderOf(s) == live[s][1]

OneOrder ==
  \A s \in ShortNames :
    /\ Len(live[s]) <= 1
    /\ live[s] # << >> =>
         \/ OrderOf(s).side = "SELL" /\ OrderOf(s).left = ShortLot /\ short[s] = 0
         \/ /\ OrderOf(s).side = "BUY" /\ OrderOf(s).tif = "DAY"
            /\ OrderOf(s).left = short[s] /\ short[s] > 0

(* A running lane's reservations are its orders, its book what is short.   *)
LaneKnows ==
  up => shorts = Short!Short /\ reserved = Short!Reconciled

(* What the lane means to sell it is not short and has nothing out for,    *)
(* and a leg it still owes was sold to nobody.                             *)
MeansToSell ==
  /\ \A s \in intent.enter \cup Owed : short[s] = 0 /\ live[s] = << >>
  /\ intent.replace \subseteq Owed
  /\ intent.replace # {} => clock = "rth" /\ intent.enter = {}
  /\ clock = "shut" => intent = Short!Nothing /\ Short!Quiet

(* What was short at the open has no leg in this session's auction.        *)
SpentAtOpen ==
  /\ clock = "pre" => atOpen = Short!Short
  /\ \A s \in atOpen : leg[s] = "none" /\ (live[s] # << >> => OrderOf(s).tif = "DAY")

(* The slots: what is short, rests, is meant to be sold or is owed.        *)
Spent == Short!Short \cup Short!Selling \cup intent.enter \cup Owed
SlotsInv ==
  "cancels" \notin sEnv => /\ Cardinality(Spent) <= NSlots
                           /\ clock = "pre" => Owed = {}

PlainInv ==
  /\ ShortTypes /\ OneOrder /\ LaneKnows /\ MeansToSell /\ SpentAtOpen /\ SlotsInv
  /\ \A s \in ShortNames : short[s] \in 0..ShortLot

ShortInv == TrailsAreHeld /\ (Short!Plain => PlainInv)

LEMMA TrailsStep ==
  ASSUME TrailsAreHeld, [Short!Next]_shortVars
  PROVE  TrailsAreHeld'
<1> USE DEF TrailsAreHeld
<1>1. ASSUME NEW s \in ShortNames, NEW i \in DOMAIN live[s], Short!Fills(s, i) PROVE TrailsAreHeld'
  BY <1>1 DEF Short!Fills, Short!OnOrderFilled, Short!Completes, Short!TrailAfter
<1>2. ASSUME NEW s \in ShortNames, Short!ProtectiveClose(s) PROVE TrailsAreHeld'
  BY <1>2 DEF Short!ProtectiveClose
<1>3. CASE Short!Stop
  BY <1>3 DEF Short!Stop
<1>4. CASE Short!OnStart
  BY <1>4 DEF Short!OnStart
<1>5. ASSUME \/ Short!Cross \/ Short!Close \/ Short!NextDay \/ Short!OnBar \/ Short!AlertRefuses
             \/ Short!SessionIntent \/ Short!GiveUp
             \/ \E s \in ShortNames : Short!SendCover(s) \/ Short!SendOpening(s) \/ Short!SendReplacement(s)
             \/ \E s \in ShortNames : \E i \in DOMAIN live[s] : Short!Ends(s, i)
             \/ UNCHANGED shortVars
      PROVE  TrailsAreHeld'
  <2>1. UNCHANGED <<trail, shorts, up>>
    BY <1>5 DEF Short!Cross, Short!Close, Short!NextDay, Short!OnBar, Short!AlertRefuses,
                Short!SessionIntent, Short!GiveUp, Short!SendCover, Short!SendOpening,
                Short!SendReplacement, Short!Sent, Short!Ends, shortVars
  <2> QED
    BY <2>1
<1> QED
  BY <1>1, <1>2, <1>3, <1>4, <1>5 DEF Short!Next, Short!VenueActs

(* The slots are finite sets of names.                                     *)
LEMMA SpentIsCounted ==
  ASSUME Short!SizesAssumption, ShortTypes, NEW S \in SUBSET Spent
  PROVE  /\ IsFiniteSet(S) /\ IsFiniteSet(Spent) /\ Cardinality(S) <= Cardinality(Spent)
         /\ Cardinality(S) \in Nat /\ Cardinality(Spent) \in Nat
<1>1. Spent \in SUBSET ShortNames
  BY DEF Spent, ShortTypes, Short!Short, Short!Selling, Owed
<1>2. IsFiniteSet(ShortNames)
  <2>1. Short!IsFiniteSet(ShortNames)
    BY DEF Short!SizesAssumption
  <2>2. Short!IsFiniteSet(ShortNames) = IsFiniteSet(ShortNames)
    BY DEF Short!IsFiniteSet, IsFiniteSet
  <2> QED
    BY <2>1, <2>2
<1>3. IsFiniteSet(Spent)
  BY <1>1, <1>2, FS_Subset
<1>4. IsFiniteSet(S) /\ Cardinality(S) <= Cardinality(Spent)
  BY <1>3, FS_Subset
<1> QED
  BY <1>3, <1>4, FS_CardinalityType

(* A name's only order, and what its list is without it.                   *)
LEMMA OnlyOrder ==
  ASSUME ShortTypes, OneOrder, NEW s \in ShortNames, NEW i \in DOMAIN live[s]
  PROVE  /\ i = 1 /\ live[s] # << >> /\ OrderOf(s) \in ShortOrders
         /\ Short!Without(live[s], i) = << >>
<1>1. live[s] \in Seq(ShortOrders) /\ Len(live[s]) <= 1
  BY DEF ShortTypes, OneOrder
<1>2. i = 1 /\ Len(live[s]) = 1 /\ OrderOf(s) \in ShortOrders
  <2> DEFINE q == live[s]
  <2>1. q \in Seq(ShortOrders) /\ Len(q) <= 1 /\ i \in 1..Len(q)
    BY <1>1
  <2> HIDE DEF q
  <2>2. Len(q) \in Nat
    BY <2>1
  <2>3. Len(q) = 1 /\ i = 1
    <3>1. \A n \in Nat : n <= 1 => \A k \in 1..n : n = 1 /\ k = 1
      OBVIOUS
    <3> QED
      BY <2>1, <2>2, <3>1
  <2>4. q[1] \in ShortOrders
    BY <2>1, <2>3
  <2> QED
    BY <2>3, <2>4 DEF q, OrderOf
<1>3. SubSeq(live[s], 1, 0) = << >> /\ SubSeq(live[s], 2, 1) = << >>
  BY <1>1, <1>2
<1>4. Short!Without(live[s], i) = << >>
  BY <1>2, <1>3 DEF Short!Without
<1> QED
  BY <1>2, <1>4

(* An order is sent of a name that has none.                               *)
LEMMA SentAlone ==
  ASSUME ShortTypes, OneOrder, LaneKnows, NEW s \in ShortNames,
         NEW kind, NEW side, NEW tif, NEW qty, Short!Sent(s, kind, side, tif, qty)
  PROVE  /\ live[s] = << >> /\ up /\ shorts = Short!Short
         /\ live' = [live EXCEPT ![s] = <<[side |-> side, tif |-> tif, left |-> qty, of |-> qty]>>]
<1>1. up /\ reserved[s] = ""
  BY DEF Short!Sent, Short!MayReserve
<1>2. reserved = Short!Reconciled /\ shorts = Short!Short
  BY <1>1 DEF LaneKnows
<1>3. live[s] = << >>
  BY <1>1, <1>2 DEF Short!Reconciled
<1>4. Append(live[s], [side |-> side, tif |-> tif, left |-> qty, of |-> qty])
        = <<[side |-> side, tif |-> tif, left |-> qty, of |-> qty]>>
  BY <1>3
<1> QED
  BY <1>1, <1>2, <1>3, <1>4 DEF Short!Sent

(* No step that adds no name to the slots takes more of them.              *)
LEMMA SlotsAreFreed ==
  ASSUME Short!SizesAssumption, ShortTypes, SlotsInv, Spent' \subseteq Spent, sEnv' = sEnv,
         "cancels" \notin sEnv /\ clock' = "pre" => Owed' = {}
  PROVE  SlotsInv'
<1>1. Cardinality(Spent') <= Cardinality(Spent) /\ Cardinality(Spent') \in Nat
      /\ Cardinality(Spent) \in Nat
  BY SpentIsCounted
<1> QED
  BY <1>1 DEF SlotsInv, Short!SizesAssumption

(* The lane is never long, and never short of more than a lot.             *)
LEMMA NoLongs ==
  ASSUME Short!SizesAssumption, PlainInv, NEW s \in ShortNames
  PROVE  short[s] \in Nat /\ short[s] <= ShortLot /\ ShortLot \in Nat \ {0}
<1>1. ShortLot \in Nat \ {0}
  BY DEF Short!SizesAssumption
<1>2. short[s] \in 0..ShortLot
  BY DEF PlainInv
<1> QED
  BY <1>1, <1>2

(* The clock, the bars, what is refused and what is given up.              *)
LEMMA ClockSteps ==
  ASSUME Short!SizesAssumption, PlainInv,
         \/ Short!Cross \/ Short!Close \/ Short!NextDay \/ Short!OnBar \/ Short!AlertRefuses
         \/ Short!GiveUp \/ UNCHANGED shortVars
  PROVE  PlainInv'
<1> USE DEF PlainInv
<1>1. /\ UNCHANGED <<sEnv, up, shorts, reserved, short, live>>
      /\ UNCHANGED <<intent, leg, atOpen, clock>> \/ Short!Cross \/ Short!Close \/ Short!NextDay
         \/ Short!GiveUp
  BY DEF Short!Cross, Short!Close, Short!NextDay, Short!OnBar, Short!AlertRefuses, Short!GiveUp,
         shortVars
<1>2. /\ intent' = intent \/ intent' = Short!Nothing
      /\ leg' = leg \/ leg' = Short!NoLeg
      /\ Short!Nothing = [cover |-> {}, enter |-> {}, replace |-> {}]
  BY <1>1 DEF Short!Cross, Short!Close, Short!NextDay, Short!GiveUp, Short!Nothing
<1>3. Short!Short' = Short!Short /\ Short!Selling' = Short!Selling /\ Short!Reconciled' = Short!Reconciled
      /\ Short!Quiet' = Short!Quiet
  BY <1>1 DEF Short!Short, Short!Selling, Short!Reconciled, Short!Quiet
<1>4. Owed' \subseteq Owed /\ intent'.enter \subseteq intent.enter /\ intent'.replace \subseteq intent.replace
      /\ (leg' = leg => Owed' = Owed)
  BY <1>2 DEF Owed, Short!ReplacementIsOwed, Short!NoLeg
<1>5. ShortTypes'
  BY <1>1, <1>2 DEF ShortTypes, Short!NoLeg, LegStates, Short!Cross, Short!Close, Short!NextDay,
                    Short!Short, Short!GiveUp
<1>6. OneOrder' /\ LaneKnows' /\ \A s \in ShortNames : short'[s] \in 0..ShortLot
  BY <1>1, <1>3 DEF OneOrder, OrderOf, LaneKnows
<1>7. CASE UNCHANGED <<intent, leg, atOpen, clock>>
  BY <1>1, <1>3, <1>4, <1>5, <1>6, <1>7
     DEF MeansToSell, SpentAtOpen, SlotsInv, Spent, OrderOf
<1>8. CASE Short!Cross \/ Short!Close \/ Short!NextDay \/ Short!GiveUp
  <2>1. MeansToSell'
    BY <1>1, <1>2, <1>3, <1>4, <1>8
       DEF MeansToSell, Short!Cross, Short!Close, Short!NextDay, Short!GiveUp
  <2>2. SpentAtOpen'
    <3>1. CASE Short!NextDay
      <4>1. clock = "shut" /\ atOpen' = Short!Short /\ leg' = [s \in ShortNames |-> "none"]
        BY <3>1 DEF Short!NextDay, Short!NoLeg
      <4>2. \A s \in ShortNames : live'[s] = << >>
        BY <1>1, <4>1 DEF MeansToSell, Short!Quiet
      <4> QED
        BY <1>3, <4>1, <4>2 DEF SpentAtOpen, Short!Short
    <3>2. CASE ~Short!NextDay
      <4>1. atOpen' = atOpen /\ leg' = leg /\ (clock' = "pre" => clock = "pre")
        BY <1>8, <3>2 DEF Short!Cross, Short!Close, Short!GiveUp
      <4> QED
        BY <1>1, <1>3, <4>1 DEF SpentAtOpen, OrderOf
    <3> QED
      BY <3>1, <3>2
  <2>3. Spent' \subseteq Spent
    BY <1>3, <1>4 DEF Spent
  <2>4. "cancels" \notin sEnv /\ clock' = "pre" => Owed' = {}
    BY <1>1, <1>4, <1>8 DEF SlotsInv, Short!Cross, Short!Close, Short!NextDay, Short!GiveUp, Owed,
       Short!NoLeg, Short!ReplacementIsOwed
  <2>5. SlotsInv'
    BY <1>1, <2>3, <2>4, SlotsAreFreed
  <2> QED
    BY <1>5, <1>6, <2>1, <2>2, <2>5
<1> QED
  BY <1>1, <1>7, <1>8

LEMMA FewInAUnion ==
  ASSUME NEW S, NEW T, IsFiniteSet(S), IsFiniteSet(T)
  PROVE  /\ IsFiniteSet(S \cup T) /\ Cardinality(S \cup T) \in Nat
         /\ Cardinality(S \cup T) <= Cardinality(S) + Cardinality(T)
<1>1. /\ IsFiniteSet(S \cup T)
      /\ Cardinality(S \cup T) = Cardinality(S) + Cardinality(T) - Cardinality(S \cap T)
  BY FS_Union
<1>2. IsFiniteSet(S \cap T)
  BY FS_Intersection
<1>3. /\ Cardinality(S) \in Nat /\ Cardinality(T) \in Nat /\ Cardinality(S \cup T) \in Nat
      /\ Cardinality(S \cap T) \in Nat
  BY <1>1, <1>2, FS_CardinalityType
<1> QED
  BY <1>1, <1>3

(* What the lane decides to sell it is not short and has nothing out for,  *)
(* and there is room for it.                                               *)
LEMMA IntentStep ==
  ASSUME Short!SizesAssumption, PlainInv, Short!SessionIntent
  PROVE  PlainInv'
<1>a. \A x \in ShortNames : short[x] \in Nat
  BY NoLongs
<1>b. ShortLot \in Nat \ {0}
  BY DEF Short!SizesAssumption
<1> USE DEF PlainInv
<1>1. /\ up /\ intent = Short!Nothing
      /\ UNCHANGED <<sEnv, up, shorts, reserved, short, live, leg, atOpen, clock>>
  BY DEF Short!SessionIntent
<1>2. clock # "shut"
  BY DEF Short!SessionIntent, Short!SlotsNow
<1>3. shorts = Short!Short /\ reserved = Short!Reconciled
  BY <1>1 DEF LaneKnows
<1>4. PICK rules \in Short!Covers, gone \in Short!Departures(shorts) :
        \E enter \in IF clock = "pre" THEN Short!Entries(shorts, rules \cup gone) ELSE {{}} :
          intent' = [cover   |-> rules \cup gone, enter |-> enter,
                     replace |-> IF clock = "pre" THEN {} ELSE Owed]
  BY DEF Short!SessionIntent, Owed
<1> DEFINE enter == intent'.enter
<1>0. /\ enter \in IF clock = "pre" THEN Short!Entries(shorts, rules \cup gone) ELSE {{}}
      /\ intent' = [cover   |-> rules \cup gone, enter |-> enter,
                    replace |-> IF clock = "pre" THEN {} ELSE Owed]
  BY <1>4
<1> HIDE DEF enter
<1>5. /\ rules \cup gone \subseteq ShortNames
      /\ enter \subseteq ShortNames \ (Short!Short \cup Short!Reserved)
      /\ enter # {} => clock = "pre" /\ Cardinality(enter) <= Short!Room(shorts)
  <2>1. rules \cup gone \subseteq shorts
    BY DEF Short!Covers, Short!Departures
  <2>2. Short!Cardinality(enter) = Cardinality(enter)
    BY DEF Short!Cardinality, Cardinality
  <2> QED
    BY <1>0, <1>3, <2>1, <2>2 DEF Short!Entries, Short!Short
<1>6. Short!Short' = Short!Short /\ Short!Selling' = Short!Selling /\ Short!Reconciled' = Short!Reconciled
      /\ Owed' = Owed
  BY <1>1 DEF Short!Short, Short!Selling, Short!Reconciled, Owed
<1>7. ShortTypes'
  BY <1>1, <1>0, <1>5 DEF ShortTypes, Owed
<1>8. OneOrder' /\ LaneKnows' /\ SpentAtOpen' /\ \A s \in ShortNames : short'[s] \in 0..ShortLot
  BY <1>1, <1>6 DEF OneOrder, OrderOf, LaneKnows, SpentAtOpen
<1>9. MeansToSell'
  <2>1. ASSUME NEW s \in enter PROVE short[s] = 0 /\ live[s] = << >>
    <3>1. s \in ShortNames /\ ~(short[s] > 0) /\ Short!Reconciled[s] = ""
      BY <1>3, <1>5, <2>1 DEF Short!Short, Short!Reserved
    <3>2. short[s] \in Nat
      BY <3>1, <1>a
    <3> QED
      BY <3>1, <3>2 DEF Short!Reconciled
  <2>2. \A s \in Owed : short[s] = 0 /\ live[s] = << >>
    BY DEF MeansToSell
  <2>3. \A s \in intent'.enter \cup Owed' : short'[s] = 0 /\ live'[s] = << >>
    BY <1>0, <1>1, <1>6, <2>1, <2>2
  <2>4. /\ intent'.replace \subseteq Owed'
        /\ intent'.replace # {} => clock' = "rth" /\ intent'.enter = {}
    <3>1. CASE clock = "pre"
      BY <1>0, <3>1
    <3>2. CASE clock # "pre"
      BY <1>0, <1>1, <1>2, <1>6, <3>2 DEF ShortTypes
    <3> QED
      BY <3>1, <3>2
  <2> QED
    BY <1>1, <1>2, <2>3, <2>4 DEF MeansToSell
<1>10. SlotsInv'
  <2>1. CASE enter = {}
    <3>1. Spent' \subseteq Spent
      BY <1>0, <1>6, <2>1 DEF Spent
    <3> QED
      BY <1>1, <1>6, <3>1, SlotsAreFreed DEF SlotsInv
  <2>2. CASE enter # {} /\ "cancels" \notin sEnv
    <3>1. clock = "pre" /\ Owed = {}
      BY <1>5, <2>2 DEF SlotsInv
    <3>2. Short!Selling \subseteq Short!Reserved
      BY <1>3, OnlyOrder DEF Short!Selling, Short!Reserved, Short!Reconciled
    <3>3. /\ IsFiniteSet(Short!Short) /\ IsFiniteSet(Short!Reserved) /\ IsFiniteSet(enter)
          /\ Cardinality(Short!Short) \in Nat /\ Cardinality(Short!Reserved) \in Nat
          /\ Cardinality(enter) \in Nat
      <4>1. IsFiniteSet(ShortNames)
        BY DEF Short!SizesAssumption, Short!IsFiniteSet, IsFiniteSet
      <4>2. Short!Short \subseteq ShortNames /\ Short!Reserved \subseteq ShortNames
        BY DEF Short!Short, Short!Reserved
      <4> QED
        BY <1>5, <4>1, <4>2, FS_Subset, FS_CardinalityType
    <3> DEFINE taken == Short!Short \cup Short!Reserved
    <3>4. /\ IsFiniteSet(taken) /\ Cardinality(taken) \in Nat
          /\ Cardinality(taken) <= Cardinality(Short!Short) + Cardinality(Short!Reserved)
      BY <3>3, FewInAUnion
    <3>5. /\ IsFiniteSet(taken \cup enter) /\ Cardinality(taken \cup enter) \in Nat
          /\ Cardinality(taken \cup enter) <= Cardinality(taken) + Cardinality(enter)
      BY <3>3, <3>4, FewInAUnion
    <3>6. Spent' \subseteq taken \cup enter
      BY <1>0, <1>6, <3>1, <3>2 DEF Spent
    <3>7. Cardinality(Spent') <= Cardinality(taken \cup enter) /\ Cardinality(Spent') \in Nat
      BY <3>5, <3>6, FS_Subset, FS_CardinalityType
    <3>8. Short!Room(shorts) = NSlots - Cardinality(Short!Short) - Cardinality(Short!Reserved)
      <4>1. \A S : Short!Cardinality(S) = Cardinality(S)
        BY DEF Short!Cardinality, Cardinality
      <4> QED
        BY <1>3, <4>1 DEF Short!Room
    <3>9. Cardinality(enter) <= NSlots - Cardinality(Short!Short) - Cardinality(Short!Reserved)
      BY <1>5, <2>2, <3>8
    <3>10. Cardinality(Spent') <= NSlots
      <4> HIDE DEF taken
      <4> QED
        BY <3>3, <3>4, <3>5, <3>7, <3>9 DEF Short!SizesAssumption
    <3> QED
      BY <1>6, <3>1, <3>10 DEF SlotsInv
  <2>3. CASE "cancels" \in sEnv
    BY <1>1, <2>3 DEF SlotsInv
  <2> QED
    BY <2>1, <2>2, <2>3
<1> QED
  BY <1>7, <1>8, <1>9, <1>10

(* A name's order changes, and with it what the lane knows of the name:    *)
(* the others are as they were.                                            *)
LEMMA SendSteps ==
  ASSUME Short!SizesAssumption, PlainInv, NEW s \in ShortNames,
         Short!SendCover(s) \/ Short!SendOpening(s) \/ Short!SendReplacement(s)
  PROVE  PlainInv'
<1>a. \A x \in ShortNames : short[x] \in Nat
  BY NoLongs
<1>b. ShortLot \in Nat \ {0}
  BY DEF Short!SizesAssumption
<1> USE DEF PlainInv
<1> DEFINE sent == live'[s][1]
<1>1. /\ live[s] = << >> /\ up /\ clock # "shut" /\ shorts = Short!Short
      /\ live' = [live EXCEPT ![s] = <<sent>>]
      /\ reserved' = [reserved EXCEPT ![s] = IF sent.side = "BUY" THEN "exit" ELSE "enter"]
      /\ sent \in ShortOrders
      /\ UNCHANGED <<sEnv, up, shorts, short, atOpen, clock>>
      /\ \/ sent.side = "SELL" /\ sent.left = ShortLot
         \/ sent.side = "BUY" /\ sent.tif = "DAY" /\ sent.left = short[s] /\ short[s] > 0
  <2>1. CASE Short!SendCover(s)
    <3>1. Short!Sent(s, "exit", "BUY", "DAY", short[s]) /\ short[s] > 0 /\ short[s] \in Nat
      BY <2>1, <1>a DEF Short!SendCover
    <3>2. /\ live[s] = << >> /\ up /\ shorts = Short!Short
          /\ live' = [live EXCEPT ![s] =
               <<[side |-> "BUY", tif |-> "DAY", left |-> short[s], of |-> short[s]]>>]
      BY <3>1, SentAlone
    <3>3. sent = [side |-> "BUY", tif |-> "DAY", left |-> short[s], of |-> short[s]]
      BY <3>2 DEF ShortTypes
    <3> HIDE DEF sent
    <3>4. sent \in ShortOrders /\ sent.side = "BUY" /\ sent.tif = "DAY" /\ sent.left = short[s]
      BY <3>1, <3>3 DEF ShortOrders
    <3>5. live' = [live EXCEPT ![s] = <<sent>>]
      BY <3>2, <3>3
    <3> QED
      BY <3>1, <3>2, <3>4, <3>5 DEF Short!Sent
  <2>2. CASE Short!SendOpening(s) \/ Short!SendReplacement(s)
    <3>1. PICK tif \in {"DAY", "AT_THE_OPEN"} : Short!Sent(s, "enter", "SELL", tif, ShortLot)
      BY <2>2 DEF Short!SendOpening, Short!SendReplacement
    <3>2. /\ live[s] = << >> /\ up /\ shorts = Short!Short
          /\ live' = [live EXCEPT ![s] =
               <<[side |-> "SELL", tif |-> tif, left |-> ShortLot, of |-> ShortLot]>>]
      BY <3>1, SentAlone
    <3>3. sent = [side |-> "SELL", tif |-> tif, left |-> ShortLot, of |-> ShortLot]
      BY <3>2 DEF ShortTypes
    <3> HIDE DEF sent
    <3>4. sent \in ShortOrders /\ sent.side = "SELL" /\ sent.left = ShortLot
      BY <3>1, <3>3, <1>b DEF ShortOrders
    <3>5. live' = [live EXCEPT ![s] = <<sent>>]
      BY <3>2, <3>3
    <3> QED
      BY <3>1, <3>2, <3>4, <3>5 DEF Short!Sent
  <2> QED
    BY <2>1, <2>2
<1>2. /\ Short!SendCover(s) /\ sent.side = "BUY" /\ short[s] > 0 /\ leg' = leg
         /\ intent' = [intent EXCEPT !.cover = @ \ {s}]
      \/ /\ Short!SendOpening(s) /\ sent.side = "SELL" /\ clock = "pre" /\ s \in intent.enter
         /\ leg' = [leg EXCEPT ![s] = "live"] /\ intent' = [intent EXCEPT !.enter = @ \ {s}]
      \/ /\ Short!SendReplacement(s) /\ sent = [side |-> "SELL", tif |-> "DAY", left |-> ShortLot, of |-> ShortLot]
         /\ s \in intent.replace
         /\ leg' = [leg EXCEPT ![s] = "replaced"] /\ intent' = [intent EXCEPT !.replace = @ \ {s}]
  BY SentAlone DEF Short!SendCover, Short!SendOpening, Short!SendReplacement, ShortTypes
<1> HIDE DEF sent
<1>3. /\ live'[s] = <<sent>> /\ reserved'[s] = IF sent.side = "BUY" THEN "exit" ELSE "enter"
      /\ \A t \in ShortNames \ {s} : live'[t] = live[t] /\ leg'[t] = leg[t] /\ reserved'[t] = reserved[t]
      /\ DOMAIN live' = ShortNames /\ DOMAIN reserved' = ShortNames
  BY <1>1, <1>2 DEF ShortTypes
<1>4. \/ leg'[s] \in LegStates \ {"EXPIRED", "CANCELED"}
      \/ leg' = leg /\ short[s] > 0
  BY <1>2 DEF ShortTypes, LegStates
<1>5. intent'.enter \subseteq intent.enter /\ intent'.replace \subseteq intent.replace
      /\ (sent.side = "SELL" => s \notin intent'.enter \cup intent'.replace /\ s \in intent.enter \cup Owed /\ short[s] = 0)
  <2>1. intent \in [cover : SUBSET ShortNames, enter : SUBSET ShortNames, replace : SUBSET ShortNames]
    BY DEF ShortTypes
  <2>2. /\ intent.replace \subseteq Owed /\ \A t \in intent.enter \cup Owed : short[t] = 0
        /\ intent.replace # {} => clock = "rth" /\ intent.enter = {}
    BY DEF MeansToSell
  <2> QED
    BY <1>2, <2>1, <2>2
<1>6. s \notin Owed' /\ Owed' = Owed \ {s} /\ (sent.side = "BUY" => s \notin intent.enter \cup Owed)
  <2>1. ~Short!ReplacementIsOwed(leg'[s])
    BY <1>4 DEF Short!ReplacementIsOwed, Owed, MeansToSell
  <2> QED
    BY <1>2, <1>3, <2>1 DEF Owed, MeansToSell
<1>7. Short!Short' = Short!Short
  BY <1>1 DEF Short!Short
<1>8. Short!Reconciled' = [Short!Reconciled EXCEPT ![s] = IF sent.side = "BUY" THEN "exit" ELSE "enter"]
  <2>1. <<sent>> # << >> /\ <<sent>>[1] = sent
    OBVIOUS
  <2> DEFINE kind(q) == IF q = << >> THEN "" ELSE IF q[1].side = "BUY" THEN "exit" ELSE "enter"
  <2>2. /\ Short!Reconciled = [t \in ShortNames |-> kind(live[t])]
        /\ Short!Reconciled' = [t \in ShortNames |-> kind(live'[t])]
    BY DEF Short!Reconciled
  <2>3. kind(live'[s]) = IF sent.side = "BUY" THEN "exit" ELSE "enter"
    BY <1>3, <2>1
  <2>4. \A t \in ShortNames \ {s} : kind(live'[t]) = kind(live[t])
    BY <1>3
  <2> HIDE DEF kind
  <2> QED
    BY <2>2, <2>3, <2>4
<1>9. ShortTypes'
  <2>1. <<sent>> \in Seq(ShortOrders)
    BY <1>1
  <2>2. live' \in [ShortNames -> Seq(ShortOrders)]
    BY <1>1, <2>1 DEF ShortTypes
  <2>3. reserved' \in [ShortNames -> Kinds]
    BY <1>1 DEF ShortTypes, Kinds
  <2>4. leg' \in [ShortNames -> LegStates]
    BY <1>2 DEF ShortTypes, LegStates
  <2>5. intent' \in [cover : SUBSET ShortNames, enter : SUBSET ShortNames, replace : SUBSET ShortNames]
    <3>1. intent \in [cover : SUBSET ShortNames, enter : SUBSET ShortNames, replace : SUBSET ShortNames]
      BY DEF ShortTypes
    <3>2. CASE intent' = [intent EXCEPT !.cover = @ \ {s}]
      BY <3>1, <3>2
    <3>3. CASE intent' = [intent EXCEPT !.enter = @ \ {s}]
      BY <3>1, <3>3
    <3>4. CASE intent' = [intent EXCEPT !.replace = @ \ {s}]
      BY <3>1, <3>4
    <3> QED
      BY <1>2, <3>2, <3>3, <3>4
  <2> QED
    BY <1>1, <2>2, <2>3, <2>4, <2>5 DEF ShortTypes
<1>10. OneOrder'
  <2>1. /\ Len(<<sent>>) <= 1 /\ <<sent>>[1] = sent
    OBVIOUS
  <2> QED
    BY <1>1, <1>3, <1>5, <2>1 DEF OneOrder, OrderOf
<1>11. LaneKnows'
  BY <1>1, <1>7, <1>8 DEF LaneKnows
<1>12. MeansToSell'
  <2>1. s \notin intent'.enter \cup Owed'
    BY <1>1, <1>5, <1>6
  <2>2. \A t \in intent'.enter \cup Owed' : short'[t] = 0 /\ live'[t] = << >>
    BY <1>1, <1>3, <1>5, <1>6, <2>1 DEF MeansToSell, ShortTypes, Owed
  <2>3. /\ intent'.replace \subseteq Owed'
        /\ intent'.replace # {} => clock' = "rth" /\ intent'.enter = {}
    BY <1>1, <1>5, <1>6 DEF MeansToSell
  <2> QED
    BY <1>1, <2>2, <2>3 DEF MeansToSell
<1>13. SpentAtOpen'
  <2>1. ASSUME s \in atOpen PROVE leg' = leg /\ sent.tif = "DAY"
    <3>1. clock = "pre" => short[s] > 0
      BY <2>1 DEF SpentAtOpen, Short!Short
    <3>2. leg[s] = "none"
      BY <2>1 DEF SpentAtOpen
    <3>3. s \notin Owed
      BY <3>2 DEF Owed, Short!ReplacementIsOwed
    <3>4. CASE sent.side = "BUY"
      BY <1>1, <1>2, <3>4
    <3>5. CASE sent.side = "SELL"
      <4>1. s \in intent.enter /\ short[s] = 0
        BY <1>5, <3>3, <3>5
      <4>2. s \notin intent.replace
        BY <3>3 DEF MeansToSell
      <4> QED
        BY <1>2, <3>1, <3>5, <4>1, <4>2
    <3> QED
      BY <1>1, <3>4, <3>5 DEF ShortOrders
  <2>2. <<sent>>[1] = sent
    OBVIOUS
  <2> QED
    BY <1>1, <1>3, <1>7, <2>1, <2>2 DEF SpentAtOpen, OrderOf, ShortTypes
<1>14. SlotsInv'
  <2>1. Short!Selling' \subseteq Short!Selling \cup IF sent.side = "SELL" THEN {s} ELSE {}
    <3>1. \A i \in DOMAIN <<sent>> : <<sent>>[i] = sent
      OBVIOUS
    <3> QED
      BY <1>3, <3>1 DEF Short!Selling
  <2>2. Spent' \subseteq Spent
    BY <1>5, <1>6, <1>7, <2>1 DEF Spent
  <2> QED
    BY <1>1, <1>6, <2>2, SlotsAreFreed DEF SlotsInv
<1> QED
  BY <1>1, <1>9, <1>10, <1>11, <1>12, <1>13, <1>14

(* A name's order leaves, filled or not.                                   *)
LEMMA OrderGoes ==
  ASSUME Short!SizesAssumption, Short!Plain, PlainInv, NEW s \in ShortNames,
         NEW i \in DOMAIN live[s], Short!Fills(s, i) \/ Short!Ends(s, i)
  PROVE  PlainInv'
<1>a. \A x \in ShortNames : short[x] \in Nat
  BY NoLongs
<1>b. ShortLot \in Nat \ {0}
  BY DEF Short!SizesAssumption
<1> USE DEF PlainInv
<1> DEFINE o == OrderOf(s)
<1>1. /\ i = 1 /\ live[s] # << >> /\ o \in ShortOrders /\ o = live[s][i]
      /\ Short!Without(live[s], i) = << >>
  BY OnlyOrder DEF OrderOf
<1>2. \/ o.side = "SELL" /\ o.left = ShortLot /\ short[s] = 0
      \/ o.side = "BUY" /\ o.tif = "DAY" /\ o.left = short[s] /\ short[s] > 0
  BY <1>1 DEF OneOrder
<1>3. PICK st \in {"FILLED", "REJECTED", "CANCELED", "EXPIRED"} :
        /\ leg' = Short!Status(o, st, s)
        /\ st # "FILLED" => Short!Ends(s, i)
        /\ st = "FILLED" => Short!Fills(s, i) /\ clock = "rth"
        /\ clock = "pre" => st = "REJECTED" \/ "cancels" \in sEnv
  <2>1. CASE Short!Fills(s, i)
    <3>1. Short!FillSizes(o.left) = {o.left}
      BY DEF Short!Plain, Short!FillSizes
    <3>2. leg' = Short!Status(o, "FILLED", s) /\ clock = "rth"
      BY <1>1, <2>1, <3>1 DEF Short!Fills
    <3> QED
      BY <2>1, <3>2
  <2>2. CASE Short!Ends(s, i)
    BY <1>1, <2>2 DEF Short!Ends
  <2> QED
    BY <2>1, <2>2
<1>4. /\ UNCHANGED <<sEnv, up, atOpen, clock, intent>>
      /\ live' = [live EXCEPT ![s] = << >>]
  <2>1. CASE Short!Fills(s, i)
    <3>1. Short!FillSizes(o.left) = {o.left}
      BY DEF Short!Plain, Short!FillSizes
    <3>2. \E n \in Short!FillSizes(o.left) :
            live' = [live EXCEPT ![s] = IF n = o.left THEN Short!Without(@, i)
                                        ELSE [@ EXCEPT ![i].left = o.left - n]]
      BY <1>1, <2>1 DEF Short!Fills
    <3>4. live' = [live EXCEPT ![s] = Short!Without(@, i)]
      BY <3>1, <3>2
    <3>3. live' = [live EXCEPT ![s] = << >>]
      BY <1>1, <3>4
    <3> QED
      BY <2>1, <3>3 DEF Short!Fills
  <2>2. CASE Short!Ends(s, i)
    <3>1. live' = [live EXCEPT ![s] = Short!Without(@, i)]
      BY <2>2 DEF Short!Ends
    <3>2. live' = [live EXCEPT ![s] = << >>]
      BY <1>1, <3>1
    <3> QED
      BY <2>2, <3>2 DEF Short!Ends
  <2> QED
    BY <2>1, <2>2
<1>5. short' = [short EXCEPT ![s] = IF st # "FILLED" THEN @ ELSE IF o.side = "SELL" THEN ShortLot ELSE 0]
  <2>1. CASE st = "FILLED"
    <3>1. Short!FillSizes(o.left) = {o.left}
      BY DEF Short!Plain, Short!FillSizes
    <3>2. short' = [short EXCEPT ![s] = @ + (IF o.side = "SELL" THEN o.left ELSE -o.left)]
      BY <1>1, <1>3, <2>1, <3>1 DEF Short!Fills
    <3>3. short[s] \in Nat
      BY <1>a
    <3>4. short[s] + (IF o.side = "SELL" THEN o.left ELSE -o.left)
            = IF o.side = "SELL" THEN ShortLot ELSE 0
      BY <1>2, <1>b, <3>3
    <3> QED
      BY <2>1, <3>2, <3>4
  <2>2. CASE st # "FILLED"
    <3>1. short' = short
      BY <1>3, <2>2 DEF Short!Ends
    <3> QED
      BY <2>2, <3>1 DEF ShortTypes
  <2> QED
    BY <2>1, <2>2
<1>6. up => /\ reserved' = [reserved EXCEPT ![s] = ""]
            /\ shorts' = IF st # "FILLED" THEN shorts
                         ELSE IF o.side = "SELL" THEN shorts \cup {s} ELSE shorts \ {s}
  <2> SUFFICES ASSUME up
               PROVE  /\ reserved' = [reserved EXCEPT ![s] = ""]
                      /\ shorts' = IF st # "FILLED" THEN shorts
                                   ELSE IF o.side = "SELL" THEN shorts \cup {s} ELSE shorts \ {s}
    OBVIOUS
  <2>1. reserved[s] = IF o.side = "BUY" THEN "exit" ELSE "enter"
    BY <1>1 DEF LaneKnows, Short!Reconciled, OrderOf
  <2>2. CASE st = "FILLED"
    <3>1. Short!OnOrderFilled(s, o.side)
      BY <1>1, <1>3, <2>2 DEF Short!Fills
    <3>2. Short!Completes(reserved[s], o.side)
      BY <1>2, <2>1 DEF Short!Completes
    <3> QED
      BY <1>2, <2>1, <2>2, <3>1, <3>2 DEF Short!OnOrderFilled
  <2>3. CASE st # "FILLED"
    BY <1>3, <2>3 DEF Short!Ends, Short!Forget
  <2> QED
    BY <2>2, <2>3
<1>7. reserved' \in [ShortNames -> Kinds]
  <2>1. CASE up
    BY <1>6, <2>1 DEF ShortTypes, Kinds
  <2>2. CASE ~up
    BY <1>3, <2>2 DEF Short!Fills, Short!Ends, Short!OnOrderFilled, Short!Forget, ShortTypes
  <2> QED
    BY <2>1, <2>2
<1> HIDE DEF o
<1>8. /\ live'[s] = << >> /\ DOMAIN live' = ShortNames
      /\ \A t \in ShortNames \ {s} : live'[t] = live[t] /\ leg'[t] = leg[t] /\ short'[t] = short[t]
      /\ short'[s] = IF st # "FILLED" THEN short[s] ELSE IF o.side = "SELL" THEN ShortLot ELSE 0
  BY <1>3, <1>4, <1>5 DEF ShortTypes, Short!Status
<1>9. /\ s \notin intent.enter \cup Owed
      /\ leg'[s] = IF o.tif = "AT_THE_OPEN" THEN st ELSE leg[s]
  BY <1>1, <1>3 DEF MeansToSell, ShortTypes, Short!Status
<1>10. /\ Owed \subseteq Owed' /\ Owed' \subseteq Owed \cup {s}
       /\ s \in Owed' => /\ o.side = "SELL" /\ short'[s] = 0
                         /\ clock = "pre" => "cancels" \in sEnv
  <2>1. Owed \subseteq Owed' /\ Owed' \subseteq Owed \cup {s}
    BY <1>8, <1>9 DEF Owed
  <2>2. ASSUME s \in Owed' PROVE o.tif = "AT_THE_OPEN" /\ st \in {"EXPIRED", "CANCELED"}
    BY <1>9, <2>2 DEF Owed, Short!ReplacementIsOwed
  <2> QED
    BY <1>2, <1>3, <1>8, <2>1, <2>2
<1>11. ShortTypes'
  <2>1. live' \in [ShortNames -> Seq(ShortOrders)]
    <3>1. << >> \in Seq(ShortOrders)
      OBVIOUS
    <3> QED
      BY <1>4, <3>1 DEF ShortTypes
  <2>2. short' \in [ShortNames -> Int]
    <3>1. (IF st # "FILLED" THEN short[s] ELSE IF o.side = "SELL" THEN ShortLot ELSE 0) \in Int
      BY <1>a, <1>b
    <3> QED
      BY <1>5, <3>1 DEF ShortTypes
  <2>3. leg' \in [ShortNames -> LegStates]
    BY <1>3 DEF ShortTypes, LegStates, Short!Status
  <2> QED
    BY <1>4, <1>7, <2>1, <2>2, <2>3 DEF ShortTypes
<1>12. \A t \in ShortNames : short'[t] \in 0..ShortLot
  BY <1>8, <1>b
<1>13. OneOrder'
  <2>1. Len(<< >>) = 0
    OBVIOUS
  <2> QED
    BY <1>8, <2>1 DEF OneOrder, OrderOf
<1>14. LaneKnows'
  <2> SUFFICES ASSUME up PROVE shorts' = Short!Short' /\ reserved' = Short!Reconciled'
    BY <1>4 DEF LaneKnows
  <2>1. shorts = Short!Short /\ reserved = Short!Reconciled
    BY DEF LaneKnows
  <2>2. Short!Short' = IF st # "FILLED" THEN Short!Short
                       ELSE IF o.side = "SELL" THEN Short!Short \cup {s} ELSE Short!Short \ {s}
    <3>1. \A t \in ShortNames \ {s} : short'[t] > 0 <=> short[t] > 0
      BY <1>8
    <3>2. short'[s] > 0 <=> IF st # "FILLED" THEN short[s] > 0 ELSE o.side = "SELL"
      BY <1>8, <1>b
    <3> QED
      BY <3>1, <3>2 DEF Short!Short
  <2>3. Short!Reconciled' = [Short!Reconciled EXCEPT ![s] = ""]
    BY <1>8 DEF Short!Reconciled
  <2> QED
    BY <1>6, <2>1, <2>2, <2>3
<1>15. MeansToSell'
  <2>1. \A t \in intent'.enter \cup Owed' : short'[t] = 0 /\ live'[t] = << >>
    BY <1>4, <1>8, <1>9, <1>10 DEF MeansToSell, ShortTypes, Owed
  <2>2. clock # "shut"
    BY <1>1 DEF MeansToSell, Short!Quiet
  <2> QED
    BY <1>4, <1>10, <2>1, <2>2 DEF MeansToSell
<1>16. SpentAtOpen'
  <2>1. ASSUME s \in atOpen PROVE leg' = leg
    BY <1>1, <1>3, <2>1 DEF SpentAtOpen, Short!Status, o
  <2>2. clock = "pre" => Short!Short' = Short!Short
    <3> SUFFICES ASSUME clock = "pre" PROVE Short!Short' = Short!Short
      OBVIOUS
    <3>1. st # "FILLED"
      BY <1>3
    <3>2. short'[s] = short[s]
      BY <1>8, <3>1
    <3> QED
      BY <1>8, <3>2 DEF Short!Short
  <2> QED
    BY <1>4, <1>8, <2>1, <2>2 DEF SpentAtOpen, OrderOf, ShortTypes
<1>17. SlotsInv'
  <2>1. Short!Selling' \subseteq Short!Selling
    BY <1>8 DEF Short!Selling
  <2>2. o.side = "SELL" => s \in Short!Selling
    BY <1>1 DEF Short!Selling
  <2>3. Short!Short' \subseteq Short!Short \cup IF o.side = "SELL" THEN {s} ELSE {}
    BY <1>8 DEF Short!Short
  <2>4. Spent' \subseteq Spent
    BY <1>4, <1>10, <2>1, <2>2, <2>3 DEF Spent
  <2>5. "cancels" \notin sEnv /\ clock' = "pre" => Owed' = {}
    BY <1>4, <1>10 DEF SlotsInv
  <2> QED
    BY <1>4, <2>4, <2>5, SlotsAreFreed
<1> QED
  BY <1>11, <1>12, <1>13, <1>14, <1>15, <1>16, <1>17

(* A stop of another component covers a name, and the lane stops or        *)
(* starts.                                                                 *)
LEMMA CloseStep ==
  ASSUME Short!SizesAssumption, Short!Plain, PlainInv, NEW s \in ShortNames,
         Short!ProtectiveClose(s)
  PROVE  PlainInv'
<1>a. \A x \in ShortNames : short[x] \in Nat
  BY NoLongs
<1>b. ShortLot \in Nat \ {0}
  BY DEF Short!SizesAssumption
<1> USE DEF PlainInv
<1>1. /\ clock = "rth" /\ short[s] > 0 /\ live[s] = << >> /\ short' = [short EXCEPT ![s] = 0]
      /\ UNCHANGED <<sEnv, clock, up, live, leg, intent, atOpen>>
  BY DEF Short!ProtectiveClose, Short!Plain
<1>2. up => shorts' = shorts \ {s} /\ reserved' = [reserved EXCEPT ![s] = ""]
  <2>1. up => s \in shorts
    BY <1>1 DEF LaneKnows, Short!Short
  <2> QED
    BY <2>1 DEF Short!ProtectiveClose
<1>3. reserved' \in [ShortNames -> Kinds]
  BY DEF Short!ProtectiveClose, ShortTypes, Kinds
<1>4. ShortTypes' /\ \A t \in ShortNames : short'[t] \in 0..ShortLot
  <2>1. short' \in [ShortNames -> Int] /\ \A t \in ShortNames : short'[t] = short[t] \/ short'[t] = 0
    BY <1>1 DEF ShortTypes
  <2>2. 0 \in 0..ShortLot
    BY <1>b
  <2> QED
    BY <1>1, <1>3, <2>1, <2>2 DEF ShortTypes
<1>5. OneOrder'
  BY <1>1 DEF OneOrder, OrderOf, ShortTypes
<1>6. LaneKnows'
  <2> SUFFICES ASSUME up PROVE shorts' = Short!Short' /\ reserved' = Short!Reconciled'
    BY <1>1 DEF LaneKnows
  <2>1. shorts = Short!Short /\ reserved = Short!Reconciled
    BY DEF LaneKnows
  <2>2. Short!Short' = Short!Short \ {s}
    BY <1>1 DEF Short!Short, ShortTypes
  <2>3. Short!Reconciled' = Short!Reconciled /\ Short!Reconciled[s] = ""
    BY <1>1 DEF Short!Reconciled
  <2>4. reserved' = reserved
    BY <1>2, <2>1, <2>3 DEF ShortTypes
  <2> QED
    BY <1>2, <2>1, <2>2, <2>3, <2>4
<1>7. Owed' = Owed /\ Short!Selling' = Short!Selling /\ Short!Quiet' = Short!Quiet
      /\ Short!Short' \subseteq Short!Short
  BY <1>1 DEF Owed, Short!Selling, Short!Quiet, Short!Short, ShortTypes
<1>8. MeansToSell'
  <2>1. \A t \in intent'.enter \cup Owed' : short'[t] = 0 /\ live'[t] = << >>
    BY <1>1, <1>7 DEF MeansToSell, ShortTypes, Owed
  <2> QED
    BY <1>1, <1>7, <2>1 DEF MeansToSell
<1>9. SpentAtOpen'
  BY <1>1 DEF SpentAtOpen, OrderOf
<1>10. Spent' \subseteq Spent
  BY <1>1, <1>7 DEF Spent
<1>11. SlotsInv'
  BY <1>1, <1>7, <1>10, SlotsAreFreed DEF SlotsInv
<1> QED
  BY <1>4, <1>5, <1>6, <1>8, <1>9, <1>11

LEMMA RestartSteps ==
  ASSUME Short!SizesAssumption, PlainInv, Short!Stop \/ Short!OnStart
  PROVE  PlainInv'
<1> USE DEF PlainInv
<1>1. /\ UNCHANGED <<sEnv, clock, short, live, leg, atOpen>>
      /\ intent' \in {intent, Short!Nothing}
      /\ Short!Nothing = [cover |-> {}, enter |-> {}, replace |-> {}]
  BY DEF Short!Stop, Short!OnStart, Short!Nothing
<1>2. Short!Short' = Short!Short /\ Short!Selling' = Short!Selling /\ Short!Reconciled' = Short!Reconciled
      /\ Short!Quiet' = Short!Quiet /\ Owed' = Owed
  BY <1>1 DEF Short!Short, Short!Selling, Short!Reconciled, Short!Quiet, Owed
<1>3. reserved' \in [ShortNames -> Kinds]
  <2>1. reserved' \in {Short!Free, Short!Reconciled}
    BY DEF Short!Stop, Short!OnStart
  <2> QED
    BY <2>1 DEF Short!Free, Short!Reconciled, Kinds
<1>4. ShortTypes' /\ OneOrder' /\ SpentAtOpen' /\ \A s \in ShortNames : short'[s] \in 0..ShortLot
  BY <1>1, <1>2, <1>3 DEF ShortTypes, OneOrder, SpentAtOpen, OrderOf
<1>5. LaneKnows'
  BY <1>2 DEF LaneKnows, Short!Stop, Short!OnStart
<1>6. MeansToSell'
  BY <1>1, <1>2 DEF MeansToSell
<1>7. Spent' \subseteq Spent
  BY <1>1, <1>2 DEF Spent
<1>8. SlotsInv'
  BY <1>1, <1>2, <1>7, SlotsAreFreed DEF SlotsInv
<1> QED
  BY <1>4, <1>5, <1>6, <1>8

LEMMA ShortInvHolds ==
  Short!SizesAssumption => (Short!Spec => []ShortInv)
<1> SUFFICES ASSUME Short!SizesAssumption PROVE Short!Spec => []ShortInv
  OBVIOUS
<1>1. Short!Init => ShortInv
  <2> SUFFICES ASSUME Short!Init PROVE ShortInv
    OBVIOUS
  <2> USE DEF Short!Init
  <2>1. /\ \A s \in ShortNames : short[s] = 0 /\ live[s] = << >> /\ leg[s] = "none"
        /\ intent = [cover |-> {}, enter |-> {}, replace |-> {}]
    BY DEF Short!NoLeg, Short!Nothing
  <2>2. /\ Short!Short = {} /\ Short!Selling = {} /\ Owed = {} /\ Spent = {}
        /\ Short!Reconciled = Short!Free
    <3>1. Short!Short = {}
      BY <2>1 DEF Short!Short
    <3>2. DOMAIN << >> = {}
      OBVIOUS
    <3>3. Short!Selling = {}
      BY <2>1, <3>2 DEF Short!Selling
    <3>4. Owed = {}
      BY <2>1 DEF Owed, Short!ReplacementIsOwed
    <3>5. Short!Reconciled = Short!Free
      BY <2>1 DEF Short!Reconciled, Short!Free
    <3> QED
      BY <2>1, <3>1, <3>3, <3>4, <3>5 DEF Spent
  <2>3. ShortTypes
    <3>1. << >> \in Seq(ShortOrders)
      OBVIOUS
    <3>2. live \in [ShortNames -> Seq(ShortOrders)]
      BY <3>1
    <3>3. short \in [ShortNames -> Int] /\ atOpen \subseteq ShortNames /\ clock = "pre"
      OBVIOUS
    <3>4. reserved \in [ShortNames -> Kinds] /\ leg \in [ShortNames -> LegStates]
      BY DEF Short!Free, Short!NoLeg, Kinds, LegStates
    <3> QED
      BY <2>1, <3>2, <3>3, <3>4 DEF ShortTypes
  <2>4. SlotsInv
    BY <2>2, FS_EmptySet DEF SlotsInv, Short!SizesAssumption
  <2>5. OneOrder /\ LaneKnows /\ SpentAtOpen /\ MeansToSell
    <3>1. Len(<< >>) = 0
      OBVIOUS
    <3> QED
      BY <2>1, <2>2, <3>1 DEF OneOrder, LaneKnows, SpentAtOpen, MeansToSell
  <2>6. \A s \in ShortNames : short[s] \in 0..ShortLot
    BY <2>1 DEF Short!SizesAssumption
  <2> QED
    BY <2>3, <2>4, <2>5, <2>6 DEF ShortInv, PlainInv, TrailsAreHeld
<1>2. ShortInv /\ [Short!Next]_shortVars => ShortInv'
  <2> SUFFICES ASSUME ShortInv, [Short!Next]_shortVars PROVE ShortInv'
    OBVIOUS
  <2>1. TrailsAreHeld'
    BY TrailsStep DEF ShortInv
  <2>2. ASSUME Short!Plain' PROVE PlainInv'
    <3>1. Short!Plain
      BY <2>2 DEF Short!Plain, Short!Next, Short!VenueActs, Short!Cross, Short!Close, Short!NextDay,
           Short!OnBar, Short!AlertRefuses, Short!SessionIntent, Short!GiveUp, Short!SendCover,
           Short!SendOpening, Short!SendReplacement, Short!Sent, Short!Fills, Short!Ends,
           Short!ProtectiveClose, Short!Stop, Short!OnStart, shortVars
    <3>2. PlainInv
      BY <3>1 DEF ShortInv
    <3>3. CASE \/ Short!Cross \/ Short!Close \/ Short!NextDay \/ Short!OnBar \/ Short!AlertRefuses
               \/ Short!GiveUp \/ UNCHANGED shortVars
      BY <3>2, <3>3, ClockSteps
    <3>4. CASE Short!SessionIntent
      BY <3>2, <3>4, IntentStep
    <3>5. ASSUME NEW s \in ShortNames,
                 Short!SendCover(s) \/ Short!SendOpening(s) \/ Short!SendReplacement(s)
          PROVE  PlainInv'
      BY <3>2, <3>5, SendSteps
    <3>6. ASSUME NEW s \in ShortNames, NEW i \in DOMAIN live[s], Short!Fills(s, i) \/ Short!Ends(s, i)
          PROVE  PlainInv'
      BY <3>1, <3>2, <3>6, OrderGoes
    <3>7. ASSUME NEW s \in ShortNames, Short!ProtectiveClose(s) PROVE PlainInv'
      BY <3>1, <3>2, <3>7, CloseStep
    <3>8. CASE Short!Stop \/ Short!OnStart
      BY <3>2, <3>8, RestartSteps
    <3> QED
      BY <3>3, <3>4, <3>5, <3>6, <3>7, <3>8 DEF Short!Next, Short!VenueActs
  <2> QED
    BY <2>1, <2>2 DEF ShortInv
<1> QED
  BY <1>1, <1>2, PTL DEF Short!Spec, Short!vars, shortVars

LEMMA TheShortLaneSteps ==
  AllSpec => Short!Spec
<1>1. AllInit => Short!Init
  BY DEF AllInit
<1>2. [AllNext]_allVars => [Short!Next]_shortVars
  BY DEF AllNext, TheMonthlyRunner, TheShortLane, TheSleeve, TheIntradayLane, TheRule, allVars
<1> QED
  BY <1>1, <1>2, PTL DEF AllSpec, Short!Spec, Short!vars, shortVars

(* The short lane never holds and works more names than it has slots, its  *)
(* reservations are its orders over slots, refusals and restarts, its book *)
(* is what it is short, and no order doubles or over-covers a position     *)
(* (crsi_short/nautilus.py), for any names, slots and lot.                 *)
THEOREM ShortBookHolds ==
  AllSpec => []ShortBookIsTrue
<1>1. Short!SizesAssumption
  BY InstancesAssumption
<1>2. ShortInv => ShortBookIsTrue
  <2> SUFFICES ASSUME ShortInv PROVE ShortBookIsTrue
    OBVIOUS
  <2>1. Short!SlotsKept
    <3> SUFFICES ASSUME Short!Plain, "cancels" \notin sEnv
                 PROVE  Cardinality(Short!Short \cup Short!Selling) <= NSlots
      BY DEF Short!SlotsKept, Short!Cardinality, Cardinality
    <3>1. Cardinality(Spent) <= NSlots /\ Short!Short \cup Short!Selling \subseteq Spent /\ ShortTypes
      BY DEF ShortInv, PlainInv, SlotsInv, Spent
    <3> QED
      BY <1>1, <3>1, SpentIsCounted DEF Short!SizesAssumption
  <2>2. Short!ReservedIsLive
    BY DEF Short!ReservedIsLive, ShortInv, PlainInv, LaneKnows, Short!Reconciled
  <2>3. Short!BookIsTrue
    BY DEF Short!BookIsTrue, ShortInv, PlainInv, LaneKnows, TrailsAreHeld
  <2>4. Short!NeverDoubled
    BY DEF Short!NeverDoubled, ShortInv, PlainInv
  <2> QED
    BY <2>1, <2>2, <2>3, <2>4 DEF ShortBookIsTrue
<1> QED
  BY <1>1, <1>2, ShortInvHolds, TheShortLaneSteps, PTL

(* A name that was short when the session opened is shorted by no order of *)
(* that session, also after its cover and over restarts (replacement_leg   *)
(* and opening_leg of crsi_short/nautilus.py).                             *)
THEOREM NoneIsReshorted ==
  AllSpec => NotReshorted
<1>1. Short!SizesAssumption
  BY InstancesAssumption
<1>2. ShortInv => Short!SpentForToday
  <2> SUFFICES ASSUME ShortInv, Short!Plain, NEW s \in atOpen
               PROVE  ~Short!SendOpening(s) /\ ~Short!SendReplacement(s)
    BY DEF Short!SpentForToday
  <2>1. leg[s] = "none" /\ (clock = "pre" => s \in Short!Short)
    BY DEF ShortInv, PlainInv, SpentAtOpen
  <2>2. s \notin Owed
    BY <2>1 DEF Owed, Short!ReplacementIsOwed
  <2>3. s \in intent.enter => short[s] = 0
    BY DEF ShortInv, PlainInv, MeansToSell
  <2>4. ~Short!SendOpening(s)
    BY <2>1, <2>3 DEF Short!SendOpening, Short!Short
  <2>5. ~Short!SendReplacement(s)
    BY <2>2 DEF Short!SendReplacement, ShortInv, PlainInv, MeansToSell
  <2> QED
    BY <2>4, <2>5
<1> QED
  BY <1>1, <1>2, ShortInvHolds, TheShortLaneSteps, PTL DEF NotReshorted

-----------------------------------------------------------------------------
(* The intraday lane (IntradayLane).  Its clock has the bar of now or one  *)
(* before it of which every bar has come; a slot is due at the clock.      *)
FeedTypes ==
  /\ {now, lastTs, due5, seen} \subseteq Int /\ 0 <= now /\ 0 <= lastTs
  /\ prints \subseteq IntradayNames /\ toCome \subseteq prints
  /\ older \in [IntradayNames -> Int] /\ bar \in [IntradayNames -> Int]
  /\ hist \in [IntradayNames -> Nat]

ClockInv ==
  /\ due5 \in {0, lastTs}
  /\ lastTs \notin {0, now} => lastTs < now /\ toCome = prints
  /\ now = 0 <=> prints = {}
  /\ \A s \in IntradayNames : older[s] <= now /\ (now # 0 => older[s] < now)
  /\ seen # 0 => lastTs # 0 /\ Intraday!DayOf(lastTs) <= seen

(* A lane with history was there from the beginning of a session: it has   *)
(* every bar of the newest time its clock has.                             *)
Watching == \E s \in IntradayNames : hist[s] > 0
BarsAreIn ==
  Watching =>
    /\ lastTs # 0
    /\ lastTs = now => \A s \in prints \ toCome : bar[s] = now
    /\ lastTs # now => \A s \in IntradayNames : older[s] = lastTs => bar[s] = lastTs

SlotInv == FeedTypes /\ ClockInv /\ BarsAreIn /\ missing = {}

(* What a book of the lane is like, whole orders and no blind sale         *)
(* assumed.                                                                *)
Books == [held : SUBSET IntradayNames, pending : [IntradayNames -> Kinds],
          stops : SUBSET IntradayNames, sizes : [IntradayNames -> Nat],
          live : [IntradayNames -> Int]]
NoOrder(b) == {s \in IntradayNames : b.pending[s] = ""}
Agrees(b, s, n) ==
  /\ s \in NoOrder(b) => b.live[s] = 0 /\ (s \in b.held <=> n > 0)
  /\ b.pending[s] = "exit" => s \in b.held /\ b.live[s] = -n /\ n > 0
  /\ b.pending[s] = "enter" => s \notin b.held /\ b.live[s] > 0 /\ n = 0
Sound(b, q) ==
  b \in Books /\ q \in [IntradayNames -> Nat] /\ \A s \in IntradayNames : Agrees(b, s, q[s])

Seldom == iEnv \cap {"parts", "blind"} = {}
LongsInv == Seldom => Sound(Intraday!Book, owned)

(* A slot is decided when all of its bars are in.                          *)
LEMMA SlotStep ==
  ASSUME Intraday!GridAssumption, SlotInv, [Intraday!Next]_intraVars
  PROVE  SlotInv'
<1> USE DEF SlotInv
<1>1. CASE Intraday!Tick
  <2>1. /\ toCome = {} /\ toCome' = prints' /\ prints' \subseteq IntradayNames /\ prints' # {}
        /\ now' \in Int /\ now < now' /\ now' # 0
        /\ older' = [s \in IntradayNames |-> IF s \in prints THEN now ELSE older[s]]
        /\ UNCHANGED <<lastTs, due5, seen, bar, hist, missing>>
    <3>1. PICK t \in (now + 1)..(IntradayDays * Times), names \in (SUBSET IntradayNames) \ {{}} :
            now' = t /\ toCome' = names /\ prints' = names
      BY <1>1 DEF Intraday!Tick
    <3>2. t \in Int /\ now + 1 <= t
      BY DEF FeedTypes
    <3>3. now < t /\ t # 0
      BY <3>2 DEF FeedTypes
    <3>4. /\ toCome = {} /\ UNCHANGED <<lastTs, due5, seen, bar, hist, missing>>
          /\ older' = [s \in IntradayNames |-> IF s \in prints THEN now ELSE older[s]]
      BY <1>1 DEF Intraday!Tick, Intraday!clockVars
    <3>5. toCome' = prints' /\ prints' \subseteq IntradayNames /\ prints' # {}
      <4>1. \A n \in (SUBSET IntradayNames) \ {{}} : n \subseteq IntradayNames /\ n # {}
        OBVIOUS
      <4>2. names \subseteq IntradayNames /\ names # {}
        BY <4>1
      <4> QED
        BY <3>1, <4>2
    <3>6. now' \in Int /\ now < now' /\ now' # 0
      BY <3>1, <3>2, <3>3
    <3> QED
      BY <3>4, <3>5, <3>6
  <2>2. FeedTypes'
    BY <2>1 DEF FeedTypes
  <2>3. ClockInv'
    <3>1. \A s \in IntradayNames : older'[s] <= now /\ older'[s] \in Int
      BY <2>1 DEF ClockInv, FeedTypes
    <3>2. lastTs <= now
      BY DEF ClockInv, FeedTypes
    <3>3. \A s \in IntradayNames : older'[s] <= now' /\ older'[s] < now'
      BY <2>1, <3>1 DEF FeedTypes
    <3>4. lastTs' < now' /\ toCome' = prints'
      BY <2>1, <3>2 DEF FeedTypes
    <3> QED
      BY <2>1, <3>3, <3>4 DEF ClockInv, Intraday!DayOf
  <2>4. BarsAreIn'
    <3> SUFFICES ASSUME Watching PROVE BarsAreIn'
      BY <2>1 DEF BarsAreIn, Watching
    <3>1. lastTs = now /\ now # 0
      <4>1. lastTs # 0 /\ 0 <= lastTs /\ lastTs \in Int
        BY DEF BarsAreIn, FeedTypes
      <4>2. lastTs = now
        BY <2>1, <4>1 DEF ClockInv
      <4> QED
        BY <4>1, <4>2
    <3>2. \A s \in prints : bar[s] = now
      BY <2>1, <3>1 DEF BarsAreIn
    <3>3. ASSUME NEW s \in IntradayNames, older'[s] = lastTs' PROVE bar'[s] = lastTs'
      <4>1. older[s] \in Int /\ older[s] < now
        BY <3>1 DEF ClockInv, FeedTypes
      <4>2. s \in prints
        BY <2>1, <3>1, <3>3, <4>1 DEF FeedTypes
      <4> QED
        BY <2>1, <3>1, <3>2, <4>2
    <3>4. lastTs' # now' /\ lastTs' # 0
      BY <2>1, <3>1 DEF FeedTypes
    <3> QED
      BY <3>3, <3>4 DEF BarsAreIn
  <2> QED
    BY <2>1, <2>2, <2>3, <2>4
<1>2. ASSUME NEW s \in IntradayNames, Intraday!OnBar(s) PROVE SlotInv'
  <2> DEFINE fires == Intraday!ClockMoved(now)
             rolls == seen # 0 /\ Intraday!DayOf(now) > seen
  <2>1. /\ s \in toCome /\ toCome' = toCome \ {s} /\ UNCHANGED <<now, older, prints>>
        /\ missing' = IF fires /\ Intraday!Decides THEN Intraday!Missing(due5) ELSE missing
        /\ hist' = IF ~rolls THEN hist
                   ELSE [n \in IntradayNames |->
                           IF bar[n] # 0 /\ Intraday!DayOf(bar[n]) = seen /\ hist[n] < Need
                           THEN hist[n] + 1 ELSE hist[n]]
        /\ seen' = IF seen = 0 \/ rolls THEN Intraday!DayOf(now) ELSE seen
        /\ lastTs' = now /\ bar' = [bar EXCEPT ![s] = now]
        /\ due5' \in {now, IF fires THEN 0 ELSE due5}
    BY <1>2 DEF Intraday!OnBar
  <2>2. now # 0 /\ now \in Int /\ 0 < now
    BY <2>1 DEF ClockInv, FeedTypes
  <2>3. fires => due5 = lastTs /\ lastTs # 0 /\ now > lastTs
    BY DEF Intraday!ClockMoved, ClockInv
  <2>4. lastTs \notin {0, now} => toCome = prints
    BY DEF ClockInv
  <2>5. Intraday!DayOf(now) \in Int /\ rolls => lastTs \notin {0, now}
    BY DEF ClockInv, FeedTypes
  <2>6. Intraday!DayOf(now) \in Int
    BY <2>2 DEF Intraday!DayOf, Intraday!GridAssumption
  <2>7. FeedTypes'
    <3>1. hist' \in [IntradayNames -> Nat]
      BY <2>1 DEF FeedTypes
    <3>2. bar' \in [IntradayNames -> Int] /\ seen' \in Int /\ due5' \in Int
      BY <2>1, <2>2, <2>6 DEF FeedTypes
    <3> QED
      BY <2>1, <3>1, <3>2 DEF FeedTypes
  <2>8. ClockInv'
    <3>1. due5' \in {0, now}
      <4>1. ~fires => due5 \in {0, now}
        BY <2>2 DEF Intraday!ClockMoved, ClockInv, FeedTypes
      <4> QED
        BY <2>1, <4>1
    <3>2. seen' # 0 => Intraday!DayOf(now) <= seen'
      BY <2>1, <2>6 DEF FeedTypes
    <3> QED
      BY <2>1, <2>2, <3>1, <3>2 DEF ClockInv, Intraday!DayOf
  <2>9. BarsAreIn'
    <3>1. ASSUME Watching', NEW n \in prints \ toCome' PROVE bar'[n] = now
      <4>1. CASE n = s
        BY <2>1, <4>1 DEF FeedTypes
      <4>2. CASE n # s
        <5>1. toCome # prints
          BY <2>1, <3>1, <4>2
        <5>2. ~rolls /\ lastTs \in {0, now}
          BY <2>4, <2>5, <2>6, <5>1
        <5>3. Watching
          BY <2>1, <3>1, <5>2 DEF Watching
        <5>4. lastTs = now
          BY <5>2, <5>3 DEF BarsAreIn
        <5> QED
          BY <2>1, <3>1, <4>2, <5>3, <5>4 DEF BarsAreIn, FeedTypes
      <4> QED
        BY <4>1, <4>2
    <3> QED
      BY <2>1, <2>2, <3>1 DEF BarsAreIn
  <2>10. missing' = {}
    <3> SUFFICES ASSUME fires, Intraday!Decides, NEW n \in Intraday!Missing(due5) PROVE FALSE
      BY <2>1
    <3>1. Watching
      <4>1. Intraday!Cardinality({x \in IntradayNames : hist[x] >= Need}) >= WarmNames
        BY DEF Intraday!Decides, Intraday!Warm
      <4>2. Intraday!Cardinality({}) = 0
        <5>1. Intraday!Cardinality({}) = Cardinality({})
          BY DEF Intraday!Cardinality, Cardinality
        <5> QED
          BY <5>1, FS_EmptySet
      <4>3. {x \in IntradayNames : hist[x] >= Need} # {}
        BY <4>1, <4>2 DEF Intraday!GridAssumption
      <4> QED
        BY <4>3 DEF Watching, FeedTypes, Intraday!GridAssumption
    <3>2. n \in IntradayNames /\ Intraday!Printed(n, due5) /\ bar[n] # due5
      BY DEF Intraday!Missing
    <3>3. due5 = lastTs /\ lastTs # now
      BY <2>2, <2>3 DEF FeedTypes
    <3>4. older[n] = lastTs
      BY <3>2, <3>3 DEF Intraday!Printed
    <3> QED
      BY <3>1, <3>2, <3>3, <3>4 DEF BarsAreIn
  <2> QED
    BY <2>7, <2>8, <2>9, <2>10
<1>3. CASE Intraday!Restart
  <2>1. /\ UNCHANGED <<now, toCome, older, prints>>
        /\ lastTs' = 0 /\ due5' = 0 /\ seen' = 0 /\ missing' = {}
        /\ hist' = [s \in IntradayNames |-> 0] /\ bar' = [s \in IntradayNames |-> 0]
    BY <1>3 DEF Intraday!Restart, Intraday!feedVars, Intraday!Zero
  <2>2. FeedTypes' /\ ~Watching'
    BY <2>1 DEF FeedTypes, Watching
  <2>3. ClockInv'
    BY <2>1 DEF ClockInv
  <2> QED
    BY <2>1, <2>2, <2>3 DEF BarsAreIn
<1>4. CASE \/ \E s \in IntradayNames :
                Intraday!Filled(s) \/ Intraday!Forgotten(s) \/ Intraday!StopFills(s)
           \/ UNCHANGED intraVars
  <2>1. UNCHANGED <<now, toCome, older, prints, lastTs, due5, seen, bar, hist, missing>>
    BY <1>4 DEF Intraday!Filled, Intraday!Forgotten, Intraday!StopFills, Intraday!feedVars,
                Intraday!clockVars, intraVars
  <2> QED
    BY <2>1 DEF FeedTypes, ClockInv, BarsAreIn, Watching, Intraday!DayOf
<1> QED
  BY <1>1, <1>2, <1>3, <1>4 DEF Intraday!Next

LEMMA OfNaturals ==
  \A n \in Nat : (n > 0 => ~(n <= 0) /\ n # 0) /\ 0 - n = -n /\ 0 - n \in Int
  OBVIOUS

(* What is held and not being traded is sold whole.                        *)
LEMMA ClosedIsSound ==
  ASSUME owned \in [IntradayNames -> Nat], NEW b \in Books, Sound(b, owned), NEW names,
         names \subseteq b.held \cap NoOrder(b)
  PROVE  /\ Sound(Intraday!ClosedAll(b, names), owned) /\ Intraday!ClosedAll(b, names) \in Books
         /\ Intraday!ClosedAll(b, names).held = b.held
         /\ NoOrder(Intraday!ClosedAll(b, names)) = NoOrder(b) \ names
<1> DEFINE sold == [s \in IntradayNames |-> IF s \in names THEN "exit" ELSE b.pending[s]]
           sent == [s \in IntradayNames |-> IF s \in names THEN b.live[s] - owned[s] ELSE b.live[s]]
           c == Intraday!ClosedAll(b, names)
<1>1. b \in Books /\ names \subseteq IntradayNames
  BY DEF Sound, Books
<1>2. \A s \in names : owned[s] \in Nat /\ owned[s] > 0 /\ b.live[s] = 0 /\ s \in b.held
  BY <1>1 DEF Sound, Agrees
<1>3. {s \in names : owned[s] <= 0} = {} /\ {s \in names : owned[s] = 0} = {}
  <2>2. \A s \in names : ~(owned[s] <= 0) /\ owned[s] # 0
    BY <1>2, OfNaturals
  <2> QED
    BY <2>2
<1>4. c = [b EXCEPT !.held = @ \ {}, !.stops = @ \ {},
                    !.sizes = [s \in IntradayNames |-> IF s \in {} THEN 0 ELSE @[s]],
                    !.pending = [s \in IntradayNames |-> IF s \in names \ {} THEN "exit" ELSE @[s]],
                    !.live = [s \in IntradayNames |-> IF s \in names \ {} THEN @[s] - owned[s] ELSE @[s]]]
  BY <1>3 DEF Intraday!ClosedAll
<1>5. /\ b.held \ {} = b.held /\ b.stops \ {} = b.stops
      /\ [s \in IntradayNames |-> IF s \in {} THEN 0 ELSE b.sizes[s]] = b.sizes
      /\ [s \in IntradayNames |-> IF s \in names \ {} THEN "exit" ELSE b.pending[s]] = sold
      /\ [s \in IntradayNames |-> IF s \in names \ {} THEN b.live[s] - owned[s] ELSE b.live[s]] = sent
  BY <1>1 DEF Books
<1>6. sold \in [IntradayNames -> Kinds] /\ sent \in [IntradayNames -> Int]
  <2>1. \A s \in names : b.live[s] - owned[s] \in Int
    BY <1>2, OfNaturals
  <2> QED
    BY <1>1, <2>1 DEF Books, Kinds
<1> HIDE DEF sold, sent, c
<1>7. c = [b EXCEPT !.held = b.held, !.stops = b.stops, !.sizes = b.sizes, !.pending = sold, !.live = sent]
  BY <1>4, <1>5
<1>8. /\ c \in Books
      /\ c.pending = sold /\ c.live = sent /\ c.held = b.held /\ c.sizes = b.sizes /\ c.stops = b.stops
  BY <1>1, <1>6, <1>7 DEF Books
<1>9. \A s \in IntradayNames : Agrees(c, s, owned[s])
  <2> SUFFICES ASSUME NEW s \in IntradayNames PROVE Agrees(c, s, owned[s])
    OBVIOUS
  <2>1. Agrees(b, s, owned[s])
    BY DEF Sound
  <2>2. CASE s \in names
    <3>1. c.pending[s] = "exit" /\ c.live[s] = 0 - owned[s] /\ s \in c.held /\ owned[s] > 0 /\ owned[s] \in Nat
      BY <1>2, <1>8, <2>2 DEF sold, sent
    <3>2. s \notin NoOrder(c)
      BY <3>1 DEF NoOrder
    <3> QED
      BY <3>1, <3>2, OfNaturals DEF Agrees
  <2>3. CASE s \notin names
    <3>1. s \in NoOrder(c) <=> s \in NoOrder(b)
      BY <1>8, <2>3 DEF NoOrder, sold
    <3> QED
      BY <1>8, <2>1, <2>3, <3>1 DEF Agrees, sold, sent
  <2> QED
    BY <2>2, <2>3
<1>10. NoOrder(c) = NoOrder(b) \ names
  BY <1>8 DEF NoOrder, sold
<1> QED
  BY <1>8, <1>9, <1>10 DEF Sound, c

(* What is free is a whole number, and so is what is bought with it.       *)
LEMMA SmallerIsOf ==
  ASSUME NEW m \in Int, NEW n \in Int
  PROVE  Intraday!Min({m, n}) \in Int
<1>1. \E x \in {m, n} : \A y \in {m, n} : x <= y
  OBVIOUS
<1>2. Intraday!Min({m, n}) \in {m, n}
  BY <1>1 DEF Intraday!Min
<1> QED
  BY <1>2

LEMMA NotBelowZero ==
  ASSUME NEW n \in Int
  PROVE  Intraday!Max({0, n}) \in Int
<1>1. \E x \in {0, n} : \A y \in {0, n} : x >= y
  OBVIOUS
<1>2. Intraday!Max({0, n}) \in {0, n}
  BY <1>1 DEF Intraday!Max
<1> QED
  BY <1>2

LEMMA IntradaySum ==
  \A q, S : Intraday!SumFunctionOnSet(q, S) = SumFunctionOnSet(q, S)
  BY DEF Intraday!SumFunctionOnSet, Intraday!FoldFunctionOnSet, Intraday!MapThenFoldSet,
         SumFunctionOnSet, FoldFunctionOnSet, MapThenFoldSet

LEMMA OpenedIsSound ==
  ASSUME Intraday!GridAssumption, owned \in [IntradayNames -> Nat], NEW b \in Books, Sound(b, owned),
         NEW names, names \subseteq NoOrder(b) \ b.held,
         NEW share, names # {} => share \in Nat \ {0}, NEW armed, armed \subseteq IntradayNames
  PROVE  Sound(Intraday!OpenedAll(b, names, share, armed), owned)
<1> DEFINE free == Intraday!Max({0, Deployed - Intraday!SumFunctionOnSet(b.sizes, b.held)})
           qty == Intraday!Min({Deployed \div share, free})
           entered == [s \in IntradayNames |-> IF s \in names THEN "enter" ELSE b.pending[s]]
           sized == [s \in IntradayNames |-> IF s \in names THEN qty ELSE b.sizes[s]]
           sent == [s \in IntradayNames |-> IF s \in names THEN b.live[s] + qty ELSE b.live[s]]
           c == Intraday!OpenedAll(b, names, share, armed)
<1>1. CASE names = {} \/ qty < 1
  BY <1>1 DEF Intraday!OpenedAll
<1>2. CASE names # {} /\ ~(qty < 1)
  <2>1. qty \in Nat \ {0}
    <3>1. IsFiniteSet(b.held) /\ \A s \in b.held : b.sizes[s] \in Int
      <4>1. IsFiniteSet(IntradayNames)
        BY DEF Intraday!GridAssumption, Intraday!IsFiniteSet, IsFiniteSet
      <4> QED
        BY <4>1, FS_Subset DEF Books
    <3>2. Intraday!SumFunctionOnSet(b.sizes, b.held) \in Int
      BY <3>1, SumInt, IntradaySum
    <3>3. free \in Int
      <4> DEFINE rest == Deployed - Intraday!SumFunctionOnSet(b.sizes, b.held)
      <4>1. rest \in Int
        BY <3>2 DEF Intraday!GridAssumption
      <4> HIDE DEF rest
      <4>2. Intraday!Max({0, rest}) \in Int
        BY <4>1, NotBelowZero
      <4> QED
        BY <4>2 DEF rest
    <3> HIDE DEF free
    <3>4. Deployed \div share \in Int
      BY <1>2 DEF Intraday!GridAssumption
    <3>5. qty \in Int
      BY <3>3, <3>4, SmallerIsOf
    <3> HIDE DEF qty
    <3> QED
      BY <1>2, <3>5
  <2>2. c = [b EXCEPT !.pending = entered, !.sizes = sized, !.live = sent,
                      !.stops = b.stops \cup (names \cap armed)]
    BY <1>2 DEF Intraday!OpenedAll
  <2> HIDE DEF c, free, qty
  <2>3. \A s \in names : /\ s \in IntradayNames /\ owned[s] = 0 /\ b.live[s] = 0 /\ s \notin b.held
                         /\ b.live[s] + qty = qty
    <3> SUFFICES ASSUME NEW s \in names
                 PROVE  /\ s \in IntradayNames /\ owned[s] = 0 /\ b.live[s] = 0 /\ s \notin b.held
                        /\ b.live[s] + qty = qty
      OBVIOUS
    <3>1. s \in IntradayNames /\ s \notin b.held /\ s \in NoOrder(b)
      BY DEF NoOrder
    <3>2. b.live[s] = 0 /\ ~(owned[s] > 0) /\ owned[s] \in Nat
      BY <3>1 DEF Sound, Agrees
    <3> QED
      BY <2>1, <3>1, <3>2
  <2>4. /\ entered \in [IntradayNames -> Kinds] /\ sized \in [IntradayNames -> Nat]
        /\ sent \in [IntradayNames -> Int] /\ b.stops \cup (names \cap armed) \subseteq IntradayNames
    <3>1. entered \in [IntradayNames -> Kinds] /\ sized \in [IntradayNames -> Nat]
      BY <2>1 DEF Books, Kinds
    <3>2. sent \in [IntradayNames -> Int]
      BY <2>1, <2>3 DEF Books
    <3> QED
      BY <2>3, <3>1, <3>2 DEF Books
  <2>5. /\ c \in Books
        /\ c.pending = entered /\ c.live = sent /\ c.held = b.held
    BY <2>2, <2>4 DEF Books
  <2>6. ASSUME NEW s \in IntradayNames PROVE Agrees(c, s, owned[s])
    <3>1. Agrees(b, s, owned[s])
      BY DEF Sound
    <3>2. CASE s \in names
      <4>1. c.pending[s] = "enter" /\ s \notin c.held /\ c.live[s] = qty /\ owned[s] = 0
        BY <2>3, <2>5, <3>2
      <4>2. s \notin NoOrder(c)
        BY <4>1 DEF NoOrder
      <4> QED
        BY <2>1, <4>1, <4>2 DEF Agrees
    <3>3. CASE s \notin names
      <4>1. s \in NoOrder(c) <=> s \in NoOrder(b)
        BY <2>5, <3>3 DEF NoOrder
      <4> QED
        BY <2>5, <3>1, <3>3, <4>1 DEF Agrees
    <3> QED
      BY <3>2, <3>3
  <2> QED
    BY <2>5, <2>6 DEF Sound, c
<1> QED
  BY <1>1, <1>2

(* A decision of a lane that has nothing out.                              *)
LEMMA DecidedIsSound ==
  ASSUME Intraday!GridAssumption, owned \in [IntradayNames -> Nat], NEW b \in Books, Sound(b, owned),
         NoOrder(b) = IntradayNames, NEW c \in Intraday!Decisions(b)
  PROVE  Sound(c, owned)
<1>1. PICK d \in [exit : SUBSET b.held, trail : SUBSET b.held,
                  enter : SUBSET (IntradayNames \ b.held), armed : {{}, IntradayNames}] :
        c = Intraday!Decided(b, d)
  BY DEF Intraday!Decisions
<1> DEFINE sold == d.exit \cup d.trail
           share == Intraday!Cardinality((b.held \ d.exit) \cup d.enter)
           left == Intraday!ClosedAll(b, sold)
<1>2. b.held \subseteq IntradayNames
  BY DEF Books
<1>3. Sound(left, owned) /\ left.held = b.held /\ left \in Books /\ NoOrder(left) = IntradayNames \ sold
  <2>1. sold \subseteq b.held \cap NoOrder(b)
    BY <1>2
  <2> HIDE DEF sold
  <2> QED
    BY <2>1, ClosedIsSound
<1>4. d.enter # {} => share \in Nat \ {0}
  <2> DEFINE whole == (b.held \ d.exit) \cup d.enter
  <2> SUFFICES ASSUME d.enter # {} PROVE Cardinality(whole) \in Nat \ {0}
    BY DEF Intraday!Cardinality, Cardinality
  <2>1. whole \subseteq IntradayNames /\ whole # {}
    BY <1>2
  <2>2. IsFiniteSet(IntradayNames)
    BY DEF Intraday!GridAssumption, Intraday!IsFiniteSet, IsFiniteSet
  <2>3. IsFiniteSet(whole)
    BY <2>1, <2>2, FS_Subset
  <2> HIDE DEF whole
  <2> QED
    BY <2>1, <2>3, FS_EmptySet, FS_CardinalityType
<1>5. d.enter \subseteq NoOrder(left) \ left.held
  BY <1>2, <1>3
<1>6. d.armed \subseteq IntradayNames
  OBVIOUS
<1>7. c = Intraday!OpenedAll(left, d.enter, share, d.armed)
  BY <1>1 DEF Intraday!Decided
<1> HIDE DEF left, share, sold
<1> QED
  BY <1>3, <1>4, <1>5, <1>6, <1>7, OpenedIsSound DEF Sound

(* What its orders, its bars and its restarts do to a book.                *)
LEMMA LongsStep ==
  ASSUME Intraday!GridAssumption, LongsInv, [Intraday!Next]_intraVars
  PROVE  LongsInv'
<1>1. iEnv' = iEnv
  BY DEF Intraday!Next, Intraday!Tick, Intraday!Restart, Intraday!OnBar, Intraday!Filled,
         Intraday!Forgotten, Intraday!StopFills, intraVars
<1> SUFFICES ASSUME Seldom PROVE Sound(Intraday!Book, owned)'
  BY <1>1 DEF LongsInv, Seldom
<1> DEFINE b == Intraday!Book
<1>2. /\ Sound(b, owned) /\ b \in Books /\ owned \in [IntradayNames -> Nat]
      /\ b = [held |-> longs, pending |-> waits, stops |-> stops, sizes |-> sizes, live |-> out]
      /\ Intraday!Book' = [held |-> longs', pending |-> waits', stops |-> stops', sizes |-> sizes', live |-> out']
  BY DEF LongsInv, Sound, Intraday!Book
<1>3. /\ longs \subseteq IntradayNames /\ stops \subseteq IntradayNames
      /\ waits \in [IntradayNames -> Kinds] /\ sizes \in [IntradayNames -> Nat]
      /\ out \in [IntradayNames -> Int] /\ owned \in [IntradayNames -> Nat]
  <2> HIDE DEF b
  <2> QED
    BY <1>2 DEF Books
<1>4. ASSUME NEW s \in IntradayNames
      PROVE  /\ waits[s] = "" => out[s] = 0 /\ (s \in longs <=> owned[s] > 0)
             /\ waits[s] = "exit" => s \in longs /\ out[s] = -owned[s] /\ owned[s] > 0
             /\ waits[s] = "enter" => s \notin longs /\ out[s] > 0 /\ owned[s] = 0
  <2>1. Agrees(b, s, owned[s])
    BY <1>2 DEF Sound
  <2> QED
    BY <2>1, <1>2 DEF Agrees, NoOrder
<1>5. CASE UNCHANGED <<owned, longs, waits, stops, sizes, out>>
  BY <1>2, <1>5 DEF Sound, Intraday!Book
<1>6. ASSUME NEW s \in IntradayNames, Intraday!OnBar(s) PROVE Sound(Intraday!Book, owned)'
  <2> DEFINE decided == Intraday!ClockMoved(now) /\ Intraday!Decides
  <2>1. PICK c \in (IF decided THEN Intraday!Decisions(b) ELSE {b}) :
          \E stopped \in Intraday!Stops(c, s) :
            LET e == IF Intraday!AtClose THEN Intraday!Flattened(stopped) ELSE stopped
            IN  /\ longs' = e.held /\ waits' = e.pending /\ stops' = e.stops
                /\ sizes' = e.sizes /\ out' = e.live
    BY <1>6 DEF Intraday!OnBar
  <2>2. PICK stopped \in Intraday!Stops(c, s) :
          LET e == IF Intraday!AtClose THEN Intraday!Flattened(stopped) ELSE stopped
          IN  /\ longs' = e.held /\ waits' = e.pending /\ stops' = e.stops
              /\ sizes' = e.sizes /\ out' = e.live
    BY <2>1
  <2>3. owned' = owned
    BY <1>6 DEF Intraday!OnBar
  <2>4. Sound(c, owned)
    <3>1. CASE decided
      <4>1. NoOrder(b) = IntradayNames
        BY <1>2, <3>1 DEF NoOrder, Intraday!Decides
      <4> HIDE DEF b
      <4> QED
        BY <1>2, <2>1, <3>1, <4>1, DecidedIsSound
    <3>2. CASE ~decided
      BY <1>2, <2>1, <3>2
    <3> QED
      BY <3>1, <3>2
  <2>5. Sound(stopped, owned)
    <3>1. CASE stopped = c
      BY <2>4, <3>1
    <3>2. CASE stopped # c
      <4>1. stopped = Intraday!ClosedAll(c, {s}) /\ {s} \subseteq c.held \cap NoOrder(c)
        BY <2>2, <3>2 DEF Intraday!Stops, Intraday!Closed, NoOrder
      <4> QED
        BY <2>4, <4>1, <1>3, ClosedIsSound DEF Sound
    <3> QED
      BY <3>1, <3>2
  <2>6. Sound(Intraday!Flattened(stopped), owned)
    <3> DEFINE names == {n \in stopped.held : stopped.pending[n] = ""}
    <3>1. names \subseteq stopped.held \cap NoOrder(stopped) /\ stopped \in Books
      BY <2>5 DEF NoOrder, Sound, Books
    <3>2. Intraday!Flattened(stopped) = Intraday!ClosedAll(stopped, names)
      BY DEF Intraday!Flattened
    <3> HIDE DEF names
    <3> QED
      BY <1>3, <2>5, <3>1, <3>2, ClosedIsSound
  <2> DEFINE e == IF Intraday!AtClose THEN Intraday!Flattened(stopped) ELSE stopped
  <2>7. Sound(e, owned) /\ e \in Books
    BY <2>5, <2>6 DEF Sound
  <2>8. /\ longs' = e.held /\ waits' = e.pending /\ stops' = e.stops
        /\ sizes' = e.sizes /\ out' = e.live
    BY <2>2
  <2> HIDE DEF e
  <2>9. Intraday!Book' = e
    BY <1>2, <2>7, <2>8 DEF Books
  <2> QED
    BY <2>3, <2>7, <2>9
<1>7. ASSUME NEW s \in IntradayNames, NEW kind \in Kinds, NEW q \in Int, NEW n \in Nat,
             NEW H, H \subseteq IntradayNames, NEW T, T \subseteq IntradayNames,
             \A t \in IntradayNames \ {s} : t \in H <=> t \in longs,
             Agrees([held |-> H, pending |-> [waits EXCEPT ![s] = kind], stops |-> T,
                     sizes |-> sizes, live |-> [out EXCEPT ![s] = q]], s, n)
      PROVE  Sound([held |-> H, pending |-> [waits EXCEPT ![s] = kind], stops |-> T,
                    sizes |-> sizes, live |-> [out EXCEPT ![s] = q]], [owned EXCEPT ![s] = n])
  <2> DEFINE e == [held |-> H, pending |-> [waits EXCEPT ![s] = kind], stops |-> T,
                   sizes |-> sizes, live |-> [out EXCEPT ![s] = q]]
  <2>1. e \in Books /\ [owned EXCEPT ![s] = n] \in [IntradayNames -> Nat]
    BY <1>3, <1>7 DEF Books
  <2>2. ASSUME NEW t \in IntradayNames \ {s} PROVE Agrees(e, t, owned[t])
    <3>1. /\ e.pending[t] = b.pending[t] /\ e.live[t] = b.live[t]
          /\ t \in e.held <=> t \in b.held
      BY <1>2, <1>3, <1>7
    <3>2. t \in NoOrder(e) <=> t \in NoOrder(b)
      BY <3>1 DEF NoOrder
    <3>3. Agrees(b, t, owned[t])
      BY <1>2 DEF Sound
    <3> HIDE DEF b, e
    <3> QED
      BY <3>1, <3>2, <3>3 DEF Agrees
  <2>3. [owned EXCEPT ![s] = n][s] = n /\ \A t \in IntradayNames \ {s} : [owned EXCEPT ![s] = n][t] = owned[t]
    BY <1>3
  <2> HIDE DEF e
  <2>4. \A t \in IntradayNames : Agrees(e, t, [owned EXCEPT ![s] = n][t])
    BY <1>7, <2>2, <2>3 DEF e
  <2> QED
    BY <2>1, <2>4 DEF Sound, e
<1>8. ASSUME NEW s \in IntradayNames, s \in NoOrder(b)
      PROVE  out[s] = 0 /\ (s \in longs <=> owned[s] > 0)
  <2>1. Agrees(b, s, owned[s])
    BY <1>2 DEF Sound
  <2> QED
    BY <1>2, <1>8, <2>1 DEF Agrees
<1>9. ASSUME NEW s \in IntradayNames, s \notin NoOrder(b)
      PROVE  \/ waits[s] = "exit" /\ s \in longs /\ out[s] = -owned[s] /\ owned[s] > 0
             \/ waits[s] = "enter" /\ s \notin longs /\ out[s] > 0 /\ owned[s] = 0
  <2>1. waits[s] \in {"exit", "enter"}
    BY <1>2, <1>3, <1>9 DEF NoOrder, Kinds
  <2>2. Agrees(b, s, owned[s])
    BY <1>2 DEF Sound
  <2> QED
    BY <1>2, <2>1, <2>2 DEF Agrees
(* What is no longer being traded agrees, if the book has it right.        *)
<1>10. ASSUME NEW s \in IntradayNames, NEW n \in Nat,
              NEW H, H \subseteq IntradayNames, NEW T, T \subseteq IntradayNames,
              \A t \in IntradayNames \ {s} : t \in H <=> t \in longs,
              s \in H <=> n > 0
       PROVE  Sound([held |-> H, pending |-> [waits EXCEPT ![s] = ""], stops |-> T,
                     sizes |-> sizes, live |-> [out EXCEPT ![s] = 0]], [owned EXCEPT ![s] = n])
  <2> DEFINE e == [held |-> H, pending |-> [waits EXCEPT ![s] = ""], stops |-> T,
                   sizes |-> sizes, live |-> [out EXCEPT ![s] = 0]]
  <2>1. e.pending[s] = "" /\ e.live[s] = 0 /\ e.held = H
    BY <1>3
  <2>2. Agrees(e, s, n)
    <3> HIDE DEF e
    <3> QED
      BY <1>10, <2>1 DEF Agrees
  <2>3. "" \in Kinds /\ 0 \in Int
    BY DEF Kinds
  <2> QED
    BY <1>7, <1>10, <2>2, <2>3, Zenon
<1>11. ASSUME NEW s \in IntradayNames, Intraday!Filled(s) PROVE Sound(Intraday!Book, owned)'
  <2> DEFINE size == IF out[s] < 0 THEN -out[s] ELSE out[s]
             signed == IF out[s] < 0 THEN -size ELSE size
  <2>1. /\ out[s] # 0 /\ sizes' = sizes
        /\ out' = [out EXCEPT ![s] = @ - signed] /\ owned' = [owned EXCEPT ![s] = @ + signed]
        /\ IF ~Intraday!Fits(waits[s], signed) THEN UNCHANGED <<longs, waits, stops>>
           ELSE /\ waits' = [waits EXCEPT ![s] = ""]
                /\ longs' = IF waits[s] = "enter" THEN longs \cup {s}
                            ELSE IF waits[s] = "exit" THEN longs \ {s} ELSE longs
                /\ stops' = IF waits[s] = "exit" THEN stops \ {s} ELSE stops
    BY <1>11 DEF Intraday!Filled, Seldom
  <2>2. s \notin NoOrder(b)
    BY <1>8, <2>1
  <2>3. signed = out[s] /\ out[s] \in Int /\ owned[s] \in Nat
    BY <1>3
  <2> HIDE DEF signed
  <2>4. out[s] - signed = 0
    BY <2>3
  <2>5. Intraday!Fits(waits[s], signed)
    BY <1>9, <2>2, <2>3 DEF Intraday!Fits
  <2>6. CASE waits[s] = "exit"
    <3>1. owned[s] + signed = 0
      BY <1>9, <2>2, <2>3, <2>6
    <3>2. /\ Intraday!Book' = [held |-> longs \ {s}, pending |-> [waits EXCEPT ![s] = ""],
                              stops |-> stops \ {s}, sizes |-> sizes, live |-> [out EXCEPT ![s] = 0]]
          /\ owned' = [owned EXCEPT ![s] = 0]
      BY <1>2, <2>1, <2>4, <2>5, <2>6, <3>1
    <3>3. longs \ {s} \subseteq IntradayNames /\ stops \ {s} \subseteq IntradayNames
      BY <1>3
    <3>4. s \in longs \ {s} <=> 0 > 0
      OBVIOUS
    <3>5. \A t \in IntradayNames \ {s} : t \in longs \ {s} <=> t \in longs
      OBVIOUS
    <3>6. 0 \in Nat
      OBVIOUS
    <3>7. Sound([held |-> longs \ {s}, pending |-> [waits EXCEPT ![s] = ""], stops |-> stops \ {s},
                 sizes |-> sizes, live |-> [out EXCEPT ![s] = 0]], [owned EXCEPT ![s] = 0])
      BY <1>10, <3>3, <3>4, <3>5, <3>6, Zenon
    <3> QED
      BY <3>2, <3>7, Zenon
  <2>7. CASE waits[s] = "enter"
    <3>1. owned[s] + signed = out[s] /\ out[s] \in Nat /\ out[s] > 0
      BY <1>9, <2>2, <2>3, <2>7
    <3>2. /\ Intraday!Book' = [held |-> longs \cup {s}, pending |-> [waits EXCEPT ![s] = ""],
                              stops |-> stops, sizes |-> sizes, live |-> [out EXCEPT ![s] = 0]]
          /\ owned' = [owned EXCEPT ![s] = out[s]]
      BY <1>2, <2>1, <2>4, <2>5, <2>7, <3>1
    <3>3. longs \cup {s} \subseteq IntradayNames
      BY <1>3
    <3>4. s \in longs \cup {s} <=> out[s] > 0
      BY <3>1
    <3>5. \A t \in IntradayNames \ {s} : t \in longs \cup {s} <=> t \in longs
      OBVIOUS
    <3>6. Sound([held |-> longs \cup {s}, pending |-> [waits EXCEPT ![s] = ""], stops |-> stops,
                 sizes |-> sizes, live |-> [out EXCEPT ![s] = 0]], [owned EXCEPT ![s] = out[s]])
      BY <1>3, <1>10, <3>1, <3>3, <3>4, <3>5, Zenon
    <3> QED
      BY <3>2, <3>6, Zenon
  <2> QED
    BY <1>9, <2>2, <2>6, <2>7
<1>12. ASSUME NEW s \in IntradayNames, Intraday!Forgotten(s) PROVE Sound(Intraday!Book, owned)'
  <2>1. /\ Intraday!Book' = [held |-> longs, pending |-> [waits EXCEPT ![s] = ""],
                            stops |-> stops, sizes |-> sizes, live |-> [out EXCEPT ![s] = 0]]
        /\ owned' = [owned EXCEPT ![s] = owned[s]] /\ out[s] # 0
    BY <1>2, <1>3, <1>12 DEF Intraday!Forgotten
  <2>2. s \notin NoOrder(b)
    BY <1>8, <2>1
  <2>3. s \in longs <=> owned[s] > 0
    <3>1. CASE s \in longs /\ owned[s] > 0
      BY <3>1
    <3>2. CASE s \notin longs /\ owned[s] = 0
      BY <3>2
    <3> QED
      BY <1>9, <2>2, <3>1, <3>2
  <2>4. owned[s] \in Nat /\ \A t \in IntradayNames \ {s} : t \in longs <=> t \in longs
    BY <1>3
  <2>5. Sound([held |-> longs, pending |-> [waits EXCEPT ![s] = ""], stops |-> stops,
               sizes |-> sizes, live |-> [out EXCEPT ![s] = 0]], [owned EXCEPT ![s] = owned[s]])
    BY <1>3, <1>10, <2>3, <2>4, Zenon
  <2> QED
    BY <2>1, <2>5, Zenon
<1>13. ASSUME NEW s \in IntradayNames, Intraday!StopFills(s) PROVE Sound(Intraday!Book, owned)'
  <2>1. owned[s] > 0 /\ out[s] = 0 /\ owned[s] \in Nat
    BY <1>3, <1>13 DEF Intraday!StopFills, Seldom
  <2>2. s \in NoOrder(b) /\ s \in longs
    BY <1>8, <1>9, <2>1
  <2>3. /\ Intraday!Book' = [held |-> longs \ {s}, pending |-> [waits EXCEPT ![s] = ""],
                            stops |-> stops, sizes |-> sizes, live |-> [out EXCEPT ![s] = 0]]
        /\ owned' = [owned EXCEPT ![s] = 0]
    BY <1>2, <1>3, <1>13, <2>1, <2>2 DEF Intraday!StopFills
  <2>4. longs \ {s} \subseteq IntradayNames
    BY <1>3
  <2>5. s \in longs \ {s} <=> 0 > 0
    OBVIOUS
  <2>6. \A t \in IntradayNames \ {s} : t \in longs \ {s} <=> t \in longs
    OBVIOUS
  <2>7. 0 \in Nat
    OBVIOUS
  <2>8. Sound([held |-> longs \ {s}, pending |-> [waits EXCEPT ![s] = ""], stops |-> stops,
               sizes |-> sizes, live |-> [out EXCEPT ![s] = 0]], [owned EXCEPT ![s] = 0])
    BY <1>3, <1>10, <2>4, <2>5, <2>6, <2>7, Zenon
  <2> QED
    BY <2>3, <2>8, Zenon
<1>14. CASE Intraday!Restart
  <2> DEFINE zero == [s \in IntradayNames |-> 0]
             e == [held |-> {s \in IntradayNames : owned[s] > 0},
                   pending |-> [s \in IntradayNames |-> ""], stops |-> {}, sizes |-> zero, live |-> zero]
  <2>1. Intraday!Book' = e /\ owned' = owned
    BY <1>2, <1>14 DEF Intraday!Restart, Intraday!Zero, Intraday!Free, Seldom
  <2>2. e \in Books
    BY DEF Books, Kinds
  <2>3. ASSUME NEW s \in IntradayNames PROVE Agrees(e, s, owned[s])
    <3>1. e.pending[s] = "" /\ e.live[s] = 0 /\ (s \in e.held <=> owned[s] > 0)
      OBVIOUS
    <3> HIDE DEF e
    <3> QED
      BY <3>1 DEF Agrees
  <2> QED
    BY <1>3, <2>1, <2>2, <2>3 DEF Sound
<1>15. CASE Intraday!Tick \/ UNCHANGED intraVars
  BY <1>5, <1>15 DEF Intraday!Tick, Intraday!bookVars, intraVars
<1> QED
  BY <1>6, <1>11, <1>12, <1>13, <1>14, <1>15 DEF Intraday!Next

LEMMA SlotInvHolds ==
  ASSUME Intraday!GridAssumption
  PROVE  Intraday!Spec => []SlotInv
<1>1. Intraday!Init => SlotInv
  <2> SUFFICES ASSUME Intraday!Init PROVE SlotInv
    OBVIOUS
  <2>1. /\ now = 0 /\ toCome = {} /\ prints = {} /\ lastTs = 0 /\ due5 = 0 /\ seen = 0 /\ missing = {}
        /\ older = [s \in IntradayNames |-> 0] /\ bar = [s \in IntradayNames |-> 0]
        /\ hist = [s \in IntradayNames |-> 0]
    BY DEF Intraday!Init, Intraday!Zero
  <2> QED
    BY <2>1 DEF SlotInv, FeedTypes, ClockInv, BarsAreIn, Watching
<1>2. SlotInv /\ [Intraday!Next]_(Intraday!vars) => SlotInv'
  BY SlotStep DEF Intraday!vars, Intraday!feedVars, Intraday!clockVars, Intraday!bookVars, intraVars
<1> QED
  BY <1>1, <1>2, PTL DEF Intraday!Spec

LEMMA LongsInvHolds ==
  ASSUME Intraday!GridAssumption
  PROVE  Intraday!Spec => []LongsInv
<1>1. Intraday!Init => LongsInv
  <2> SUFFICES ASSUME Intraday!Init PROVE Sound(Intraday!Book, owned)
    BY DEF LongsInv
  <2> DEFINE zero == [s \in IntradayNames |-> 0]
             e == [held |-> {}, pending |-> [s \in IntradayNames |-> ""], stops |-> {},
                   sizes |-> zero, live |-> zero]
  <2>1. Intraday!Book = e /\ owned = zero
    BY DEF Intraday!Init, Intraday!Book, Intraday!Zero, Intraday!Free
  <2>4. "" \in Kinds /\ 0 \in Nat /\ 0 \in Int
    BY DEF Kinds
  <2>2. e \in Books /\ zero \in [IntradayNames -> Nat]
    BY DEF Books, Kinds
  <2>3. ASSUME NEW s \in IntradayNames PROVE Agrees(e, s, zero[s])
    <3>1. e.pending[s] = "" /\ e.live[s] = 0 /\ s \notin e.held /\ zero[s] = 0
      OBVIOUS
    <3>2. ~(0 > 0)
      OBVIOUS
    <3> HIDE DEF e, zero
    <3> QED
      BY <3>1, <3>2, Zenon DEF Agrees
  <2> QED
    BY <2>1, <2>2, <2>3 DEF Sound
<1>2. LongsInv /\ [Intraday!Next]_(Intraday!vars) => LongsInv'
  BY LongsStep DEF Intraday!vars, Intraday!feedVars, Intraday!clockVars, Intraday!bookVars, intraVars
<1> QED
  BY <1>1, <1>2, PTL DEF Intraday!Spec

LEMMA TheIntradaySteps ==
  AllSpec => Intraday!Spec
<1>1. AllInit => Intraday!Init
  BY DEF AllInit
<1>2. [AllNext]_allVars => [Intraday!Next]_(Intraday!vars)
  BY DEF AllNext, TheMonthlyRunner, TheShortLane, TheSleeve, TheIntradayLane, TheRule, allVars,
         intraVars, Intraday!vars, Intraday!feedVars, Intraday!clockVars, Intraday!bookVars
<1> QED
  BY <1>1, <1>2, PTL DEF AllSpec, Intraday!Spec

(* A slot is decided on the bars of that slot: no name that printed one is *)
(* ranked by an older bar, in whatever order the names' bars come and over *)
(* restarts (on_bar of momentum_rotation/nautilus_intraday.py), for any    *)
(* names, grid and history.                                                *)
THEOREM SlotsSeeBars ==
  AllSpec => []SlotSeesItsBars
<1>1. Intraday!GridAssumption
  BY InstancesAssumption
<1>2. SlotInv => SlotSeesItsBars
  BY DEF SlotInv, SlotSeesItsBars, Intraday!SlotSeesItsBars
<1> QED
  BY <1>1, <1>2, SlotInvHolds, TheIntradaySteps, PTL

(* The intraday lane's book is what it owns, an exit is the whole          *)
(* position, an entry is of what is not held and no name has two orders,   *)
(* while orders are filled whole and the process restarts with none out    *)
(* (_open, _close, on_order_filled, _forget and on_start of                *)
(* momentum_rotation/nautilus_intraday.py), for any names, book and lot.   *)
THEOREM IntradayBookHolds ==
  AllSpec => []IntradayBookIsTrue
<1>1. Intraday!GridAssumption
  BY InstancesAssumption
<1>2. LongsInv => IntradayBookIsTrue
  <2> SUFFICES ASSUME Sound(Intraday!Book, owned), NEW s \in IntradayNames
               PROVE  /\ waits[s] = "" => out[s] = 0 /\ (s \in longs <=> owned[s] > 0)
                      /\ waits[s] = "exit" => s \in longs /\ out[s] = -owned[s] /\ owned[s] > 0
                      /\ waits[s] = "enter" => s \notin longs /\ out[s] > 0 /\ owned[s] = 0
    BY DEF LongsInv, Seldom, IntradayBookIsTrue, Intraday!IntradayBookIsTrue
  <2>1. Agrees(Intraday!Book, s, owned[s])
    BY DEF Sound
  <2>2. Intraday!Book = [held |-> longs, pending |-> waits, stops |-> stops, sizes |-> sizes, live |-> out]
    BY DEF Intraday!Book
  <2> QED
    BY <2>1, <2>2 DEF Agrees, NoOrder
<1> QED
  BY <1>1, <1>2, LongsInvHolds, TheIntradaySteps, PTL

-----------------------------------------------------------------------------
(* The sleeve and the template (SleeveLane).                               *)
SleeveTypes ==
  /\ price \in [Legs -> Nat \ {0}] /\ cash \in Int
  /\ shares \in [Legs -> Nat] /\ working \in [Legs -> Int]
  /\ pending \in [Legs -> Kinds] /\ held \subseteq Legs
  /\ alive \in BOOLEAN /\ unheard \subseteq Legs /\ row \in [Legs -> Nat]
  /\ claims \subseteq Legs \X Nat /\ (~alive => "restarts" \in vEnv)

(* A decision finds no order out, and only a runner that reserves has      *)
(* anything pending; an order is of the kind that is reserved.             *)
OutOfSession ==
  /\ open => task = Sleeve!NoTask
  /\ open \/ task # Sleeve!NoTask => working = Sleeve!Flat
  /\ ~reserves => pending = Sleeve!None
  /\ lane = "template" => reserves
Unreserved == {l \in Legs : pending[l] = ""}
KindsAgree ==
  \A l \in Legs \ Unreserved : working[l] = 0 \/ pending[l] = Sleeve!Kind(working[l])

(* The sleeve's book: what the cache shows, while it can be read; and of a *)
(* leg whose events were taken in, the claim is what is held or its write  *)
(* is on the way.  A process that is down has neither book nor writes.     *)
BookShows == alive /\ "blind" \notin vEnv => held = Sleeve!Shown
DownIsEmpty == ~alive => held = {} /\ claims = {}
LegKnown(l) ==
  /\ alive => (l \in held <=> shares[l] # 0)
  /\ \A q \in Nat : <<l, q>> \in claims => q = shares[l]
  /\ (\A q \in Nat : <<l, q>> \notin claims) => row[l] = shares[l]
LegsKnown == \A l \in Legs \ unheard : LegKnown(l)
SleeveBook == lane = "sleeve" => BookShows /\ DownIsEmpty /\ LegsKnown

(* The template, its orders filled whole where they were sent: what is     *)
(* reserved is out, and a sale is of the whole position.                   *)
TemplateBook ==
  lane = "template" /\ vEnv \cap {"parts", "restarts", "blind"} = {} =>
    /\ held = Sleeve!Shown
    /\ \A l \in Legs : l \in Unreserved <=> working[l] = 0
    /\ \A l \in Legs : working[l] < 0 => working[l] = -shares[l]

SleeveInv == SleeveTypes /\ OutOfSession /\ KindsAgree /\ SleeveBook /\ TemplateBook

LEMMA BookUnmoved ==
  ASSUME SleeveBook, UNCHANGED <<lane, vEnv, held, row, shares, alive, claims, unheard>>
  PROVE  SleeveBook'
  BY DEF SleeveBook, BookShows, DownIsEmpty, LegsKnown, LegKnown, Sleeve!Shown

(* A claim write of a leg on its way is the newest, and the only one.      *)
LEMMA SaysStep ==
  ASSUME SleeveTypes, NEW l \in Legs, shares' \in [Legs -> Nat], Sleeve!Says(l)
  PROVE  /\ claims' \subseteq Legs \X Nat
         /\ \A q \in Nat : <<l, q>> \in claims' <=> q = shares'[l]
         /\ \A k \in Legs \ {l}, q \in Nat : <<k, q>> \in claims' <=> <<k, q>> \in claims
<1>1. claims' = {w \in claims : w[1] # l} \cup {<<l, shares'[l]>>}
  BY DEF Sleeve!Says
<1>2. shares'[l] \in Nat /\ claims \subseteq Legs \X Nat
  BY DEF SleeveTypes
<1> QED
  BY <1>1, <1>2

(* An event that is taken in puts its leg right.                           *)
LEMMA TakenIn ==
  ASSUME SleeveTypes, SleeveBook, lane = "sleeve", alive, NEW l \in Legs,
         UNCHANGED <<lane, vEnv, row, alive>>, shares' \in [Legs -> Nat], held' \subseteq Legs,
         \A k \in Legs \ {l} : shares'[k] = shares[k] /\ (k \in held' <=> k \in held),
         l \in held' <=> shares'[l] # 0, Sleeve!Says(l), unheard' = unheard \ {l}
  PROVE  SleeveBook' /\ claims' \subseteq Legs \X Nat
<1>1. /\ claims' \subseteq Legs \X Nat
      /\ \A q \in Nat : <<l, q>> \in claims' <=> q = shares'[l]
      /\ \A k \in Legs \ {l}, q \in Nat : <<k, q>> \in claims' <=> <<k, q>> \in claims
  BY SaysStep
<1>2. BookShows'
  <2> SUFFICES ASSUME "blind" \notin vEnv PROVE held' = Sleeve!Shown'
    BY DEF BookShows
  <2>1. held = Sleeve!Shown
    BY DEF SleeveBook, BookShows
  <2>2. \A k \in Legs : k \in held' <=> shares'[k] # 0
    BY <2>1 DEF Sleeve!Shown
  <2> QED
    BY <2>2 DEF Sleeve!Shown
<1>3. DownIsEmpty'
  BY DEF DownIsEmpty
<1>4. ASSUME NEW k \in Legs \ unheard' PROVE LegKnown(k)'
  <2>1. CASE k = l
    <3>1. shares'[l] \in Nat
      OBVIOUS
    <3> QED
      BY <1>1, <2>1, <3>1 DEF LegKnown
  <2>2. CASE k # l
    <3>1. LegKnown(k)
      BY <2>2 DEF SleeveBook, LegsKnown
    <3> QED
      BY <1>1, <2>2, <3>1 DEF LegKnown
  <2> QED
    BY <2>1, <2>2
<1> QED
  BY <1>1, <1>2, <1>3, <1>4 DEF SleeveBook, LegsKnown

(* One that is not leaves its leg unheard.                                 *)
LEMMA Missed ==
  ASSUME SleeveTypes, SleeveBook, lane = "sleeve", ~alive \/ "blind" \in vEnv, NEW l \in Legs,
         UNCHANGED <<lane, vEnv, row, alive, held, claims>>, unheard' = unheard \cup {l},
         \A k \in Legs \ {l} : shares'[k] = shares[k]
  PROVE  SleeveBook'
<1>1. BookShows' /\ DownIsEmpty'
  BY DEF SleeveBook, BookShows, DownIsEmpty
<1>2. ASSUME NEW k \in Legs \ unheard' PROVE LegKnown(k)'
  BY <1>2 DEF SleeveBook, LegsKnown, LegKnown
<1> QED
  BY <1>1, <1>2 DEF SleeveBook, LegsKnown

(* The claim of a leg is stated again.                                     *)
LEMMA Restated ==
  ASSUME SleeveTypes, SleeveBook, lane = "sleeve", alive, NEW l \in Legs, Sleeve!Says(l),
         UNCHANGED <<lane, vEnv, row, alive, held, shares, unheard>>
  PROVE  SleeveBook' /\ claims' \subseteq Legs \X Nat
<1>1. /\ claims' \subseteq Legs \X Nat
      /\ \A q \in Nat : <<l, q>> \in claims' <=> q = shares'[l]
      /\ \A k \in Legs \ {l}, q \in Nat : <<k, q>> \in claims' <=> <<k, q>> \in claims
  BY SaysStep DEF SleeveTypes
<1>2. BookShows' /\ DownIsEmpty'
  BY DEF SleeveBook, BookShows, DownIsEmpty, Sleeve!Shown
<1>3. ASSUME NEW k \in Legs \ unheard' PROVE LegKnown(k)'
  <2>1. LegKnown(k) /\ shares[k] \in Nat
    BY <1>3 DEF SleeveBook, LegsKnown, SleeveTypes
  <2>2. CASE k = l
    BY <1>1, <2>1, <2>2 DEF LegKnown
  <2>3. CASE k # l
    BY <1>1, <2>1, <2>3 DEF LegKnown
  <2> QED
    BY <2>2, <2>3
<1> QED
  BY <1>1, <1>2, <1>3 DEF SleeveBook, LegsKnown

(* A write lands.                                                          *)
LEMMA LandsStep ==
  ASSUME SleeveInv, NEW w \in claims, Sleeve!Lands(w)
  PROVE  SleeveInv'
<1>1. /\ claims' = claims \ {w} /\ row' = [row EXCEPT ![w[1]] = w[2]]
      /\ UNCHANGED <<lane, vEnv, reserves, open, price, held, pending, shares, cash, working,
                     task, alive, unheard>>
  BY DEF Sleeve!Lands
<1>2. w[1] \in Legs /\ w[2] \in Nat /\ w = <<w[1], w[2]>> /\ row \in [Legs -> Nat]
  BY DEF SleeveInv, SleeveTypes
<1>3. SleeveTypes'
  BY <1>1, <1>2 DEF SleeveInv, SleeveTypes
<1>4. OutOfSession' /\ KindsAgree' /\ TemplateBook'
  <2>1. Unreserved' = Unreserved /\ Sleeve!Shown' = Sleeve!Shown
    BY <1>1 DEF Unreserved, Sleeve!Shown
  <2> QED
    BY <1>1, <2>1 DEF SleeveInv, OutOfSession, KindsAgree, TemplateBook, Sleeve!NoTask,
                      Sleeve!Flat, Sleeve!None
<1>5. SleeveBook'
  <2> SUFFICES ASSUME lane = "sleeve" PROVE BookShows' /\ DownIsEmpty' /\ LegsKnown'
    BY <1>1 DEF SleeveBook
  <2>1. BookShows' /\ DownIsEmpty'
    BY <1>1 DEF SleeveInv, SleeveBook, BookShows, DownIsEmpty, Sleeve!Shown
  <2>2. ASSUME NEW k \in Legs \ unheard' PROVE LegKnown(k)'
    <3>1. LegKnown(k)
      BY <1>1, <2>2 DEF SleeveInv, SleeveBook, LegsKnown
    <3>2. CASE k = w[1]
      <4>1. w[2] = shares[k] /\ <<k, w[2]>> \notin claims'
        BY <1>1, <1>2, <3>1, <3>2 DEF LegKnown
      <4>2. \A q \in Nat : <<k, q>> \notin claims'
        BY <1>1, <3>1, <4>1 DEF LegKnown
      <4>3. row'[k] = w[2]
        BY <1>1, <1>2, <3>2
      <4> QED
        BY <1>1, <3>1, <4>1, <4>2, <4>3 DEF LegKnown
    <3>3. CASE k # w[1]
      <4>1. \A q \in Nat : <<k, q>> \in claims' <=> <<k, q>> \in claims
        BY <1>1, <1>2, <3>3
      <4>2. row'[k] = row[k]
        BY <1>1, <1>2, <3>3
      <4> QED
        BY <1>1, <3>1, <4>1, <4>2 DEF LegKnown
    <3> QED
      BY <3>2, <3>3
  <2> QED
    BY <2>1, <2>2 DEF LegsKnown
<1> QED
  BY <1>3, <1>4, <1>5 DEF SleeveInv

LEMMA SleeveSum ==
  \A q, S : Sleeve!SumFunctionOnSet(q, S) = SumFunctionOnSet(q, S)
  BY DEF Sleeve!SumFunctionOnSet, Sleeve!FoldFunctionOnSet, Sleeve!MapThenFoldSet,
         SumFunctionOnSet, FoldFunctionOnSet, MapThenFoldSet

(* What holdings are worth, and the parts of a whole, are whole numbers.   *)
LEMMA ValueIsInt ==
  ASSUME Sleeve!WeightsAssumption, NEW q \in [Legs -> Int], NEW p \in [Legs -> Int]
  PROVE  Sleeve!Value(q, p) \in Int
<1> DEFINE worth == [l \in Legs |-> q[l] * p[l]]
<1>1. \A l \in Legs : worth[l] \in Int
  OBVIOUS
<1>2. IsFiniteSet(Legs)
  BY DEF Sleeve!WeightsAssumption, Sleeve!IsFiniteSet, IsFiniteSet
<1>3. Sleeve!Value(q, p) = SumFunctionOnSet(worth, Legs)
  BY SleeveSum DEF Sleeve!Value
<1> HIDE DEF worth
<1> QED
  BY <1>1, <1>2, <1>3, SumInt

LEMMA WholeIsPositive ==
  ASSUME Sleeve!WeightsAssumption, NEW l \in Legs
  PROVE  Sleeve!Whole \in Nat \ {0}
<1>1. IsFiniteSet(Legs) /\ Weight \in [Legs -> Nat \ {0}]
  BY DEF Sleeve!WeightsAssumption, Sleeve!IsFiniteSet, IsFiniteSet
<1>2. Sleeve!Whole = SumFunctionOnSet(Weight, Legs)
  BY SleeveSum DEF Sleeve!Whole
<1>3. \A k \in Legs : Weight[k] \in Nat /\ Weight[k] > 0
  BY <1>1
<1>4. SumFunctionOnSet(Weight, Legs) \in Nat /\ Weight[l] <= SumFunctionOnSet(Weight, Legs)
  BY <1>1, <1>3, SumNotNegative, PartOfSum
<1> QED
  BY <1>2, <1>3, <1>4

LEMMA Quotient ==
  ASSUME NEW a \in Nat, NEW d \in Nat \ {0}
  PROVE  /\ a \div d \in Nat /\ d * (a \div d) <= a /\ a < d * (a \div d) + d
         /\ a < d => a \div d = 0
  OBVIOUS

LEMMA PositiveProduct ==
  ASSUME NEW a \in Nat \ {0}, NEW b \in Nat \ {0}
  PROVE  a * b \in Nat \ {0}
  OBVIOUS

(* What a leg is over or short of its weight, and its lot, in parts.       *)
LEMMA LotIsPositive ==
  ASSUME Sleeve!WeightsAssumption, NEW l \in Legs, NEW p \in [Legs -> Nat \ {0}]
  PROVE  /\ Sleeve!Whole * p[l] \in Nat \ {0}
         /\ (Sleeve!Whole * p[l]) * SleeveLot \in Nat \ {0}
<1>1. Sleeve!Whole \in Nat \ {0} /\ p[l] \in Nat \ {0} /\ SleeveLot \in Nat \ {0}
  BY WholeIsPositive DEF Sleeve!WeightsAssumption
<1> QED
  BY <1>1, PositiveProduct

LEMMA DeltaIsInt ==
  ASSUME Sleeve!WeightsAssumption, NEW l \in Legs, NEW p \in [Legs -> Nat \ {0}],
         NEW q \in [Legs -> Int], NEW e \in Int
  PROVE  Sleeve!Delta(l, q, p, e) \in Int
<1> DEFINE over == Weight[l] * e - (q[l] * Sleeve!Whole) * p[l]
           lot == (Sleeve!Whole * p[l]) * SleeveLot
           k == Sleeve!Abs(over) \div lot
<1>1. Sleeve!Whole \in Nat /\ p[l] \in Nat /\ SleeveLot \in Nat /\ Weight[l] \in Nat
  BY WholeIsPositive DEF Sleeve!WeightsAssumption
<1>2. over \in Int
  BY <1>1
<1>3. lot \in Nat \ {0}
  BY LotIsPositive
<1> HIDE DEF over, lot
<1>4. Sleeve!Abs(over) \in Nat
  BY <1>2 DEF Sleeve!Abs
<1>5. k \in Nat
  BY <1>3, <1>4, Quotient
<1>6. Sleeve!Delta(l, q, p, e) = IF over > 0 THEN k * SleeveLot ELSE -(k * SleeveLot)
  BY DEF Sleeve!Delta, over, lot
<1> HIDE DEF k
<1> QED
  BY <1>1, <1>5, <1>6

LEMMA SleeveOrdersAreInt ==
  ASSUME Sleeve!WeightsAssumption, SleeveTypes, NEW regime
  PROVE  Sleeve!OrderPlan(regime, shares, price, Sleeve!Equity) \in [Legs -> Int]
<1>1. shares \in [Legs -> Int] /\ price \in [Legs -> Int] /\ cash \in Int
  BY DEF SleeveTypes
<1>2. Sleeve!Equity \in Int
  BY <1>1, ValueIsInt DEF Sleeve!Equity
<1>3. \A l \in Legs : Sleeve!Delta(l, shares, price, Sleeve!Equity) \in Int
  BY <1>1, <1>2, DeltaIsInt DEF SleeveTypes
<1> QED
  BY <1>3 DEF Sleeve!OrderPlan, Sleeve!Flat

LEMMA KindOf ==
  ASSUME NEW n
  PROVE  Sleeve!Kind(n) \in Kinds /\ Sleeve!Kind(n) # ""
  BY DEF Sleeve!Kind, Kinds

(* A runner's orders become what is out, and what is reserved.             *)
LEMMA SubmitStep ==
  ASSUME SleeveTypes, OutOfSession, task # Sleeve!NoTask, task' = Sleeve!NoTask,
         NEW orders \in [Legs -> Int], Sleeve!Submit(orders),
         UNCHANGED <<lane, vEnv, reserves, open, price, held, row, shares, cash, alive, claims, unheard>>
  PROVE  /\ SleeveTypes' /\ OutOfSession' /\ KindsAgree' /\ working' = orders
         /\ reserves /\ Unreserved = Legs => \A l \in Legs : l \in Unreserved' <=> orders[l] = 0
<1>1. ~open /\ working = Sleeve!Flat
  BY DEF OutOfSession
<1>2. working' = orders
  BY <1>1 DEF Sleeve!Submit, Sleeve!Flat
<1>3. CASE ~reserves
  <2>1. pending' = pending /\ pending = Sleeve!None /\ ~reserves'
    BY <1>3 DEF Sleeve!Submit, OutOfSession
  <2>2. Unreserved' = Legs
    BY <2>1 DEF Unreserved, Sleeve!None
  <2> QED
    BY <1>1, <1>2, <1>3, <2>1, <2>2 DEF SleeveTypes, OutOfSession, KindsAgree
<1>4. CASE reserves
  <2>1. pending' = [l \in Legs |-> IF orders[l] = 0 THEN pending[l] ELSE Sleeve!Kind(orders[l])]
    BY <1>4 DEF Sleeve!Submit
  <2>2. pending' \in [Legs -> Kinds]
    BY <2>1, KindOf DEF SleeveTypes
  <2>3. \A l \in Legs : orders[l] # 0 => pending'[l] = Sleeve!Kind(orders[l]) /\ l \notin Unreserved'
    BY <2>1, KindOf DEF Unreserved
  <2>4. \A l \in Legs : orders[l] = 0 => (l \in Unreserved' <=> l \in Unreserved)
    BY <2>1 DEF Unreserved
  <2> QED
    BY <1>1, <1>2, <1>4, <2>2, <2>3, <2>4 DEF SleeveTypes, OutOfSession, KindsAgree
<1> QED
  BY <1>3, <1>4

LEMMA RunsStep ==
  ASSUME Sleeve!WeightsAssumption, SleeveInv, Sleeve!SleeveRuns \/ Sleeve!TemplateRuns
  PROVE  SleeveInv'
<1>1. CASE Sleeve!SleeveRuns
  <2>1. PICK orders \in [Legs -> Int] :
          /\ Sleeve!Submit(orders) /\ task # Sleeve!NoTask /\ task' = Sleeve!NoTask
          /\ UNCHANGED <<lane, vEnv, reserves, open, price, held, row, shares, cash, alive, claims, unheard>>
    BY <1>1, SleeveOrdersAreInt DEF Sleeve!SleeveRuns, Sleeve!known, SleeveInv
  <2>2. SleeveTypes' /\ OutOfSession' /\ KindsAgree'
    BY <2>1, SubmitStep DEF SleeveInv
  <2>3. lane = "sleeve"
    BY <1>1 DEF Sleeve!SleeveRuns
  <2>4. SleeveBook'
    BY <2>1, BookUnmoved DEF SleeveInv
  <2> QED
    BY <2>1, <2>2, <2>3, <2>4 DEF SleeveInv, TemplateBook
<1>2. CASE Sleeve!TemplateRuns
  <2>1. lane = "template" /\ task # Sleeve!NoTask /\ task' = Sleeve!NoTask
        /\ UNCHANGED <<lane, vEnv, reserves, open, price, held, row, shares, cash, alive, claims, unheard>>
    BY <1>2 DEF Sleeve!TemplateRuns, Sleeve!known
  <2>2. PICK want \in SUBSET Legs :
          Sleeve!Submit([l \in Legs |->
            IF l \in Sleeve!Shown \ want THEN -shares[l]
            ELSE IF l \in want \ Sleeve!Shown /\ Sleeve!Equity > 0
                 THEN (Sleeve!Equity \div Size) \div price[l] ELSE 0])
    BY <1>2 DEF Sleeve!TemplateRuns
  <2> DEFINE orders == [l \in Legs |->
                          IF l \in Sleeve!Shown \ want THEN -shares[l]
                          ELSE IF l \in want \ Sleeve!Shown /\ Sleeve!Equity > 0
                               THEN (Sleeve!Equity \div Size) \div price[l] ELSE 0]
  <2>3. ASSUME NEW l \in Legs
        PROVE  orders[l] \in Int /\ (orders[l] < 0 => orders[l] = -shares[l])
    <3>1. shares[l] \in Nat /\ price[l] \in Nat \ {0} /\ Size \in Nat \ {0}
      BY DEF SleeveInv, SleeveTypes, Sleeve!WeightsAssumption
    <3>2. CASE Sleeve!Equity > 0
      <4>1. Sleeve!Equity \in Nat
        <5>1. shares \in [Legs -> Int] /\ price \in [Legs -> Int] /\ cash \in Int
          BY DEF SleeveInv, SleeveTypes
        <5> QED
          BY <3>2, <5>1, ValueIsInt DEF Sleeve!Equity
      <4>2. (Sleeve!Equity \div Size) \div price[l] \in Nat
        BY <3>1, <4>1, Quotient
      <4> QED
        BY <3>1, <4>2
    <3>3. CASE ~(Sleeve!Equity > 0)
      BY <3>1, <3>3
    <3> QED
      BY <3>2, <3>3
  <2>4. orders \in [Legs -> Int] /\ Sleeve!Submit(orders)
    BY <2>2, <2>3
  <2> HIDE DEF orders
  <2>5. /\ SleeveTypes' /\ OutOfSession' /\ KindsAgree' /\ working' = orders
        /\ reserves /\ Unreserved = Legs => \A l \in Legs : l \in Unreserved' <=> orders[l] = 0
    BY <2>1, <2>4, SubmitStep DEF SleeveInv
  <2>6. reserves /\ working = Sleeve!Flat
    BY <2>1 DEF SleeveInv, OutOfSession
  <2>7. TemplateBook'
    <3> SUFFICES ASSUME vEnv \cap {"parts", "restarts", "blind"} = {} PROVE TemplateBook'
      BY <2>1 DEF TemplateBook
    <3>1. held = Sleeve!Shown /\ \A l \in Legs : l \in Unreserved <=> working[l] = 0
      BY <2>1 DEF SleeveInv, TemplateBook
    <3>2. Unreserved = Legs
      BY <2>6, <3>1 DEF Unreserved, Sleeve!Flat
    <3>3. held' = Sleeve!Shown'
      BY <2>1, <3>1 DEF Sleeve!Shown
    <3> QED
      BY <2>1, <2>3, <2>5, <2>6, <3>2, <3>3 DEF TemplateBook
  <2> QED
    BY <2>1, <2>5, <2>7 DEF SleeveInv, SleeveBook
<1> QED
  BY <1>1, <1>2

(* A fill is of the kind of its order, and so is what is left.             *)
LEMMA FillIsOfItsOrder ==
  ASSUME NEW w \in Int, w # 0, NEW n \in Sleeve!Sizes(w)
  PROVE  LET signed == IF w > 0 THEN n ELSE -n
         IN  /\ n \in Nat \ {0} /\ signed \in Int /\ Sleeve!Kind(signed) = Sleeve!Kind(w)
             /\ w - signed = 0 \/ Sleeve!Kind(w - signed) = Sleeve!Kind(w)
             /\ "parts" \notin vEnv => signed = w
<1>1. Sleeve!Abs(w) \in Nat \ {0} /\ Sleeve!Abs(w) = IF w > 0 THEN w ELSE -w
  BY DEF Sleeve!Abs
<1>2. n \in 1..Sleeve!Abs(w) /\ ("parts" \notin vEnv => n = Sleeve!Abs(w))
  BY <1>1 DEF Sleeve!Sizes
<1> QED
  BY <1>1, <1>2 DEF Sleeve!Kind

LEMMA FilledStep ==
  ASSUME SleeveInv, NEW l \in Legs, Sleeve!Filled(l)
  PROVE  SleeveInv'
<1> DEFINE w == working[l]
<1>1. PICK n \in Sleeve!Sizes(w) :
        LET signed == IF w > 0 THEN n ELSE -n
        IN  /\ signed < 0 => shares[l] >= n
            /\ working' = [working EXCEPT ![l] = @ - signed]
            /\ shares' = [shares EXCEPT ![l] = @ + signed]
            /\ cash' = cash - signed * price[l]
            /\ IF lane = "sleeve" THEN Sleeve!SleeveFilled(l, signed)
               ELSE Sleeve!TemplateFilled(l, signed)
  BY DEF Sleeve!Filled
<1> DEFINE signed == IF w > 0 THEN n ELSE -n
<1>2. /\ w # 0 /\ w \in Int /\ shares[l] \in Nat
      /\ UNCHANGED <<lane, vEnv, reserves, open, price, task, row, alive>>
  BY DEF Sleeve!Filled, SleeveInv, SleeveTypes
<1>3. /\ n \in Nat \ {0} /\ signed \in Int /\ Sleeve!Kind(signed) = Sleeve!Kind(w)
      /\ w - signed = 0 \/ Sleeve!Kind(w - signed) = Sleeve!Kind(w)
      /\ "parts" \notin vEnv => signed = w
  BY <1>2, FillIsOfItsOrder
<1>4. shares[l] + signed \in Nat
  BY <1>1, <1>2, <1>3
<1>5. /\ working' = [working EXCEPT ![l] = w - signed]
      /\ shares' = [shares EXCEPT ![l] = shares[l] + signed]
      /\ cash' \in Int
      /\ IF lane = "sleeve" THEN Sleeve!SleeveFilled(l, signed) ELSE Sleeve!TemplateFilled(l, signed)
  <2>1. price[l] \in Int /\ cash \in Int
    BY DEF SleeveInv, SleeveTypes
  <2>2. signed * price[l] \in Int
    BY <1>3, <2>1
  <2>3. cash' = cash - signed * price[l]
    BY <1>1
  <2> HIDE DEF signed
  <2>4. cash' \in Int
    BY <2>1, <2>2, <2>3
  <2> QED
    BY <1>1, <2>4 DEF signed
<1> HIDE DEF signed
<1>6. /\ working' \in [Legs -> Int] /\ working'[l] = w - signed
      /\ \A k \in Legs \ {l} : working'[k] = working[k]
      /\ shares' \in [Legs -> Nat] /\ shares'[l] = shares[l] + signed
      /\ \A k \in Legs \ {l} : shares'[k] = shares[k]
  BY <1>2, <1>3, <1>4, <1>5 DEF SleeveInv, SleeveTypes
<1>7. Sleeve!Completes(pending[l], signed)
  BY <1>2, <1>3 DEF SleeveInv, KindsAgree, Unreserved, Sleeve!Completes
<1>8. ~open /\ task = Sleeve!NoTask
  BY <1>2 DEF SleeveInv, OutOfSession, Sleeve!Flat
<1>9. pending' = [pending EXCEPT ![l] = ""] \/ pending' = pending
  BY <1>5, <1>7 DEF Sleeve!SleeveFilled, Sleeve!TemplateFilled, Sleeve!Misses
<1>10. /\ pending' \in [Legs -> Kinds] /\ pending'[l] \in {"", pending[l]}
       /\ pending' = [pending EXCEPT ![l] = ""] => Unreserved' = Unreserved \cup {l}
       /\ \A k \in Legs \ {l} : pending'[k] = pending[k]
  <2>1. pending \in [Legs -> Kinds] /\ "" \in Kinds
    BY DEF SleeveInv, SleeveTypes, Kinds
  <2> QED
    BY <1>9, <2>1 DEF Unreserved
<1>11. OutOfSession'
  <2>1. ~reserves => pending' = Sleeve!None
    BY <1>9 DEF SleeveInv, OutOfSession, Sleeve!None
  <2> QED
    BY <1>2, <1>8, <2>1 DEF SleeveInv, OutOfSession, Sleeve!None
<1>12. KindsAgree'
  <2> SUFFICES ASSUME NEW k \in Legs, pending'[k] # ""
               PROVE  working'[k] = 0 \/ pending'[k] = Sleeve!Kind(working'[k])
    BY DEF KindsAgree, Unreserved
  <2>1. pending'[k] = pending[k] /\ pending[k] # ""
    BY <1>10
  <2>2. working[k] = 0 \/ pending[k] = Sleeve!Kind(working[k])
    BY <2>1 DEF SleeveInv, KindsAgree, Unreserved
  <2>3. CASE k = l
    BY <1>2, <1>3, <1>6, <2>1, <2>2, <2>3
  <2>4. CASE k # l
    BY <1>6, <2>1, <2>2, <2>4
  <2> QED
    BY <2>3, <2>4
<1>13. CASE lane = "sleeve"
  <2>1. \/ /\ alive /\ held' = Sleeve!BookByQty(l, shares'[l])
           /\ Sleeve!Says(l) /\ unheard' = unheard \ {l}
        \/ (~alive \/ "blind" \in vEnv) /\ Sleeve!Misses(l)
    BY <1>5, <1>7, <1>13 DEF Sleeve!SleeveFilled
  <2>2. SleeveTypes /\ SleeveBook
    BY DEF SleeveInv
  <2>5. SleeveBook' /\ held' \subseteq Legs /\ unheard' \subseteq Legs /\ claims' \subseteq Legs \X Nat
    <3>1. CASE /\ alive /\ held' = Sleeve!BookByQty(l, shares'[l])
               /\ Sleeve!Says(l) /\ unheard' = unheard \ {l}
      <4>1. /\ held' \subseteq Legs /\ (l \in held' <=> shares'[l] # 0)
            /\ \A k \in Legs \ {l} : k \in held' <=> k \in held
        BY <2>2, <3>1 DEF Sleeve!BookByQty, SleeveTypes
      <4>2. SleeveBook' /\ claims' \subseteq Legs \X Nat
        BY <1>2, <1>6, <1>13, <2>2, <3>1, <4>1, TakenIn
      <4>3. unheard' \subseteq Legs
        BY <2>2, <3>1 DEF SleeveTypes
      <4> QED
        BY <4>1, <4>2, <4>3
    <3>2. CASE (~alive \/ "blind" \in vEnv) /\ Sleeve!Misses(l)
      <4>1. UNCHANGED <<held, claims>> /\ unheard' = unheard \cup {l}
        BY <3>2 DEF Sleeve!Misses
      <4>2. SleeveBook'
        BY <1>2, <1>6, <1>13, <2>2, <3>2, <4>1, Missed
      <4> QED
        BY <2>2, <4>1, <4>2 DEF SleeveTypes
    <3> QED
      BY <2>1, <3>1, <3>2
  <2>6. SleeveTypes'
    BY <1>2, <1>5, <1>6, <1>10, <2>2, <2>5 DEF SleeveTypes
  <2>7. TemplateBook'
    BY <1>2, <1>13 DEF TemplateBook
  <2> QED
    BY <1>11, <1>12, <2>5, <2>6, <2>7 DEF SleeveInv
<1>14. CASE lane # "sleeve"
  <2>1. /\ UNCHANGED <<claims, unheard>>
        /\ IF alive
           THEN /\ pending' = [pending EXCEPT ![l] = ""]
                /\ held' = IF pending[l] = "exit" THEN held \ {l} ELSE held \cup {l}
           ELSE UNCHANGED <<pending, held>>
    BY <1>5, <1>7, <1>14 DEF Sleeve!TemplateFilled, Sleeve!BookByIntent
  <2>2. ASSUME lane = "template", vEnv \cap {"parts", "restarts", "blind"} = {}
        PROVE  /\ held' = Sleeve!Shown'
               /\ \A k \in Legs : k \in Unreserved' <=> working'[k] = 0
               /\ \A k \in Legs : working'[k] < 0 => working'[k] = -shares'[k]
    <3>1. /\ held = Sleeve!Shown
          /\ \A k \in Legs : k \in Unreserved <=> working[k] = 0
          /\ \A k \in Legs : working[k] < 0 => working[k] = -shares[k]
      BY <2>2 DEF SleeveInv, TemplateBook
    <3>2. signed = w
      BY <1>3, <2>2
    <3>3. working'[l] = 0
      BY <1>2, <1>6, <3>2
    <3>4. pending[l] = Sleeve!Kind(w)
      BY <1>2, <3>1 DEF SleeveInv, KindsAgree
    <3>5. pending[l] = "exit" <=> shares'[l] = 0
      <4>1. CASE w > 0
        <5>1. pending[l] # "exit"
          BY <3>4, <4>1 DEF Sleeve!Kind
        <5>2. shares'[l] # 0
          BY <1>2, <1>6, <3>2, <4>1
        <5> QED
          BY <5>1, <5>2
      <4>2. CASE w < 0
        <5>1. pending[l] = "exit"
          BY <1>2, <3>4, <4>2 DEF Sleeve!Kind
        <5>2. shares'[l] = 0
          BY <1>2, <1>6, <3>1, <3>2, <4>2
        <5> QED
          BY <5>1, <5>2
      <4> QED
        BY <1>2, <4>1, <4>2
    <3>7. alive
      BY <2>2 DEF SleeveInv, SleeveTypes
    <3>6. held' = Sleeve!Shown'
      BY <1>6, <2>1, <3>1, <3>5, <3>7 DEF Sleeve!Shown
    <3>8. Unreserved' = Unreserved \cup {l}
      BY <1>10, <2>1, <3>7
    <3> QED
      BY <1>6, <3>1, <3>3, <3>6, <3>8
  <2>3. held' \subseteq Legs
    BY <2>1 DEF SleeveInv, SleeveTypes
  <2>4. SleeveTypes'
    BY <1>2, <1>5, <1>6, <1>10, <2>1, <2>3 DEF SleeveInv, SleeveTypes
  <2>5. SleeveBook'
    BY <1>2, <1>14 DEF SleeveBook
  <2>6. TemplateBook'
    BY <1>2, <2>2 DEF TemplateBook
  <2> QED
    BY <1>11, <1>12, <2>4, <2>5, <2>6 DEF SleeveInv
<1> QED
  BY <1>13, <1>14

LEMMA OrderEnds ==
  ASSUME SleeveInv, NEW l \in Legs, Sleeve!Refused(l) \/ Sleeve!Lapsed(l)
  PROVE  SleeveInv'
<1>1. /\ working[l] # 0 /\ working' = [working EXCEPT ![l] = 0]
      /\ UNCHANGED <<lane, vEnv, reserves, open, price, held, shares, cash, task, row, alive,
                     unheard>>
      /\ claims' = claims \/ (lane = "sleeve" /\ alive /\ Sleeve!Says(l))
  BY DEF Sleeve!Refused, Sleeve!Lapsed, Sleeve!known
<1>9. \/ pending' = pending /\ lane # "template"
      \/ pending' = [pending EXCEPT ![l] = ""]
  <2>1. CASE Sleeve!Refused(l)
    BY <2>1 DEF Sleeve!Refused
  <2>2. CASE Sleeve!Lapsed(l)
    BY <2>2 DEF Sleeve!Lapsed
  <2> QED
    BY <2>1, <2>2
<1>2. /\ working' \in [Legs -> Int] /\ working'[l] = 0
      /\ \A k \in Legs \ {l} : working'[k] = working[k]
  BY <1>1 DEF SleeveInv, SleeveTypes
<1>3. pending' \in [Legs -> Kinds] /\ \A k \in Legs \ {l} : pending'[k] = pending[k]
  <2>1. pending \in [Legs -> Kinds] /\ "" \in Kinds
    BY DEF SleeveInv, SleeveTypes, Kinds
  <2> QED
    BY <1>9, <2>1
<1>4. Unreserved' = Unreserved \/ Unreserved' = Unreserved \cup {l}
  BY <1>9 DEF SleeveInv, SleeveTypes, Unreserved
<1>5. OutOfSession'
  <2>1. ~open /\ task = Sleeve!NoTask
    BY <1>1 DEF SleeveInv, OutOfSession, Sleeve!Flat
  <2>2. ~reserves => pending' = Sleeve!None
    BY <1>9 DEF SleeveInv, OutOfSession, Sleeve!None
  <2> QED
    BY <1>1, <2>1, <2>2 DEF SleeveInv, OutOfSession, Sleeve!None
<1>6. KindsAgree'
  BY <1>2, <1>3, <1>4 DEF SleeveInv, KindsAgree
<1>7. SleeveBook' /\ claims' \subseteq Legs \X Nat
  <2>1. SleeveTypes /\ SleeveBook
    BY DEF SleeveInv
  <2>2. CASE claims' = claims
    <3>1. SleeveBook'
      BY <1>1, <2>1, <2>2, BookUnmoved
    <3> QED
      BY <2>1, <2>2, <3>1 DEF SleeveTypes
  <2>3. CASE lane = "sleeve" /\ alive /\ Sleeve!Says(l)
    BY <1>1, <2>1, <2>3, Restated
  <2> QED
    BY <1>1, <2>2, <2>3
<1>8. TemplateBook'
  <2> SUFFICES ASSUME lane = "template", vEnv \cap {"parts", "restarts", "blind"} = {}
               PROVE  /\ held' = Sleeve!Shown'
                      /\ \A k \in Legs : k \in Unreserved' <=> working'[k] = 0
                      /\ \A k \in Legs : working'[k] < 0 => working'[k] = -shares'[k]
    BY <1>1 DEF TemplateBook
  <2>1. Unreserved' = Unreserved \cup {l}
    BY <1>9 DEF SleeveInv, SleeveTypes, Unreserved
  <2>2. held' = Sleeve!Shown'
    BY <1>1 DEF SleeveInv, TemplateBook, Sleeve!Shown
  <2>3. /\ \A k \in Legs : k \in Unreserved <=> working[k] = 0
        /\ \A k \in Legs : working[k] < 0 => working[k] = -shares[k]
    BY DEF SleeveInv, TemplateBook
  <2> QED
    BY <1>1, <1>2, <2>1, <2>2, <2>3
<1> QED
  BY <1>1, <1>2, <1>3, <1>5, <1>6, <1>7, <1>8 DEF SleeveInv, SleeveTypes

LEMMA StopStep ==
  ASSUME SleeveInv, NEW l \in Legs, Sleeve!StopFills(l)
  PROVE  SleeveInv'
<1>1. PICK left \in 0..(shares[l] - 1) :
        /\ shares' = [shares EXCEPT ![l] = left]
        /\ cash' = cash + (shares[l] - left) * price[l]
        /\ \/ /\ alive
              /\ held' = IF left = 0 THEN held \ {l} ELSE held
              /\ pending' = IF l \in held /\ left = 0 THEN [pending EXCEPT ![l] = ""] ELSE pending
              /\ IF l \in held /\ lane = "sleeve" THEN Sleeve!Says(l) /\ unheard' = unheard \ {l}
                 ELSE UNCHANGED <<claims, unheard>>
           \/ (~alive \/ "blind" \in vEnv) /\ Sleeve!Misses(l)
  BY DEF Sleeve!StopFills
<1>2. /\ shares[l] > 0 /\ working[l] = 0 /\ shares[l] \in Nat /\ left \in Nat
      /\ UNCHANGED <<lane, vEnv, reserves, open, price, working, task, row, alive>>
  <2>1. /\ shares[l] > 0 /\ working[l] = 0
        /\ UNCHANGED <<lane, vEnv, reserves, open, price, working, task, row, alive>>
    BY DEF Sleeve!StopFills
  <2>2. shares[l] \in Nat
    BY DEF SleeveInv, SleeveTypes
  <2>3. left \in 0..(shares[l] - 1)
    OBVIOUS
  <2> QED
    BY <2>1, <2>2, <2>3
<1>12. shares' = [shares EXCEPT ![l] = left] /\ cash' = cash + (shares[l] - left) * price[l]
  BY <1>1
<1>3. cash' \in Int
  <2>1. price[l] \in Int /\ cash \in Int /\ shares[l] - left \in Int
    BY <1>2 DEF SleeveInv, SleeveTypes
  <2>2. (shares[l] - left) * price[l] \in Int
    BY <2>1
  <2> QED
    BY <1>12, <2>1, <2>2
<1>4. /\ shares' \in [Legs -> Nat] /\ shares'[l] = left
      /\ \A k \in Legs \ {l} : shares'[k] = shares[k]
  BY <1>2, <1>12 DEF SleeveInv, SleeveTypes
<1>5. /\ pending' \in [Legs -> Kinds] /\ \A k \in Legs \ {l} : pending'[k] = pending[k]
      /\ held' \subseteq Legs
      /\ \/ pending' = pending
         \/ pending' = [pending EXCEPT ![l] = ""]
  <2>1. pending \in [Legs -> Kinds] /\ "" \in Kinds /\ held \subseteq Legs
    BY DEF SleeveInv, SleeveTypes, Kinds
  <2> QED
    BY <1>1, <2>1 DEF Sleeve!Misses
<1>6. Unreserved' = Unreserved \/ Unreserved' = Unreserved \cup {l}
  BY <1>5 DEF SleeveInv, SleeveTypes, Unreserved
<1>7. OutOfSession'
  <2>1. ~reserves => pending' = Sleeve!None
    BY <1>5 DEF SleeveInv, OutOfSession, Sleeve!None
  <2> QED
    BY <1>2, <2>1 DEF SleeveInv, OutOfSession, Sleeve!None, Sleeve!Flat
<1>8. KindsAgree'
  BY <1>2, <1>5, <1>6 DEF SleeveInv, KindsAgree
<1>9. /\ unheard' \subseteq Legs /\ claims' \subseteq Legs \X Nat
      /\ \A k \in Legs \ {l} : k \in held' <=> k \in held
  <2>1. unheard \subseteq Legs /\ claims \subseteq Legs \X Nat
    BY DEF SleeveInv, SleeveTypes
  <2>2. Sleeve!Says(l) => claims' \subseteq Legs \X Nat
    BY <1>4, SaysStep DEF SleeveInv
  <2> QED
    BY <1>1, <2>1, <2>2 DEF Sleeve!Misses
<1>10. SleeveBook'
  <2>1. SleeveTypes /\ SleeveBook
    BY DEF SleeveInv
  <2>2. CASE lane # "sleeve"
    BY <1>2, <2>2 DEF SleeveBook
  <2>3. CASE lane = "sleeve" /\ alive /\ l \in held /\ Sleeve!Says(l) /\ unheard' = unheard \ {l}
             /\ held' = IF left = 0 THEN held \ {l} ELSE held
    <3>1. l \in held' <=> shares'[l] # 0
      BY <1>4, <2>3
    <3> QED
      BY <1>2, <1>4, <1>5, <1>9, <2>1, <2>3, <3>1, TakenIn
  <2>4. CASE lane = "sleeve" /\ alive /\ l \notin held /\ UNCHANGED <<claims, unheard>>
             /\ held' = IF left = 0 THEN held \ {l} ELSE held
    <3>1. l \in unheard /\ "blind" \in vEnv
      BY <1>2, <2>1, <2>4 DEF SleeveBook, BookShows, LegsKnown, LegKnown, Sleeve!Shown
    <3>2. held' = held /\ unheard' = unheard \cup {l}
      BY <2>4, <3>1
    <3> QED
      BY <1>2, <1>4, <2>1, <2>4, <3>1, <3>2, Missed
  <2>5. CASE lane = "sleeve" /\ (~alive \/ "blind" \in vEnv) /\ Sleeve!Misses(l)
    <3>1. UNCHANGED <<held, claims>> /\ unheard' = unheard \cup {l}
      BY <2>5 DEF Sleeve!Misses
    <3> QED
      BY <1>2, <1>4, <2>1, <2>5, <3>1, Missed
  <2> QED
    BY <1>1, <2>2, <2>3, <2>4, <2>5
<1>11. TemplateBook'
  <2> SUFFICES ASSUME lane = "template", vEnv \cap {"parts", "restarts", "blind"} = {}
               PROVE  /\ held' = Sleeve!Shown'
                      /\ \A k \in Legs : k \in Unreserved' <=> working'[k] = 0
                      /\ \A k \in Legs : working'[k] < 0 => working'[k] = -shares'[k]
    BY <1>2 DEF TemplateBook
  <2>1. /\ held = Sleeve!Shown
        /\ \A k \in Legs : k \in Unreserved <=> working[k] = 0
        /\ \A k \in Legs : working[k] < 0 => working[k] = -shares[k]
    BY DEF SleeveInv, TemplateBook
  <2>2. Unreserved' = Unreserved
    BY <1>2, <1>6, <2>1
  <2>3. alive /\ "blind" \notin vEnv
    BY DEF SleeveInv, SleeveTypes
  <2>6. l \in held
    BY <1>2, <2>1 DEF Sleeve!Shown
  <2>4. held' = IF left = 0 THEN held \ {l} ELSE held
    BY <1>1, <2>3
  <2>5. held' = Sleeve!Shown'
    BY <1>4, <2>1, <2>4, <2>6 DEF Sleeve!Shown
  <2> QED
    BY <1>2, <1>4, <2>1, <2>2, <2>5
<1> QED
  BY <1>2, <1>3, <1>4, <1>5, <1>7, <1>8, <1>9, <1>10, <1>11 DEF SleeveInv, SleeveTypes

(* The clock, the panel and a new process.                                 *)
LEMMA SessionSteps ==
  ASSUME Sleeve!WeightsAssumption, SleeveInv,
         \/ Sleeve!SessionAlert \/ Sleeve!PriceMoves \/ Sleeve!NextDay \/ Sleeve!Dies
         \/ Sleeve!Starts \/ UNCHANGED sleeveVars
         \/ \E l \in Legs : Sleeve!Ingest(l)
  PROVE  SleeveInv'
<1>0. Sleeve!Shown \subseteq Legs
  BY DEF Sleeve!Shown
<1>1. CASE Sleeve!Dies
  <2>1. /\ held' = {} /\ pending' = Sleeve!None /\ task' = Sleeve!NoTask /\ "restarts" \in vEnv
        /\ alive' = FALSE /\ claims' = {} /\ unheard' = unheard \cup {w[1] : w \in claims}
        /\ UNCHANGED <<lane, vEnv, reserves, open, price, row, shares, cash, working>>
    BY <1>1 DEF Sleeve!Dies
  <2>2. pending' \in [Legs -> Kinds] /\ Unreserved' = Legs
    BY <2>1 DEF Sleeve!None, Unreserved, Kinds
  <2>3. {w[1] : w \in claims} \subseteq Legs
    BY DEF SleeveInv, SleeveTypes
  <2>4. SleeveTypes' /\ KindsAgree'
    BY <2>1, <2>2, <2>3 DEF SleeveInv, SleeveTypes, KindsAgree
  <2>5. OutOfSession'
    BY <2>1 DEF SleeveInv, OutOfSession, Sleeve!NoTask, Sleeve!Flat, Sleeve!None
  <2>6. SleeveBook'
    <3> SUFFICES ASSUME lane = "sleeve" PROVE BookShows' /\ DownIsEmpty' /\ LegsKnown'
      BY <2>1 DEF SleeveBook
    <3>1. BookShows' /\ DownIsEmpty'
      BY <2>1 DEF BookShows, DownIsEmpty
    <3>2. ASSUME NEW l \in Legs \ unheard' PROVE LegKnown(l)'
      <4>1. l \in Legs \ unheard /\ \A q \in Nat : <<l, q>> \notin claims
        BY <2>1, <3>2
      <4>2. LegKnown(l)
        BY <4>1 DEF SleeveInv, SleeveBook, LegsKnown
      <4> QED
        BY <2>1, <4>1, <4>2 DEF LegKnown
    <3> QED
      BY <3>1, <3>2 DEF LegsKnown
  <2>7. TemplateBook'
    BY <2>1 DEF TemplateBook
  <2> QED
    BY <2>4, <2>5, <2>6, <2>7 DEF SleeveInv
<1>3. CASE Sleeve!Starts
  <2>1. /\ ~alive /\ alive' = TRUE /\ open' \in {open, FALSE}
        /\ UNCHANGED <<lane, vEnv, reserves, price, pending, row, shares, cash, working, task, claims>>
        /\ \/ held' = Sleeve!Shown /\ UNCHANGED unheard
           \/ "blind" \in vEnv /\ unheard' = unheard \cup Sleeve!Shown /\ UNCHANGED held
    BY <1>3 DEF Sleeve!Starts
  <2>2. Unreserved' = Unreserved /\ Sleeve!Shown' = Sleeve!Shown
    BY <2>1 DEF Unreserved, Sleeve!Shown
  <2>3. SleeveTypes' /\ KindsAgree'
    <3>1. held' \subseteq Legs /\ unheard' \subseteq Legs
      BY <1>0, <2>1 DEF SleeveInv, SleeveTypes
    <3>2. SleeveTypes'
      BY <2>1, <3>1 DEF SleeveInv, SleeveTypes
    <3>3. KindsAgree'
      BY <2>1, <2>2 DEF SleeveInv, KindsAgree
    <3> QED
      BY <3>2, <3>3
  <2>4. OutOfSession'
    <3>3. open' = open \/ open' = FALSE
      BY <2>1
    <3>4. open' => open
      <4>1. CASE open' = open
        BY <4>1
      <4>2. CASE open' = FALSE
        BY <4>2
      <4> QED
        BY <3>3, <4>1, <4>2
    <3>1. (open' => open) /\ UNCHANGED <<lane, reserves, pending, working, task>>
      BY <2>1, <3>4
    <3>2. Sleeve!NoTask' = Sleeve!NoTask /\ Sleeve!Flat' = Sleeve!Flat /\ Sleeve!None' = Sleeve!None
      BY DEF Sleeve!NoTask, Sleeve!Flat, Sleeve!None
    <3> QED
      BY <3>1, <3>2 DEF SleeveInv, OutOfSession
  <2>5. SleeveBook'
    <3> SUFFICES ASSUME lane = "sleeve" PROVE BookShows' /\ DownIsEmpty' /\ LegsKnown'
      BY <2>1 DEF SleeveBook
    <3>1. BookShows' /\ DownIsEmpty'
      BY <2>1, <2>2 DEF BookShows, DownIsEmpty
    <3>2. ASSUME NEW l \in Legs \ unheard' PROVE LegKnown(l)'
      <4>1. LegKnown(l)
        BY <2>1, <3>2 DEF SleeveInv, SleeveBook, LegsKnown
      <4>2. l \in held' <=> shares[l] # 0
        <5>1. CASE held' = Sleeve!Shown
          BY <3>2, <5>1 DEF Sleeve!Shown
        <5>2. CASE unheard' = unheard \cup Sleeve!Shown /\ UNCHANGED held
          <6>1. held = {}
            BY <2>1 DEF SleeveInv, SleeveBook, DownIsEmpty
          <6>2. l \notin Sleeve!Shown
            BY <3>2, <5>2
          <6> QED
            BY <3>2, <5>2, <6>1, <6>2 DEF Sleeve!Shown
        <5> QED
          BY <2>1, <5>1, <5>2
      <4> QED
        BY <2>1, <4>1, <4>2 DEF LegKnown
    <3> QED
      BY <3>1, <3>2 DEF LegsKnown
  <2>6. TemplateBook'
    BY <2>1 DEF SleeveInv, SleeveTypes, TemplateBook
  <2> QED
    BY <2>3, <2>4, <2>5, <2>6 DEF SleeveInv
<1>2. CASE \/ Sleeve!SessionAlert \/ Sleeve!PriceMoves \/ Sleeve!NextDay \/ UNCHANGED sleeveVars
           \/ \E l \in Legs : Sleeve!Ingest(l)
  <2>1. UNCHANGED <<lane, vEnv, reserves, held, pending, row, shares, cash, working, alive, claims, unheard>>
    BY <1>2 DEF Sleeve!SessionAlert, Sleeve!PriceMoves, Sleeve!NextDay, Sleeve!Ingest, sleeveVars,
                Sleeve!known
  <2>2. price' \in [Legs -> Nat \ {0}]
    <3>1. price \in [Legs -> Nat \ {0}] /\ Prices \subseteq Nat \ {0}
      BY DEF SleeveInv, SleeveTypes, Sleeve!WeightsAssumption
    <3> QED
      BY <1>2, <3>1 DEF Sleeve!SessionAlert, Sleeve!PriceMoves, Sleeve!NextDay, Sleeve!Ingest, sleeveVars
  <2>3. OutOfSession'
    <3>1. CASE Sleeve!SessionAlert
      BY <2>1, <3>1 DEF Sleeve!SessionAlert, SleeveInv, OutOfSession
    <3>2. CASE Sleeve!NextDay
      BY <2>1, <3>2 DEF Sleeve!NextDay, SleeveInv, OutOfSession
    <3>3. CASE Sleeve!PriceMoves \/ UNCHANGED sleeveVars \/ \E l \in Legs : Sleeve!Ingest(l)
      <4>1. UNCHANGED <<open, task>>
        BY <3>3 DEF Sleeve!PriceMoves, Sleeve!Ingest, sleeveVars
      <4> QED
        BY <2>1, <4>1 DEF SleeveInv, OutOfSession, Sleeve!None, Sleeve!Flat, Sleeve!NoTask
    <3> QED
      BY <1>2, <3>1, <3>2, <3>3
  <2>4. Unreserved' = Unreserved /\ Sleeve!Shown' = Sleeve!Shown
    BY <2>1 DEF Unreserved, Sleeve!Shown
  <2>5. SleeveBook'
    BY <2>1, BookUnmoved DEF SleeveInv
  <2> QED
    BY <2>1, <2>2, <2>3, <2>4, <2>5 DEF SleeveInv, SleeveTypes, KindsAgree, TemplateBook
<1> QED
  BY <1>1, <1>2, <1>3

LEMMA SleeveInvHolds ==
  ASSUME Sleeve!WeightsAssumption
  PROVE  Sleeve!Spec => []SleeveInv
<1>1. Sleeve!Init => SleeveInv
  <2> SUFFICES ASSUME Sleeve!Init PROVE SleeveInv
    OBVIOUS
  <2>1. Sleeve!Min(Prices) \in Nat \ {0}
    <3>1. Prices \subseteq Nat /\ Prices # {} /\ Prices \subseteq Nat \ {0}
      BY DEF Sleeve!WeightsAssumption
    <3>2. \E p \in Prices : \A q \in Prices : p <= q
      <4>1. PICK p \in Prices : \A q \in Prices : <<q, p>> \notin OpToRel(<, Nat)
        BY <3>1, NatLessThanWellFounded, WFMin
      <4>2. \A q \in Prices : ~(q < p)
        BY <3>1, <4>1, Zenon DEF OpToRel
      <4> QED
        BY <3>1, <4>2
    <3>3. Sleeve!Min(Prices) \in Prices
      BY <3>2 DEF Sleeve!Min
    <3> QED
      BY <3>1, <3>3
  <2>2. /\ price = [l \in Legs |-> Sleeve!Min(Prices)] /\ cash = Cash /\ held = {}
        /\ task = Sleeve!NoTask /\ (lane = "template" => reserves)
        /\ shares = [l \in Legs |-> 0] /\ working = [l \in Legs |-> 0] /\ row = [l \in Legs |-> 0]
        /\ Sleeve!Flat = [l \in Legs |-> 0]
        /\ alive = TRUE /\ claims = {} /\ unheard = {}
    BY DEF Sleeve!Init, Sleeve!Flat
  <2>3. pending = Sleeve!None /\ pending \in [Legs -> Kinds] /\ Unreserved = Legs
    BY DEF Sleeve!Init, Sleeve!None, Kinds, Unreserved
  <2>4. SleeveTypes
    BY <2>1, <2>2, <2>3 DEF SleeveTypes, Sleeve!WeightsAssumption
  <2>5. OutOfSession
    BY <2>2, <2>3 DEF OutOfSession
  <2>6. held = Sleeve!Shown
    BY <2>2 DEF Sleeve!Shown
  <2>7. TemplateBook
    BY <2>2, <2>3, <2>6 DEF TemplateBook
  <2>8. SleeveBook
    BY <2>2, <2>6 DEF SleeveBook, BookShows, DownIsEmpty, LegsKnown, LegKnown, Sleeve!Shown
  <2> QED
    BY <2>2, <2>3, <2>4, <2>5, <2>7, <2>8 DEF SleeveInv, KindsAgree
<1>2. SleeveInv /\ [Sleeve!Next]_(Sleeve!vars) => SleeveInv'
  <2> SUFFICES ASSUME SleeveInv, [Sleeve!Next]_(Sleeve!vars) PROVE SleeveInv'
    OBVIOUS
  <2>1. ASSUME NEW l \in Legs, Sleeve!Filled(l) PROVE SleeveInv'
    BY <2>1, FilledStep
  <2>2. ASSUME NEW l \in Legs, Sleeve!Refused(l) \/ Sleeve!Lapsed(l) PROVE SleeveInv'
    BY <2>2, OrderEnds
  <2>3. ASSUME NEW l \in Legs, Sleeve!StopFills(l) PROVE SleeveInv'
    BY <2>3, StopStep
  <2>4. CASE Sleeve!SleeveRuns \/ Sleeve!TemplateRuns
    BY <2>4, RunsStep
  <2>6. ASSUME NEW w \in claims, Sleeve!Lands(w) PROVE SleeveInv'
    BY <2>6, LandsStep
  <2>5. CASE \/ Sleeve!SessionAlert \/ Sleeve!PriceMoves \/ Sleeve!NextDay \/ Sleeve!Dies
             \/ Sleeve!Starts \/ UNCHANGED Sleeve!vars
             \/ \E l \in Legs : Sleeve!Ingest(l)
    BY <2>5, SessionSteps DEF Sleeve!vars, sleeveVars
  <2> QED
    BY <2>1, <2>2, <2>3, <2>4, <2>5, <2>6 DEF Sleeve!Next
<1> QED
  BY <1>1, <1>2, PTL DEF Sleeve!Spec

LEMMA TheSleeveSteps ==
  AllSpec => Sleeve!Spec
<1>1. AllInit => Sleeve!Init
  BY DEF AllInit
<1>2. [AllNext]_allVars => [Sleeve!Next]_(Sleeve!vars)
  BY DEF AllNext, TheMonthlyRunner, TheShortLane, TheSleeve, TheIntradayLane, TheRule, allVars,
         sleeveVars, Sleeve!vars
<1> QED
  BY <1>1, <1>2, PTL DEF AllSpec, Sleeve!Spec

(* The sleeve that is up holds what its book says, and its claims are what *)
(* it holds or are being written, through parts, refusals, lapses, stops   *)
(* of others, quantities that cannot be read and deaths with orders and    *)
(* claim writes out - but for the legs of which an event was not taken in; *)
(* the template's book is right, while its orders fill whole in the        *)
(* process that sent them (smhgld_sleeve/nautilus.py,                      *)
(* template/nautilus.py), for any legs, weights, prices and lot.           *)
THEOREM SleeveBookHolds ==
  AllSpec => []BookIsShown
<1>1. Sleeve!WeightsAssumption
  BY InstancesAssumption
<1>2. SleeveInv => BookIsShown
  <2> SUFFICES ASSUME SleeveInv PROVE BookIsShown
    OBVIOUS
  <2>1. lane = "template" /\ vEnv \cap {"parts", "restarts", "blind"} = {} => held = Sleeve!Shown
    BY DEF SleeveInv, TemplateBook
  <2>2. ASSUME lane = "sleeve", NEW l \in Legs \ unheard
        PROVE  /\ alive => (l \in held <=> shares[l] # 0)
               /\ Sleeve!Landed(l) => row[l] = shares[l]
    <3>1. LegKnown(l)
      BY <2>2 DEF SleeveInv, SleeveBook, LegsKnown
    <3>2. Sleeve!Landed(l) => \A q \in Nat : <<l, q>> \notin claims
      BY DEF Sleeve!Landed
    <3> QED
      BY <3>1, <3>2 DEF LegKnown
  <2>3. lane = "sleeve" /\ alive /\ "blind" \notin vEnv => held = Sleeve!Shown
    BY DEF SleeveInv, SleeveBook, BookShows
  <2> QED
    BY <2>1, <2>2, <2>3 DEF BookIsShown, Sleeve!BookIsShown
<1> QED
  BY <1>1, <1>2, SleeveInvHolds, TheSleeveSteps, PTL

(* In parts of the whole: how far a holding is below its target, a lot,    *)
(* and what a lot of each leg above its weight leaves of the cash.         *)
Rest(t, q, w, p) == t - (q * w) * p
LotOf(w, p, s) == (w * p) * s
Spare(t, q, w, p, s, o) ==
  t + w * ((IF (q * p) * w > t THEN s * p ELSE 0) - q * p - o * p)

(* An order of whole lots, rounded toward what is held: what it leaves is  *)
(* less than a lot from the target, never below it after a sale.           *)
LEMMA RoundedOrder ==
  ASSUME NEW t \in Int, NEW q \in Int, NEW w \in Nat \ {0}, NEW p \in Nat \ {0},
         NEW s \in Nat \ {0}, NEW k \in Nat, NEW o \in Int,
         LotOf(w, p, s) * k <= Sleeve!Abs(Rest(t, q, w, p)),
         Sleeve!Abs(Rest(t, q, w, p)) < LotOf(w, p, s) * k + LotOf(w, p, s),
         o = IF Rest(t, q, w, p) > 0 THEN k * s ELSE -(k * s)
  PROVE  /\ Sleeve!Abs(Rest(t, q + o, w, p)) < LotOf(w, p, s)
         /\ o < 0 => Rest(t, q + o, w, p) < 1
         /\ 0 <= Spare(t, q, w, p, s, o)
<1> USE DEF Rest, LotOf, Spare
<1> DEFINE over == t - (q * w) * p
           lot == (w * p) * s
           y == lot * k
<1>1. /\ over \in Int /\ lot \in Nat \ {0} /\ y \in Nat
      /\ y <= Sleeve!Abs(over) /\ Sleeve!Abs(over) < y + lot
  <2>1. w * p \in Nat \ {0}
    BY PositiveProduct
  <2>2. lot \in Nat \ {0}
    BY <2>1, PositiveProduct
  <2>3. y \in Nat
    BY <2>2
  <2> QED
    BY <2>2, <2>3
<1>2. (o * w) * p = IF over > 0 THEN y ELSE -y
  <2>1. ((k * s) * w) * p = y
    OBVIOUS
  <2>2. (-(k * s) * w) * p = -y
    BY <2>1
  <2> QED
    BY <2>1, <2>2
<1>3. ((q + o) * w) * p = (q * w) * p + (o * w) * p
  OBVIOUS
<1>4. t - ((q + o) * w) * p = IF over > 0 THEN over - y ELSE over + y
  <2>1. (q * w) * p \in Int /\ (o * w) * p \in Int
    OBVIOUS
  <2> DEFINE m == (q * w) * p
             n == (o * w) * p
             r == ((q + o) * w) * p
  <2>2. m \in Int /\ n \in Int /\ r = m + n /\ over = t - m /\ y \in Nat
    BY <1>1, <1>3, <2>1
  <2>3. n = IF over > 0 THEN y ELSE -y
    BY <1>2
  <2> HIDE DEF m, n, r, over, y
  <2>4. t - r = IF over > 0 THEN over - y ELSE over + y
    BY <2>2, <2>3
  <2> QED
    BY <2>4 DEF r
<1>5. o < 0 => ~(over > 0)
  <2>1. k * s >= 0
    OBVIOUS
  <2> QED
    BY <2>1
<1>6. t + w * ((IF (q * p) * w > t THEN s * p ELSE 0) - q * p - o * p)
        = over - (o * w) * p + (IF over < 0 THEN lot ELSE 0)
  <2>1. (q * p) * w = (q * w) * p
    OBVIOUS
  <2>2. (q * p) * w > t <=> over < 0
    BY <2>1
  <2>3. w * (s * p - q * p - o * p) = lot - (q * w) * p - (o * w) * p
    OBVIOUS
  <2>4. w * (0 - q * p - o * p) = -((q * w) * p) - (o * w) * p
    OBVIOUS
  <2>5. CASE over < 0
    BY <2>2, <2>3, <2>5
  <2>6. CASE ~(over < 0)
    BY <2>2, <2>4, <2>6
  <2> QED
    BY <2>5, <2>6
<1> HIDE DEF over, lot, y
<1>7. Sleeve!Abs(IF over > 0 THEN over - y ELSE over + y) < lot
  BY <1>1 DEF Sleeve!Abs
<1>8. 0 <= over - (IF over > 0 THEN y ELSE -y) + (IF over < 0 THEN lot ELSE 0)
  BY <1>1 DEF Sleeve!Abs
<1>9. ~(over > 0) => over + y < 1
  BY <1>1 DEF Sleeve!Abs
<1>10. Sleeve!Abs(t - ((q + o) * w) * p) < (w * p) * s
  BY <1>4, <1>7 DEF lot
<1>11. o < 0 => t - ((q + o) * w) * p < 1
  BY <1>4, <1>5, <1>9
<1> QED
  BY <1>2, <1>6, <1>8, <1>10, <1>11

(* So is an order of the plan: there is none after it, a sale leaves some, *)
(* and it is paid for.                                                     *)
LEMMA DeltaSettles ==
  ASSUME Sleeve!WeightsAssumption, NEW l \in Legs, NEW p \in [Legs -> Nat \ {0}],
         NEW q \in [Legs -> Int], NEW e \in Int
  PROVE  LET o == Sleeve!Delta(l, q, p, e)
             kept == IF q[l] * p[l] * Sleeve!Whole > Weight[l] * e THEN SleeveLot * p[l] ELSE 0
         IN  /\ \A r \in [Legs -> Int] : r[l] = q[l] + o => Sleeve!Delta(l, r, p, e) = 0
             /\ o < 0 /\ e > 0 => q[l] + o > 0
             /\ 0 <= Weight[l] * e + Sleeve!Whole * (kept - q[l] * p[l] - o * p[l])
<1> DEFINE w == Sleeve!Whole
           t == Weight[l] * e
           over == t - (q[l] * w) * p[l]
           lot == (w * p[l]) * SleeveLot
           k == Sleeve!Abs(over) \div lot
           o == Sleeve!Delta(l, q, p, e)
<1>1. /\ w \in Nat \ {0} /\ p[l] \in Nat \ {0} /\ SleeveLot \in Nat \ {0}
      /\ Weight[l] \in Nat \ {0} /\ q[l] \in Int
  BY WholeIsPositive DEF Sleeve!WeightsAssumption
<1>2. t \in Int /\ over \in Int
  BY <1>1
<1>3. lot \in Nat \ {0}
  BY LotIsPositive
<1>4. o = (IF over > 0 THEN k * SleeveLot ELSE -(k * SleeveLot)) /\ o \in Int
  BY DeltaIsInt DEF Sleeve!Delta
<1>5. k \in Nat /\ lot * k <= Sleeve!Abs(over) /\ Sleeve!Abs(over) < lot * k + lot
  <2> HIDE DEF over, lot
  <2>1. Sleeve!Abs(over) \in Nat
    BY <1>2 DEF Sleeve!Abs
  <2> QED
    BY <1>3, <2>1, Quotient
<1> HIDE DEF k, o, w, t
<1>6. /\ Sleeve!Abs(Rest(t, q[l] + o, w, p[l])) < lot
      /\ o < 0 => Rest(t, q[l] + o, w, p[l]) < 1
      /\ 0 <= Spare(t, q[l], w, p[l], SleeveLot, o)
  <2>1. /\ LotOf(w, p[l], SleeveLot) * k <= Sleeve!Abs(Rest(t, q[l], w, p[l]))
        /\ Sleeve!Abs(Rest(t, q[l], w, p[l]))
             < LotOf(w, p[l], SleeveLot) * k + LotOf(w, p[l], SleeveLot)
        /\ o = IF Rest(t, q[l], w, p[l]) > 0 THEN k * SleeveLot ELSE -(k * SleeveLot)
        /\ lot = LotOf(w, p[l], SleeveLot)
    BY <1>4, <1>5 DEF Rest, LotOf
  <2> HIDE DEF over, lot
  <2> QED
    BY <1>1, <1>2, <1>4, <1>5, <2>1, RoundedOrder
<1>7. ASSUME NEW r \in [Legs -> Int], r[l] = q[l] + o
      PROVE  Sleeve!Delta(l, r, p, e) = 0
  <2> DEFINE rest == t - (r[l] * w) * p[l]
  <2>1. rest \in Int /\ Sleeve!Abs(rest) < lot
    BY <1>1, <1>2, <1>6, <1>7 DEF Rest
  <2>2. Sleeve!Delta(l, r, p, e) =
          IF rest > 0 THEN (Sleeve!Abs(rest) \div lot) * SleeveLot
          ELSE -((Sleeve!Abs(rest) \div lot) * SleeveLot)
    BY DEF Sleeve!Delta, w, t
  <2> HIDE DEF rest, lot
  <2>3. Sleeve!Abs(rest) \in Nat
    BY <2>1 DEF Sleeve!Abs
  <2>4. Sleeve!Abs(rest) \div lot = 0
    BY <1>3, <2>1, <2>3, Quotient
  <2> QED
    BY <1>1, <2>2, <2>4
<1>8. ASSUME o < 0, e > 0 PROVE q[l] + o > 0
  <2>1. t > 0
    <3>1. e \in Nat \ {0}
      BY <1>8
    <3> QED
      BY <1>1, <3>1, PositiveProduct DEF t
  <2>2. ((q[l] + o) * w) * p[l] > 0
    <3>1. ((q[l] + o) * w) * p[l] \in Int
      BY <1>1, <1>4
    <3> QED
      BY <1>2, <1>6, <1>8, <2>1, <3>1 DEF Rest
  <2> QED
    BY <1>1, <1>4, <2>2
<1> QED
  BY <1>6, <1>7, <1>8 DEF o, w, t, Spare

(* A plan of the sleeve's equity at its prices is carried out whole.       *)
LEMMA PlanHolds ==
  ASSUME Sleeve!WeightsAssumption, SleeveTypes, Sleeve!Equity > 0,
         NEW orders \in [Legs -> Int],
         \A l \in Legs : orders[l] = Sleeve!Delta(l, shares, price, Sleeve!Equity)
  PROVE  Sleeve!Planned(orders)
<1> DEFINE w == Sleeve!Whole
           e == Sleeve!Equity
           after == [l \in Legs |-> shares[l] + orders[l]]
           over == {l \in Legs : shares[l] * price[l] * w > Weight[l] * e}
           lots == [l \in Legs |-> SleeveLot * price[l]]
           kept == [l \in Legs |-> IF l \in over THEN SleeveLot * price[l] ELSE 0]
           worth == [l \in Legs |-> shares[l] * price[l]]
           cost == [l \in Legs |-> orders[l] * price[l]]
           left == [l \in Legs |-> 1 * kept[l] + (-1) * worth[l]]
           free == [l \in Legs |-> 1 * left[l] + (-1) * cost[l]]
           spare == [l \in Legs |-> e * Weight[l] + w * free[l]]
<1>1. /\ shares \in [Legs -> Int] /\ price \in [Legs -> Nat \ {0}] /\ cash \in Int
      /\ price \in [Legs -> Int] /\ SleeveLot \in Nat \ {0} /\ Weight \in [Legs -> Nat \ {0}]
      /\ IsFiniteSet(Legs)
  BY DEF SleeveTypes, Sleeve!WeightsAssumption, Sleeve!IsFiniteSet, IsFiniteSet
<1>2. e \in Int
  BY <1>1, ValueIsInt DEF Sleeve!Equity
<1>3. w = SumFunctionOnSet(Weight, Legs) /\ w \in Int
  <2>1. w = SumFunctionOnSet(Weight, Legs)
    BY SleeveSum DEF Sleeve!Whole
  <2>2. \A l \in Legs : Weight[l] \in Int
    BY <1>1
  <2> QED
    BY <1>1, <2>1, <2>2, SumInt
<1>4. ASSUME NEW l \in Legs
      PROVE  /\ \A r \in [Legs -> Int] :
                  r[l] = shares[l] + orders[l] => Sleeve!Delta(l, r, price, e) = 0
             /\ orders[l] < 0 => shares[l] + orders[l] > 0
             /\ 0 <= Weight[l] * e + w * (kept[l] - shares[l] * price[l] - orders[l] * price[l])
  <2>1. kept[l] = IF shares[l] * price[l] * Sleeve!Whole > Weight[l] * e
                  THEN SleeveLot * price[l] ELSE 0
    OBVIOUS
  <2>2. orders[l] = Sleeve!Delta(l, shares, price, e)
    OBVIOUS
  <2>3. LET o == Sleeve!Delta(l, shares, price, e)
            stays == IF shares[l] * price[l] * Sleeve!Whole > Weight[l] * e
                     THEN SleeveLot * price[l] ELSE 0
        IN  /\ \A r \in [Legs -> Int] : r[l] = shares[l] + o => Sleeve!Delta(l, r, price, e) = 0
            /\ o < 0 /\ e > 0 => shares[l] + o > 0
            /\ 0 <= Weight[l] * e + Sleeve!Whole * (stays - shares[l] * price[l] - o * price[l])
    <3> HIDE DEF e
    <3> QED
      BY <1>1, <1>2, DeltaSettles, Zenon
  <2>4. e > 0
    OBVIOUS
  <2> HIDE DEF kept, e
  <2> QED
    BY <2>1, <2>2, <2>3, <2>4, Zenon
<1>5. Sleeve!OrderPlan("rebalance", after, price, e) = Sleeve!Flat
  <2>1. after \in [Legs -> Int]
    BY <1>1
  <2>2. \A l \in Legs : Sleeve!Delta(l, after, price, e) = 0
    <3> HIDE DEF e
    <3> QED
      BY <1>4, <2>1
  <2> QED
    BY <2>2 DEF Sleeve!OrderPlan, Sleeve!Flat
<1>6. \A l \in {k \in Legs : orders[k] < 0} : after[l] > 0
  BY <1>4
<1>7. ASSUME NEW l \in Legs
      PROVE  /\ kept[l] \in Int /\ lots[l] \in Int /\ worth[l] \in Int /\ cost[l] \in Int
             /\ left[l] \in Int /\ free[l] \in Int /\ spare[l] \in Nat
  <2>1. kept[l] \in Int /\ lots[l] \in Int /\ worth[l] \in Int /\ cost[l] \in Int
    BY <1>1
  <2>2. /\ left[l] = 1 * kept[l] + (-1) * worth[l] /\ free[l] = 1 * left[l] + (-1) * cost[l]
        /\ spare[l] = e * Weight[l] + w * free[l]
        /\ worth[l] = shares[l] * price[l] /\ cost[l] = orders[l] * price[l]
        /\ Weight[l] \in Int
    BY <1>1
  <2> HIDE DEF kept, lots, worth, cost, left, free, spare, w, e
  <2>3. left[l] = kept[l] - worth[l] /\ free[l] = kept[l] - worth[l] - cost[l]
    BY <2>1, <2>2
  <2>4. 0 <= Weight[l] * e + w * free[l]
    BY <1>4, <2>2, <2>3
  <2>5. e * Weight[l] = Weight[l] * e /\ w * free[l] \in Int /\ free[l] \in Int /\ Weight[l] * e \in Int
    BY <1>2, <1>3, <2>1, <2>2, <2>3
  <2> QED
    BY <2>1, <2>2, <2>3, <2>4, <2>5
<1>8. /\ SumFunctionOnSet(kept, Legs) = SumFunctionOnSet(lots, over)
      /\ SumFunctionOnSet(left, Legs)
           = 1 * SumFunctionOnSet(kept, Legs) + (-1) * SumFunctionOnSet(worth, Legs)
      /\ SumFunctionOnSet(free, Legs)
           = 1 * SumFunctionOnSet(left, Legs) + (-1) * SumFunctionOnSet(cost, Legs)
      /\ SumFunctionOnSet(spare, Legs) = e * w + w * SumFunctionOnSet(free, Legs)
      /\ SumFunctionOnSet(spare, Legs) \in Nat
      /\ {SumFunctionOnSet(kept, Legs), SumFunctionOnSet(worth, Legs),
          SumFunctionOnSet(cost, Legs)} \subseteq Int
  <2>1. \A l \in Legs :
          /\ kept[l] = IF l \in over THEN lots[l] ELSE 0
          /\ left[l] = 1 * kept[l] + (-1) * worth[l]
          /\ free[l] = 1 * left[l] + (-1) * cost[l]
          /\ spare[l] = e * Weight[l] + w * free[l]
          /\ Weight[l] \in Int
    BY <1>1
  <2>2. over \in SUBSET Legs /\ 1 \in Int /\ -1 \in Int
    OBVIOUS
  <2> HIDE DEF kept, lots, worth, cost, left, free, spare, over, w, e
  <2>3. SumFunctionOnSet(kept, Legs) = SumFunctionOnSet(lots, over)
    BY <1>1, <1>7, <2>1, <2>2, SumSelected
  <2>4. SumFunctionOnSet(left, Legs)
          = 1 * SumFunctionOnSet(kept, Legs) + (-1) * SumFunctionOnSet(worth, Legs)
    BY <1>1, <1>7, <2>1, <2>2, SumCombines
  <2>5. SumFunctionOnSet(free, Legs)
          = 1 * SumFunctionOnSet(left, Legs) + (-1) * SumFunctionOnSet(cost, Legs)
    BY <1>1, <1>7, <2>1, <2>2, SumCombines
  <2>6. SumFunctionOnSet(spare, Legs)
          = e * SumFunctionOnSet(Weight, Legs) + w * SumFunctionOnSet(free, Legs)
    BY <1>1, <1>2, <1>3, <1>7, <2>1, SumCombines
  <2>7. SumFunctionOnSet(spare, Legs) \in Nat
    BY <1>1, <1>7, SumNotNegative
  <2>8. {SumFunctionOnSet(kept, Legs), SumFunctionOnSet(worth, Legs),
         SumFunctionOnSet(cost, Legs)} \subseteq Int
    BY <1>1, <1>7, SumInt
  <2> QED
    BY <1>3, <2>3, <2>4, <2>5, <2>6, <2>7, <2>8
<1>9. e = cash + SumFunctionOnSet(worth, Legs)
  BY SleeveSum DEF Sleeve!Equity, Sleeve!Value
<1>10. SumFunctionOnSet(cost, Legs) <= cash + SumFunctionOnSet(lots, over)
  <2>1. CASE Legs = {}
    <3>1. SumFunctionOnSet(cost, Legs) = 0 /\ SumFunctionOnSet(worth, Legs) = 0
          /\ SumFunctionOnSet(kept, Legs) = 0
      BY <1>1, <2>1, SumUnfolds
    <3> HIDE DEF kept, lots, worth, cost, left, free, spare, over, w, e
    <3> QED
      BY <1>1, <1>2, <1>8, <1>9, <3>1 DEF e
  <2>2. CASE Legs # {}
    <3>1. w \in Nat \ {0}
      BY <2>2, WholeIsPositive
    <3> DEFINE sk == SumFunctionOnSet(kept, Legs)
               sw == SumFunctionOnSet(worth, Legs)
               sc == SumFunctionOnSet(cost, Legs)
    <3>2. 0 <= e * w + w * (1 * (1 * sk + (-1) * sw) + (-1) * sc)
      BY <1>8
    <3>3. sk \in Int /\ sw \in Int /\ sc \in Int /\ e = cash + sw /\ sk = SumFunctionOnSet(lots, over)
      BY <1>8, <1>9
    <3> HIDE DEF kept, lots, worth, cost, left, free, spare, over, w, e, sk, sw, sc
    <3>4. 1 * (1 * sk + (-1) * sw) + (-1) * sc = sk - sw - sc
      BY <3>3
    <3>5. e * w + w * (sk - sw - sc) = w * (e + sk - sw - sc)
      BY <1>2, <3>1, <3>3
    <3>6. e + sk - sw - sc = cash + sk - sc /\ cash + sk - sc \in Int
      BY <1>1, <3>3
    <3>7. 0 <= w * (cash + sk - sc)
      BY <3>2, <3>4, <3>5, <3>6
    <3>8. 0 <= cash + sk - sc
      BY <3>1, <3>6, <3>7
    <3> QED
      BY <1>1, <3>3, <3>8 DEF sc
  <2> QED
    BY <2>1, <2>2
<1>11. Sleeve!Value(orders, price) <= cash + Sleeve!SumFunctionOnSet(lots, over)
  BY <1>10, SleeveSum DEF Sleeve!Value
<1> QED
  BY <1>5, <1>6, <1>11 DEF Sleeve!Planned

(* A plan of the sleeve, carried out in full at its prices, leaves nothing *)
(* to do, sells no leg to nothing and is paid for but for a lot of each    *)
(* leg above its weight (order_plan of smhgld_sleeve/engine.py), for any   *)
(* weights, prices, lot and holdings.                                      *)
THEOREM SleevePlanSettles ==
  AllSpec => PlanSettles
<1>1. Sleeve!WeightsAssumption
  BY InstancesAssumption
<1>2. SleeveInv /\ [Sleeve!Next]_(Sleeve!vars) => Sleeve!PlanStep
  <2> SUFFICES ASSUME SleeveInv, [Sleeve!Next]_(Sleeve!vars), lane = "sleeve", working' # working,
                      shares' = shares, task' # task, Sleeve!Equity > 0
               PROVE  Sleeve!Planned([l \in Legs |-> working'[l] - working[l]])
    BY DEF Sleeve!PlanStep
  <2>1. Sleeve!SleeveRuns
    BY DEF Sleeve!Next, Sleeve!vars, Sleeve!SessionAlert, Sleeve!PriceMoves, Sleeve!NextDay,
           Sleeve!TemplateRuns, Sleeve!Dies, Sleeve!Starts, Sleeve!Lands, Sleeve!Ingest, Sleeve!Filled, Sleeve!Refused,
           Sleeve!Lapsed, Sleeve!StopFills
  <2> DEFINE regime == Sleeve!Regime(Sleeve!Shown, shares, task.close)
             plan == Sleeve!OrderPlan(regime, shares, price, Sleeve!Equity)
             orders == [l \in Legs |-> working'[l] - working[l]]
  <2>2. Sleeve!Submit(plan) /\ working = Sleeve!Flat
    BY <2>1 DEF Sleeve!SleeveRuns, SleeveInv, OutOfSession
  <2>3. plan \in [Legs -> Int]
    BY <1>1, SleeveOrdersAreInt DEF SleeveInv
  <2> HIDE DEF regime
  <2>4. orders = plan /\ working' = plan
    <3> HIDE DEF plan
    <3> QED
      BY <2>2, <2>3 DEF Sleeve!Submit, Sleeve!Flat
  <2>5. regime \in {"opening", "rebalance"}
    BY <2>2, <2>4 DEF Sleeve!OrderPlan
  <2>6. \A l \in Legs : plan[l] = Sleeve!Delta(l, shares, price, Sleeve!Equity)
    BY <2>5 DEF Sleeve!OrderPlan
  <2> HIDE DEF plan, orders
  <2>7. Sleeve!Planned(plan)
    BY <1>1, <2>3, <2>6, PlanHolds DEF SleeveInv
  <2>8. Sleeve!Planned(orders)
    BY <2>4, <2>7
  <2> QED
    BY <2>8 DEF orders
<1> QED
  BY <1>1, <1>2, SleeveInvHolds, TheSleeveSteps, PTL DEF PlanSettles, Sleeve!Spec

-----------------------------------------------------------------------------
(* The rotation: its ranking, its walk, its cap (Rotation).                *)
(* The library as the rotation's module sees it is the library.            *)
LEMMA RuleCounts == \A S : Rule!Cardinality(S) = Cardinality(S)
  BY DEF Rule!Cardinality, Cardinality
LEMMA RuleFinite == \A S : Rule!IsFiniteSet(S) <=> IsFiniteSet(S)
  BY DEF Rule!IsFiniteSet, IsFiniteSet
LEMMA RuleToSet == \A o : Rule!ToSet(o) = {o[i] : i \in DOMAIN o}
  BY DEF Rule!ToSet
LEMMA RuleSums == \A q, S : Rule!SumFunctionOnSet(q, S) = SumFunctionOnSet(q, S)
  BY DEF Rule!SumFunctionOnSet, Rule!FoldFunctionOnSet, Rule!MapThenFoldSet, SumFunctionOnSet,
         FoldFunctionOnSet, MapThenFoldSet

(* A ranking: every name once, and each before what it beats.              *)
IsRanking(ranking, value, ties) ==
  /\ ranking \in Seq(DOMAIN ties)
  /\ \A n \in DOMAIN ties : \E i \in DOMAIN ranking : ranking[i] = n
  /\ \A i, j \in DOMAIN ranking : i # j => ranking[i] # ranking[j]
  /\ \A i, j \in DOMAIN ranking : Rule!Beats(value, ties, ranking[i], ranking[j]) <=> i < j

(* Sorting ranks: the order is strict and total.                           *)
LEMMA SortedRanks ==
  ASSUME NEW value, NEW ties, IsFiniteSet(DOMAIN ties), DOMAIN ties \subseteq Int,
         \A n \in DOMAIN ties : value[n] \in Int /\ ties[n] \in Int
  PROVE  IsRanking(Rule!Sorted(value, ties), value, ties)
<1> DEFINE D == DOMAIN ties
           k == Cardinality(D)
           A == [n \in D |-> Rule!Ahead(value, ties, n)]
           o == Rule!Sorted(value, ties)
<1>1. \A m, n \in D : m \in A[n] <=> Rule!Beats(value, ties, m, n)
  BY DEF Rule!Ahead
<1>2. /\ A \in [D -> SUBSET D]
      /\ \A m \in D : m \notin A[m]
      /\ \A m, n \in D : m \in A[n] => A[m] \subseteq A[n]
      /\ \A m, n \in D : m # n => m \in A[n] \/ n \in A[m]
  <2>1. A \in [D -> SUBSET D]
    BY DEF Rule!Ahead
  <2>2. \A m \in D : m \in Int /\ value[m] \in Int /\ ties[m] \in Int
    OBVIOUS
  <2> HIDE DEF A
  <2>3. \A m \in D : m \notin A[m]
    BY <1>1, <2>2 DEF Rule!Beats
  <2>4. \A l, m, n \in D : Rule!Beats(value, ties, l, m) /\ Rule!Beats(value, ties, m, n)
                             => Rule!Beats(value, ties, l, n)
    BY <2>2 DEF Rule!Beats
  <2>5. \A m, n \in D : m \in A[n] => A[m] \subseteq A[n]
    BY <1>1, <2>1, <2>4
  <2>6. \A m, n \in D : m # n => m \in A[n] \/ n \in A[m]
    BY <1>1, <2>2 DEF Rule!Beats
  <2> QED
    BY <2>1, <2>3, <2>5, <2>6
<1>3. k \in Nat
  BY FS_CardinalityType
<1>4. o = [i \in 1..k |-> CHOOSE n \in D : Cardinality(A[n]) = i - 1]
  BY RuleCounts DEF Rule!Sorted
<1> HIDE DEF A, o
<1>5. /\ \A n \in D : Cardinality(A[n]) \in 0..(k - 1)
      /\ \A m, n \in D : m \in A[n] <=> Cardinality(A[m]) < Cardinality(A[n])
      /\ \A i \in 0..(k - 1) : \E n \in D : Cardinality(A[n]) = i
  BY <1>2, Numbered
<1>6. \A i \in 1..k : o[i] \in D /\ Cardinality(A[o[i]]) = i - 1
  <2> SUFFICES ASSUME NEW i \in 1..k PROVE o[i] \in D /\ Cardinality(A[o[i]]) = i - 1
    OBVIOUS
  <2>1. i - 1 \in 0..(k - 1)
    BY <1>3
  <2>2. \E n \in D : Cardinality(A[n]) = i - 1
    BY <1>5, <2>1
  <2>3. o[i] = CHOOSE n \in D : Cardinality(A[n]) = i - 1
    BY <1>4
  <2> QED
    BY <2>2, <2>3
<1>7. o \in [1..k -> D]
  BY <1>4, <1>6
<1>8. o \in Seq(D) /\ DOMAIN o = 1..k
  BY <1>3, <1>7, SeqDef
<1>9. \A i, j \in 1..k : Rule!Beats(value, ties, o[i], o[j]) <=> i < j
  BY <1>1, <1>3, <1>5, <1>6
<1>10. \A i, j \in 1..k : i # j => o[i] # o[j]
  BY <1>3, <1>6
<1>11. ASSUME NEW n \in D PROVE \E i \in 1..k : o[i] = n
  <2>1. Cardinality(A[n]) \in 0..(k - 1)
    BY <1>5
  <2> DEFINE i == Cardinality(A[n]) + 1
  <2>2. i \in 1..k /\ i - 1 = Cardinality(A[n])
    BY <1>3, <2>1
  <2>3. Cardinality(A[o[i]]) = Cardinality(A[n]) /\ o[i] \in D
    BY <1>6, <2>2
  <2>4. o[i] \notin A[n] /\ n \notin A[o[i]]
    BY <1>5, <2>1, <2>3
  <2>5. o[i] = n
    BY <1>2, <2>3, <2>4
  <2> QED
    BY <2>2, <2>5
<1> QED
  BY <1>8, <1>9, <1>10, <1>11 DEF IsRanking, o

(* Sets of numbers up to one have a greatest, which the library takes.     *)
LEMMA Greatest ==
  ASSUME NEW n \in Nat
  PROVE  \A T \in SUBSET (1..n) : T # {} => Rule!Max(T) \in T /\ \A x \in T : x <= Rule!Max(T)
<1> DEFINE Has(T) == \E m \in T : \A x \in T : m >= x
           G == {k \in 0..n : \A T \in SUBSET (1..k) : T # {} => Has(T)}
<1>1. 0 \in G
  <2>1. \A T \in SUBSET (1..0) : T = {}
    OBVIOUS
  <2> HIDE DEF Has
  <2>2. \A T \in SUBSET (1..0) : T # {} => Has(T)
    BY <2>1, Zenon
  <2>3. 0 \in 0..n
    OBVIOUS
  <2> QED
    BY <2>2, <2>3, Zenon
<1>2. ASSUME NEW k \in 0..(n - 1), k \in G PROVE k + 1 \in G
  <2> SUFFICES ASSUME NEW T \in SUBSET (1..(k + 1)), T # {} PROVE Has(T)
    OBVIOUS
  <2>1. CASE k + 1 \in T
    BY <2>1
  <2>2. CASE k + 1 \notin T
    <3>1. T \in SUBSET (1..k)
      BY <2>2
    <3> QED
      BY <1>2, <3>1
  <2> QED
    BY <2>1, <2>2
<1>3. n \in G
  <2> HIDE DEF G
  <2> QED
    BY <1>1, <1>2, UpTo
<1> SUFFICES ASSUME NEW T \in SUBSET (1..n), T # {}
             PROVE  Rule!Max(T) \in T /\ \A x \in T : x <= Rule!Max(T)
  OBVIOUS
<1>4. Has(T)
  BY <1>3
<1>5. Rule!Max(T) = CHOOSE m \in T : \A x \in T : m >= x
  BY DEF Rule!Max
<1>6. Rule!Max(T) \in T /\ \A x \in T : Rule!Max(T) >= x
  BY <1>4, <1>5
<1> QED
  BY <1>6

LEMMA HeadOfCount ==
  ASSUME NEW k \in Nat \ {0}
  PROVE  Rule!Max(1..k) = k /\ (1..k) \ {k} = 1..(k - 1)
<1> DEFINE T == 1..k
<1>1. T \in SUBSET (1..k) /\ T # {} /\ k \in T
  OBVIOUS
<1>2. Rule!Max(T) \in T /\ \A x \in T : x <= Rule!Max(T)
  <2> HIDE DEF T
  <2> QED
    BY <1>1, Greatest
<1> QED
  BY <1>1, <1>2

(* One step of the walk down a ranking.                                    *)
Admit(taken, t, allowed, kept, room, corr) ==
  IF \/ t \notin allowed \/ t \in kept \/ Len(taken) >= room
     \/ \E b \in kept \cup Rule!ToSet(taken) : Rule!Alike(corr, t, b)
  THEN taken ELSE Append(taken, t)

(* A walk: nothing, and then a step for each name of the ranking.          *)
IsWalk(w, ranking, allowed, kept, room, corr) ==
  /\ w[0] = <<>>
  /\ \A i \in 1..Len(ranking) :
       w[i] = Admit(w[i - 1], ranking[i], allowed, kept, room, corr)

(* The walk of a ranking is a walk, and what it leads to is what is picked.*)
LEMMA WalkLeads ==
  ASSUME NEW S, NEW ranking \in Seq(S), NEW allowed, NEW kept, NEW room, NEW corr
  PROVE  \E w \in [0..Len(ranking) -> Seq(S)] :
           /\ IsWalk(w, ranking, allowed, kept, room, corr)
           /\ w[Len(ranking)] = Rule!Diversified(ranking, allowed, kept, room, corr)
<1> DEFINE n == Len(ranking)
           N == 1..n
           A(taken, t) == Admit(taken, t, allowed, kept, room, corr)
           Y == Seq(S)
           q == [i \in N |-> [taken \in Y |-> A(taken, ranking[i])]]
           c == [T \in SUBSET N |-> Rule!Max(T)]
           E(f) == f = [s \in SUBSET N |->
                          IF s = {} THEN <<>> ELSE A(f[s \ {Rule!Max(s)}], ranking[Rule!Max(s)])]
<1>1. n \in Nat /\ DOMAIN ranking = N /\ \A i \in N : ranking[i] \in S
  BY LenProperties
<1>2. \A taken \in Y, i \in N : A(taken, ranking[i]) \in Y
  BY <1>1 DEF Admit
<1>3. \A T \in SUBSET N : T # {} => Rule!Max(T) \in T
  BY <1>1, Greatest
<1>4. PICK g : IsFold(g, <<>>, q, c, N, Y)
  <2>1. IsFiniteSet(N) /\ <<>> \in Y
    BY <1>1, FS_Interval, EmptySeq
  <2>2. Combines(q, N, Y)
    <3> HIDE DEF A, Y
    <3> QED
      BY <1>2 DEF Combines
  <2>3. Chooses(c, N)
    BY <1>3 DEF Chooses
  <2> DEFINE none == <<>>
  <2>5. none \in Y
    BY <2>1
  <2> HIDE DEF q, c, N, Y, none
  <2>4. \E g : IsFold(g, none, q, c, N, Y)
    BY <2>1, <2>2, <2>3, <2>5, FoldExists
  <2> QED
    BY <2>4 DEF none
<1>5. E(g)
  <2> HIDE DEF A, Y
  <2>3. /\ g \in [SUBSET N -> Y]
        /\ \A s \in SUBSET N : g[s] = IF s = {} THEN <<>> ELSE q[c[s]][g[s \ {c[s]}]]
    BY <1>4 DEF IsFold
  <2>1. ASSUME NEW s \in SUBSET N, s # {}
        PROVE  g[s] = A(g[s \ {Rule!Max(s)}], ranking[Rule!Max(s)])
    <3>1. Rule!Max(s) \in N /\ s \ {Rule!Max(s)} \in SUBSET N
      BY <1>3, <2>1
    <3>2. g[s \ {Rule!Max(s)}] \in Y
      BY <2>3, <3>1
    <3> QED
      BY <2>1, <2>3, <3>1, <3>2
  <2>2. \A s \in SUBSET N :
          g[s] = IF s = {} THEN <<>> ELSE A(g[s \ {Rule!Max(s)}], ranking[Rule!Max(s)])
    BY <2>1, <2>3
  <2> QED
    BY <2>2, <2>3
<1> DEFINE f == CHOOSE h : E(h)
<1>6. E(f)
  BY <1>5
<1>7. Rule!Diversified(ranking, allowed, kept, room, corr) = f[N]
  BY <1>1 DEF Rule!Diversified, Rule!FoldLeft, Rule!MapThenFoldSet, Admit
<1> HIDE DEF f
<1>8. /\ f[1..0] = <<>>
      /\ \A i \in 1..n : f[1..i] = A(f[1..(i - 1)], ranking[i])
  <2> HIDE DEF A
  <2>1. \A s \in SUBSET N :
          f[s] = IF s = {} THEN <<>> ELSE A(f[s \ {Rule!Max(s)}], ranking[Rule!Max(s)])
    BY <1>6
  <2>2. 1..0 = {} /\ {} \in SUBSET N
    OBVIOUS
  <2>3. ASSUME NEW i \in 1..n PROVE f[1..i] = A(f[1..(i - 1)], ranking[i])
    <3>1. i \in Nat \ {0} /\ i <= n
      BY <1>1
    <3>3. \A x \in 1..i : x \in 1..n
      BY <1>1, <3>1
    <3>4. i \in 1..i
      BY <3>1
    <3>2. Rule!Max(1..i) = i /\ (1..i) \ {i} = 1..(i - 1)
      BY <3>1, HeadOfCount
    <3> QED
      BY <2>1, <3>2, <3>3, <3>4
  <2> QED
    BY <2>1, <2>2, <2>3
<1> DEFINE w == [i \in 0..n |-> f[1..i]]
<1>9. w[0] = <<>> /\ \A i \in 1..n : w[i] = A(w[i - 1], ranking[i])
  <2> HIDE DEF A, n
  <2>1. \A i \in 1..n : i \in 0..n /\ i - 1 \in 0..n
    BY <1>1
  <2>2. 0 \in 0..n
    BY <1>1
  <2>3. w[0] = <<>>
    BY <1>8, <2>2
  <2>4. ASSUME NEW i \in 1..n PROVE w[i] = A(w[i - 1], ranking[i])
    <3>1. w[i] = f[1..i] /\ w[i - 1] = f[1..(i - 1)]
      BY <2>1
    <3>2. f[1..i] = A(f[1..(i - 1)], ranking[i])
      BY <1>8
    <3> HIDE DEF w
    <3> QED
      BY <3>1, <3>2
  <2> QED
    BY <2>3, <2>4
<1>10. \A i \in 0..n : w[i] \in Y
  <2> DEFINE G == {i \in 0..n : w[i] \in Y}
  <2> HIDE DEF w, A
  <2>1. 0 \in G
    <3>1. w[0] \in Y
      BY <1>9, EmptySeq
    <3>2. 0 \in 0..n
      BY <1>1
    <3> QED
      BY <3>1, <3>2
  <2>2. ASSUME NEW i \in 0..(n - 1), i \in G PROVE i + 1 \in G
    <3>1. i + 1 \in 1..n /\ (i + 1) - 1 = i /\ i + 1 \in 0..n
      BY <1>1
    <3>2. w[i + 1] = A(w[i], ranking[i + 1])
      BY <1>9, <3>1
    <3> HIDE DEF Y
    <3> QED
      BY <1>2, <2>2, <3>1, <3>2
  <2>3. \A i \in 0..n : i \in G
    <3> HIDE DEF G
    <3> QED
      BY <1>1, <2>1, <2>2, UpTo
  <2> QED
    BY <2>3
<1>11. w \in [0..n -> Y]
  BY <1>10
<1>12. IsWalk(w, ranking, allowed, kept, room, corr)
  <2> HIDE DEF w
  <2> QED
    BY <1>9 DEF IsWalk
<1>13. w[n] = f[N]
  BY <1>1
<1> HIDE DEF w
<1> QED
  BY <1>7, <1>11, <1>12, <1>13

(* What is passed over is like something kept, or like something taken     *)
(* from further up.                                                        *)
Blocked(i, ranking, taken, kept, corr) ==
  \E b \in kept \cup taken :
    /\ Rule!Alike(corr, ranking[i], b)
    /\ b \in kept \/ \E l \in 1..(i - 1) : ranking[l] = b

(* What holds k names down the walk.                                       *)
Picks(p, k, ranking, allowed, kept, room, corr) ==
  LET taken == Rule!ToSet(p)
  IN  /\ taken \subseteq allowed \ kept
      /\ \A t \in taken : \E i \in 1..k : ranking[i] = t
      /\ \A i, j \in DOMAIN p : i # j => p[i] # p[j]
      /\ p # <<>> => Len(p) <= room
      /\ \A t \in taken, b \in kept \cup taken : b # t => ~Rule!Alike(corr, t, b)
      /\ \A i \in 1..k : ranking[i] \in allowed \ (kept \cup taken) =>
           \/ Blocked(i, ranking, taken, kept, corr)
           \/ Len(p) >= room /\ \A j \in 1..k : j > i => ranking[j] \notin taken

LEMMA AlikeIsMutual == \A corr, m, n : Rule!Alike(corr, m, n) <=> Rule!Alike(corr, n, m)
<1>1. \A m, n : {m, n} = {n, m}
  OBVIOUS
<1> QED
  BY <1>1 DEF Rule!Alike

LEMMA TakenGrows ==
  ASSUME NEW S, NEW p \in Seq(S), NEW t \in S
  PROVE  /\ Append(p, t) \in Seq(S) /\ Len(Append(p, t)) = Len(p) + 1
         /\ Append(p, t) # <<>>
         /\ Rule!ToSet(Append(p, t)) = Rule!ToSet(p) \cup {t}
         /\ \A i \in DOMAIN Append(p, t) :
              (i \in DOMAIN p /\ Append(p, t)[i] = p[i]) \/ (i = Len(p) + 1 /\ Append(p, t)[i] = t)
<1> DEFINE o == Append(p, t)
<1>1. /\ o \in Seq(S) /\ Len(o) = Len(p) + 1 /\ Len(p) \in Nat
      /\ DOMAIN o = 1..(Len(p) + 1) /\ DOMAIN p = 1..Len(p)
      /\ \A i \in 1..Len(p) : o[i] = p[i]
      /\ o[Len(p) + 1] = t
  OBVIOUS
<1> HIDE DEF o
<1>2. \A i \in DOMAIN o : (i \in DOMAIN p /\ o[i] = p[i]) \/ (i = Len(p) + 1 /\ o[i] = t)
  BY <1>1
<1>3. \A x : x \in Rule!ToSet(o) <=> x \in Rule!ToSet(p) \cup {t}
  <2>1. \A x : x \in Rule!ToSet(o) <=> \E i \in DOMAIN o : o[i] = x
    BY RuleToSet
  <2>2. \A x : x \in Rule!ToSet(p) <=> \E i \in DOMAIN p : p[i] = x
    BY RuleToSet
  <2>3. \A i \in DOMAIN p : i \in DOMAIN o /\ o[i] = p[i]
    BY <1>1
  <2>4. Len(p) + 1 \in DOMAIN o
    BY <1>1
  <2> QED
    BY <1>1, <1>2, <2>1, <2>2, <2>3, <2>4
<1>4. o # <<>>
  BY <1>1
<1>5. Rule!ToSet(o) = Rule!ToSet(p) \cup {t}
  BY <1>3
<1> QED
  BY <1>1, <1>2, <1>4, <1>5 DEF o

(* Every step of a walk keeps it so.                                       *)
LEMMA PickStep ==
  ASSUME NEW S, NEW ranking \in Seq(S), \A i, j \in DOMAIN ranking : i # j => ranking[i] # ranking[j],
         NEW allowed, NEW kept, NEW room \in Int, NEW corr, NEW k \in 0..(Len(ranking) - 1),
         NEW p \in Seq(S), Picks(p, k, ranking, allowed, kept, room, corr),
         NEW o, o = Admit(p, ranking[k + 1], allowed, kept, room, corr)
  PROVE  o \in Seq(S) /\ Picks(o, k + 1, ranking, allowed, kept, room, corr)
<1> DEFINE n == Len(ranking)
           t == ranking[k + 1]
           T == Rule!ToSet(p)
<1>1. /\ n \in Nat /\ k \in Nat /\ k + 1 \in 1..n /\ t \in S /\ DOMAIN ranking = 1..n
      /\ \A i \in 1..(k + 1) : i \in 1..n /\ (i \in 1..k \/ i = k + 1)
      /\ \A i \in 1..k : i \in 1..(k + 1) /\ i < k + 1 /\ i # k + 1 /\ i \in 1..n
      /\ (k + 1) - 1 = k /\ Len(p) \in Nat
  OBVIOUS
<1>2. /\ T \subseteq allowed \ kept
      /\ \A x \in T : \E i \in 1..k : ranking[i] = x
      /\ \A i, j \in DOMAIN p : i # j => p[i] # p[j]
      /\ p # <<>> => Len(p) <= room
      /\ \A x \in T, b \in kept \cup T : b # x => ~Rule!Alike(corr, x, b)
      /\ \A i \in 1..k : ranking[i] \in allowed \ (kept \cup T) =>
           \/ Blocked(i, ranking, T, kept, corr)
           \/ Len(p) >= room /\ \A j \in 1..k : j > i => ranking[j] \notin T
  BY DEF Picks
<1>3. t \notin T
  BY <1>1, <1>2
<1> HIDE DEF t, n, T
<1>4. CASE o = p /\ (\/ t \notin allowed \/ t \in kept \/ Len(p) >= room
                     \/ \E b \in kept \cup T : Rule!Alike(corr, t, b))
  <2>1. \A x \in T : \E i \in 1..(k + 1) : ranking[i] = x
    BY <1>1, <1>2
  <2>2. ASSUME NEW i \in 1..(k + 1), ranking[i] \in allowed \ (kept \cup T)
        PROVE  \/ Blocked(i, ranking, T, kept, corr)
               \/ Len(p) >= room /\ \A j \in 1..(k + 1) : j > i => ranking[j] \notin T
    <3>1. CASE i \in 1..k
      <4>1. \A j \in 1..(k + 1) : ranking[j] \in T => j \in 1..k
        BY <1>1, <1>3 DEF t
      <4> QED
        BY <1>2, <2>2, <3>1, <4>1
    <3>2. CASE i = k + 1
      <4>1. CASE Len(p) >= room
        <5>1. \A j \in 1..(k + 1) : ~(j > i)
          BY <1>1, <3>2
        <5> QED
          BY <4>1, <5>1
      <4>2. CASE \E b \in kept \cup T : Rule!Alike(corr, t, b)
        <5>1. Blocked(i, ranking, T, kept, corr)
          BY <1>1, <1>2, <3>2, <4>2 DEF Blocked, t
        <5> QED
          BY <5>1
      <4> QED
        BY <1>4, <2>2, <3>2, <4>1, <4>2 DEF t
    <3> QED
      BY <1>1, <3>1, <3>2
  <2>3. Picks(p, k + 1, ranking, allowed, kept, room, corr)
    BY <1>2, <2>1, <2>2 DEF Picks, T
  <2> QED
    BY <1>4, <2>3
<1>5. CASE /\ o = Append(p, t)
           /\ t \in allowed /\ t \notin kept /\ ~(Len(p) >= room)
           /\ \A b \in kept \cup T : ~Rule!Alike(corr, t, b)
  <2> DEFINE U == Rule!ToSet(o)
  <2>1. /\ o \in Seq(S) /\ Len(o) = Len(p) + 1 /\ U = T \cup {t}
        /\ \A i \in DOMAIN o :
             (i \in DOMAIN p /\ o[i] = p[i]) \/ (i = Len(p) + 1 /\ o[i] = t)
    BY <1>1, <1>5, TakenGrows DEF T
  <2> HIDE DEF U
  <2>2. U \subseteq allowed \ kept
    BY <1>2, <1>5, <2>1
  <2>3. \A x \in U : \E i \in 1..(k + 1) : ranking[i] = x
    <3>1. k + 1 \in 1..(k + 1) /\ ranking[k + 1] = t
      BY <1>1 DEF t
    <3> QED
      BY <1>1, <1>2, <2>1, <3>1
  <2>4. \A i, j \in DOMAIN o : i # j => o[i] # o[j]
    <3>1. \A i \in DOMAIN p : p[i] \in T
      BY RuleToSet DEF T
    <3> QED
      BY <1>2, <1>3, <2>1, <3>1
  <2>5. o # <<>> => Len(o) <= room
    BY <1>1, <1>5, <2>1
  <2>6. \A x \in U, b \in kept \cup U : b # x => ~Rule!Alike(corr, x, b)
    BY <1>2, <1>5, <2>1, AlikeIsMutual
  <2>7. ASSUME NEW i \in 1..(k + 1), ranking[i] \in allowed \ (kept \cup U)
        PROVE  Blocked(i, ranking, U, kept, corr)
    <3>1. i \in 1..k /\ ranking[i] \in allowed \ (kept \cup T)
      BY <1>1, <2>1, <2>7 DEF t
    <3>2. Blocked(i, ranking, T, kept, corr)
      BY <1>2, <1>5, <3>1
    <3> QED
      BY <2>1, <3>2 DEF Blocked
  <2>8. Picks(o, k + 1, ranking, allowed, kept, room, corr)
    BY <2>2, <2>3, <2>4, <2>5, <2>6, <2>7 DEF Picks, U
  <2> QED
    BY <2>1, <2>8
<1> QED
  BY <1>4, <1>5 DEF Admit, t, T

(* So it is at the end of the walk.                                        *)
LEMMA WalkPicks ==
  ASSUME NEW S, NEW ranking \in Seq(S), \A i, j \in DOMAIN ranking : i # j => ranking[i] # ranking[j],
         NEW allowed, NEW kept, NEW room \in Int, NEW corr
  PROVE  LET p == Rule!Diversified(ranking, allowed, kept, room, corr)
         IN  p \in Seq(S) /\ Picks(p, Len(ranking), ranking, allowed, kept, room, corr)
<1> DEFINE n == Len(ranking)
<1>1. n \in Nat
  OBVIOUS
<1>2. PICK w \in [0..n -> Seq(S)] :
        /\ IsWalk(w, ranking, allowed, kept, room, corr)
        /\ w[n] = Rule!Diversified(ranking, allowed, kept, room, corr)
  BY WalkLeads
<1>3. /\ w[0] = <<>>
      /\ \A i \in 1..n : w[i] = Admit(w[i - 1], ranking[i], allowed, kept, room, corr)
  BY <1>2 DEF IsWalk
<1> DEFINE G == {k \in 0..n : Picks(w[k], k, ranking, allowed, kept, room, corr)}
<1>4. 0 \in G
  <2>1. Rule!ToSet(<<>>) = {}
    BY RuleToSet
  <2>2. 1..0 = {} /\ 0 \in 0..n /\ DOMAIN <<>> = {}
    BY <1>1
  <2>3. Picks(<<>>, 0, ranking, allowed, kept, room, corr)
    BY <2>1, <2>2 DEF Picks
  <2> QED
    BY <1>3, <2>2, <2>3
<1>5. ASSUME NEW k \in 0..(n - 1), k \in G PROVE k + 1 \in G
  <2>1. k + 1 \in 1..n /\ (k + 1) - 1 = k /\ k + 1 \in 0..n /\ k \in 0..n
    BY <1>1
  <2>2. w[k + 1] = Admit(w[k], ranking[k + 1], allowed, kept, room, corr)
    BY <1>3, <2>1
  <2>3. w[k] \in Seq(S)
    BY <2>1
  <2>4. Picks(w[k + 1], k + 1, ranking, allowed, kept, room, corr)
    BY <1>5, <2>2, <2>3, PickStep
  <2> QED
    BY <2>1, <2>4
<1>6. n \in G
  <2> HIDE DEF G, n
  <2>1. \A k \in 0..n : k \in G
    BY <1>1, <1>4, <1>5, UpTo
  <2> QED
    BY <1>1, <2>1
<1> QED
  BY <1>1, <1>2, <1>6

(* What is sized: proportions that are positive.                           *)
Proportioned(f) == IsFiniteSet(DOMAIN f) /\ \A x \in DOMAIN f : f[x] \in Nat \ {0}

(* What is capped leaves something to share, and is no less than the rest. *)
IsCut(f, capped) ==
  /\ capped \subseteq DOMAIN f
  /\ CapOver * Cardinality(capped) < CapUnder
  /\ \A x \in capped, y \in DOMAIN f \ capped : f[y] <= f[x]

LEMMA OverCapIs ==
  ASSUME NEW f, NEW capped
  PROVE  \A x : x \in Rule!OverCap(f, capped) <=>
           /\ x \in DOMAIN f \ capped
           /\ f[x] * (CapUnder - CapOver * Cardinality(capped))
                > CapOver * SumFunctionOnSet(f, DOMAIN f \ capped)
  BY RuleCounts, RuleSums DEF Rule!OverCap, Rule!Total

(* A round caps what exceeds its share, and that cannot be all: of what is *)
(* left to share it had more than the cap allows as many.                  *)
LEMMA RoundCuts ==
  ASSUME Rule!CapAssumption, NEW f, Proportioned(f), NEW K, IsCut(f, K),
         NEW O, O = Rule!OverCap(f, K)
  PROVE  /\ IsCut(f, K \cup O)
         /\ O # {} => Cardinality(K \cup O) > Cardinality(K)
<1> DEFINE D == DOMAIN f
           F == D \ K
           a == CapOver
           r == CapUnder - CapOver * Cardinality(K)
           total == SumFunctionOnSet(f, F)
           part == SumFunctionOnSet(f, O)
           k == Cardinality(K)
           l == Cardinality(O)
<1>1. /\ \A x : x \in O <=> x \in F /\ f[x] * r > a * total
      /\ O \subseteq F
  BY OverCapIs
<1>2. a \in Nat \ {0} /\ CapUnder \in Nat \ {0}
  BY DEF Rule!CapAssumption
<1>3. K \subseteq D /\ a * k < CapUnder /\ \A x \in K, y \in D \ K : f[y] <= f[x]
  BY DEF IsCut
<1>4. IsFiniteSet(D) /\ \A x \in D : f[x] \in Nat \ {0}
  BY DEF Proportioned
<1>5. /\ IsFiniteSet(K) /\ IsFiniteSet(O) /\ IsFiniteSet(F) /\ K \cap O = {}
      /\ k \in Nat /\ l \in Nat
  BY <1>1, <1>3, <1>4, FS_Subset, FS_CardinalityType
<1>6. Cardinality(K \cup O) = k + l
  <2>1. Cardinality(K \cap O) = 0
    BY <1>5, FS_EmptySet
  <2>2. Cardinality(K \cup O) = k + l - Cardinality(K \cap O)
    BY <1>5, FS_Union
  <2> QED
    BY <1>5, <2>1, <2>2
<1>7. total \in Nat /\ part \in Nat /\ part <= total
  <2>1. \A x \in F : f[x] \in Nat
    BY <1>4
  <2>2. \A x \in O : f[x] \in Nat
    BY <1>1, <2>1
  <2>3. O \in SUBSET F
    BY <1>1
  <2> HIDE DEF F
  <2> QED
    BY <1>5, <2>1, <2>2, <2>3, SumNotNegative, SumOfPart
<1>8. r \in Int /\ r > 0 /\ a * k \in Int
  BY <1>2, <1>3, <1>5
<1> HIDE DEF total, part, r, k, l, F, D
<1>9. a * (k + l) < CapUnder
  <2>1. CASE O = {}
    <3>1. l = 0
      BY <2>1, FS_EmptySet DEF l
    <3> QED
      BY <1>3, <1>5, <3>1
  <2>2. CASE O # {}
    <3>1. part * r > (a * total) * l
      <4>1. a * total \in Int
        BY <1>2, <1>7
      <4> DEFINE c == a * total
      <4>2. c \in Int /\ \A x \in O : f[x] \in Int /\ f[x] * r > c
        BY <1>1, <1>4, <4>1 DEF F
      <4> HIDE DEF c
      <4>3. part * r > c * l
        BY <1>5, <1>8, <2>2, <4>2, SumExceeds DEF part, l
      <4> QED
        BY <4>3 DEF c
    <3>2. total * r >= part * r
      BY <1>7, <1>8
    <3>3. total * r > total * (a * l)
      <4>1. (a * total) * l = total * (a * l)
        BY <1>2, <1>5, <1>7
      <4>2. total * r \in Int /\ part * r \in Int /\ total * (a * l) \in Int
        BY <1>2, <1>5, <1>7, <1>8
      <4> QED
        BY <3>1, <3>2, <4>1, <4>2
    <3>4. r > a * l
      <4>1. a * l \in Nat
        BY <1>2, <1>5
      <4> SUFFICES ASSUME r <= a * l PROVE FALSE
        BY <1>8, <4>1
      <4>2. total * r <= total * (a * l)
        <5> DEFINE m == a * l
        <5>1. m \in Nat /\ r <= m
          BY <4>1
        <5> HIDE DEF m
        <5>2. total * r <= total * m
          BY <1>7, <1>8, <5>1
        <5> QED
          BY <5>2 DEF m
      <4>3. total * r \in Int /\ total * (a * l) \in Int
        BY <1>7, <1>8, <4>1
      <4> QED
        BY <3>3, <4>2, <4>3
    <3>5. a * (k + l) = a * k + a * l /\ a * l \in Int
      BY <1>2, <1>5
    <3> QED
      BY <1>2, <1>8, <3>4, <3>5 DEF r, k
  <2> QED
    BY <2>1, <2>2
<1>10. ASSUME NEW x \in K \cup O, NEW y \in D \ (K \cup O) PROVE f[y] <= f[x]
  <2>1. CASE x \in K
    BY <1>3, <2>1
  <2>2. CASE x \in O
    <3>1. x \in D /\ y \in F /\ y \notin O
      BY <1>1, <1>10, <2>2 DEF F
    <3>2. f[x] * r > a * total /\ ~(f[y] * r > a * total)
      BY <1>1, <2>2, <3>1
    <3>3. f[x] \in Nat /\ f[y] \in Nat /\ a * total \in Int
      BY <1>2, <1>4, <1>7, <1>10, <3>1
    <3> SUFFICES ASSUME f[x] < f[y] PROVE FALSE
      BY <3>3
    <3>4. f[x] * r <= f[y] * r /\ f[x] * r \in Int /\ f[y] * r \in Int
      BY <1>8, <3>3
    <3> QED
      BY <3>2, <3>3, <3>4
  <2> QED
    BY <1>10, <2>1, <2>2
<1>11. IsCut(f, K \cup O)
  <2>1. K \cup O \subseteq D
    BY <1>1, <1>3 DEF F
  <2>2. a * Cardinality(K \cup O) < CapUnder
    BY <1>6, <1>9
  <2> QED
    BY <1>10, <2>1, <2>2 DEF IsCut, D
<1>12. O # {} => k + l > k
  <2>1. O # {} => l # 0
    BY <1>5, FS_EmptySet DEF l
  <2> QED
    BY <1>5, <2>1
<1> QED
  BY <1>6, <1>11, <1>12 DEF k

(* The rounds: nothing capped, and then what exceeds its share.            *)
LEMMA RoundsLead ==
  ASSUME NEW f, IsFiniteSet(DOMAIN f)
  PROVE  \E w \in [0..Cardinality(DOMAIN f) -> SUBSET DOMAIN f] :
           /\ w[0] = {}
           /\ \A i \in 1..Cardinality(DOMAIN f) :
                w[i] = w[i - 1] \cup Rule!OverCap(f, w[i - 1])
           /\ w[Cardinality(DOMAIN f)] = Rule!Capped(f)
<1> DEFINE D == DOMAIN f
           n == Cardinality(D)
           N == 1..n
           A(capped) == capped \cup Rule!OverCap(f, capped)
           Y == SUBSET D
           q == [i \in N |-> [capped \in Y |-> A(capped)]]
           c == [T \in SUBSET N |-> Rule!Max(T)]
           E(g) == g = [s \in SUBSET N |-> IF s = {} THEN {} ELSE A(g[s \ {Rule!Max(s)}])]
<1>1. n \in Nat
  BY FS_CardinalityType
<1>2. \A capped \in Y : A(capped) \in Y
  BY OverCapIs
<1>3. \A T \in SUBSET N : T # {} => Rule!Max(T) \in T
  BY <1>1, Greatest
<1>4. PICK g : IsFold(g, {}, q, c, N, Y)
  <2> DEFINE none == {}
  <2>1. IsFiniteSet(N) /\ none \in Y
    BY <1>1, FS_Interval
  <2>2. Combines(q, N, Y)
    <3> HIDE DEF A, Y
    <3> QED
      BY <1>2 DEF Combines
  <2>3. Chooses(c, N)
    BY <1>3 DEF Chooses
  <2> HIDE DEF q, c, N, Y, none
  <2>4. \E g : IsFold(g, none, q, c, N, Y)
    BY <2>1, <2>2, <2>3, FoldExists
  <2> QED
    BY <2>4 DEF none
<1>5. E(g)
  <2> HIDE DEF A, Y
  <2>1. /\ g \in [SUBSET N -> Y]
        /\ \A s \in SUBSET N : g[s] = IF s = {} THEN {} ELSE q[c[s]][g[s \ {c[s]}]]
    BY <1>4 DEF IsFold
  <2>2. ASSUME NEW s \in SUBSET N, s # {} PROVE g[s] = A(g[s \ {Rule!Max(s)}])
    <3>1. Rule!Max(s) \in N /\ s \ {Rule!Max(s)} \in SUBSET N
      BY <1>3, <2>2
    <3>2. g[s \ {Rule!Max(s)}] \in Y
      BY <2>1, <3>1
    <3> QED
      BY <2>1, <2>2, <3>1, <3>2
  <2>3. \A s \in SUBSET N : g[s] = IF s = {} THEN {} ELSE A(g[s \ {Rule!Max(s)}])
    BY <2>1, <2>2
  <2> QED
    BY <2>1, <2>3
<1> DEFINE h == CHOOSE e : E(e)
<1>6. E(h)
  BY <1>5
<1>7. Rule!Capped(f) = h[N]
  <2> DEFINE rounds == [round \in 1..Rule!Cardinality(DOMAIN f) |-> round]
  <2>1. DOMAIN rounds = N
    BY RuleCounts
  <2> QED
    BY <2>1 DEF Rule!Capped, Rule!FoldLeft, Rule!MapThenFoldSet
<1> HIDE DEF h
<1>8. /\ h[1..0] = {}
      /\ \A i \in 1..n : h[1..i] = A(h[1..(i - 1)])
  <2> HIDE DEF A
  <2>1. \A s \in SUBSET N : h[s] = IF s = {} THEN {} ELSE A(h[s \ {Rule!Max(s)}])
    BY <1>6
  <2>2. 1..0 = {} /\ {} \in SUBSET N
    OBVIOUS
  <2>3. ASSUME NEW i \in 1..n PROVE h[1..i] = A(h[1..(i - 1)])
    <3>1. i \in Nat \ {0} /\ i <= n
      BY <1>1
    <3>2. Rule!Max(1..i) = i /\ (1..i) \ {i} = 1..(i - 1)
      BY <3>1, HeadOfCount
    <3>3. \A x \in 1..i : x \in 1..n
      BY <1>1, <3>1
    <3>4. i \in 1..i
      BY <3>1
    <3> QED
      BY <2>1, <3>2, <3>3, <3>4
  <2> QED
    BY <2>1, <2>2, <2>3
<1> DEFINE w == [i \in 0..n |-> h[1..i]]
<1>9. w[0] = {} /\ \A i \in 1..n : w[i] = A(w[i - 1])
  <2> HIDE DEF A, n
  <2>1. \A i \in 1..n : i \in 0..n /\ i - 1 \in 0..n
    BY <1>1
  <2>2. 0 \in 0..n
    BY <1>1
  <2>3. w[0] = {}
    BY <1>8, <2>2
  <2>4. ASSUME NEW i \in 1..n PROVE w[i] = A(w[i - 1])
    <3>1. w[i] = h[1..i] /\ w[i - 1] = h[1..(i - 1)]
      BY <2>1
    <3>2. h[1..i] = A(h[1..(i - 1)])
      BY <1>8
    <3> HIDE DEF w
    <3> QED
      BY <3>1, <3>2
  <2> QED
    BY <2>3, <2>4
<1>10. \A i \in 0..n : w[i] \in Y
  <2> DEFINE G == {i \in 0..n : w[i] \in Y}
  <2> HIDE DEF w, A
  <2>1. 0 \in G
    <3>1. w[0] \in Y
      BY <1>9
    <3>2. 0 \in 0..n
      BY <1>1
    <3> QED
      BY <3>1, <3>2
  <2>2. ASSUME NEW i \in 0..(n - 1), i \in G PROVE i + 1 \in G
    <3>1. i + 1 \in 1..n /\ (i + 1) - 1 = i /\ i + 1 \in 0..n
      BY <1>1
    <3>2. w[i + 1] = A(w[i])
      BY <1>9, <3>1
    <3> HIDE DEF Y
    <3> QED
      BY <1>2, <2>2, <3>1, <3>2
  <2>3. \A i \in 0..n : i \in G
    <3> HIDE DEF G
    <3> QED
      BY <1>1, <2>1, <2>2, UpTo
  <2> QED
    BY <2>3
<1>11. w \in [0..n -> Y] /\ w[n] = h[N]
  BY <1>1, <1>10
<1> HIDE DEF w
<1> QED
  BY <1>7, <1>9, <1>11

(* A cap that all together can bear is kept by every name: the rounds stop *)
(* when none exceeds it, and each before caps one more name.               *)
LEMMA CappedCuts ==
  ASSUME Rule!CapAssumption, NEW f, Proportioned(f), CapOver * Cardinality(DOMAIN f) > CapUnder
  PROVE  IsCut(f, Rule!Capped(f)) /\ Rule!OverCap(f, Rule!Capped(f)) = {}
<1> DEFINE D == DOMAIN f
           n == Cardinality(D)
<1>1. n \in Nat /\ IsFiniteSet(D)
  BY FS_CardinalityType DEF Proportioned
<1>2. PICK w \in [0..n -> SUBSET D] :
        /\ w[0] = {}
        /\ \A i \in 1..n : w[i] = w[i - 1] \cup Rule!OverCap(f, w[i - 1])
        /\ w[n] = Rule!Capped(f)
  BY <1>1, RoundsLead
<1> DEFINE G == {i \in 0..n : /\ IsCut(f, w[i])
                              /\ Rule!OverCap(f, w[i]) = {} \/ Cardinality(w[i]) >= i}
<1>3. 0 \in G
  <2>1. Cardinality({}) = 0 /\ CapOver \in Nat /\ CapUnder \in Nat \ {0}
    BY FS_EmptySet DEF Rule!CapAssumption
  <2>2. IsCut(f, {})
    BY <2>1 DEF IsCut
  <2>3. w[0] = {} /\ 0 \in 0..n
    BY <1>1, <1>2
  <2>4. IsCut(f, w[0]) /\ Cardinality(w[0]) >= 0
    BY <2>1, <2>2, <2>3
  <2> QED
    BY <2>3, <2>4
<1>4. ASSUME NEW i \in 0..(n - 1), i \in G PROVE i + 1 \in G
  <2>1. i + 1 \in 1..n /\ (i + 1) - 1 = i /\ i + 1 \in 0..n /\ i \in 0..n /\ i \in Nat
    BY <1>1
  <2> DEFINE K == w[i]
             O == Rule!OverCap(f, K)
             L == w[i + 1]
  <2>2. L = K \cup O
    BY <1>2, <2>1
  <2>3. IsCut(f, K) /\ (O = {} \/ Cardinality(K) >= i)
    BY <1>4
  <2>4. K \subseteq D /\ L \subseteq D
    BY <1>2, <2>1
  <2>5. Cardinality(K) \in Nat /\ Cardinality(L) \in Nat
    BY <1>1, <2>4, FS_Subset, FS_CardinalityType
  <2> HIDE DEF K, O, L
  <2>6. IsCut(f, L) /\ (O # {} => Cardinality(L) > Cardinality(K))
    BY <2>2, <2>3, RoundCuts DEF O
  <2>7. CASE O = {}
    <3>1. L = K
      BY <2>2, <2>7
    <3>2. Rule!OverCap(f, L) = {}
      BY <2>7, <3>1 DEF O
    <3> QED
      BY <2>1, <2>6, <3>2 DEF L
  <2>8. CASE O # {}
    <3>1. Cardinality(L) >= i + 1
      BY <2>1, <2>3, <2>5, <2>6, <2>8
    <3> QED
      BY <2>1, <2>6, <3>1 DEF L
  <2> QED
    BY <2>7, <2>8
<1>5. n \in G
  <2> HIDE DEF G, n
  <2>1. \A k \in 0..n : k \in G
    BY <1>1, <1>3, <1>4, UpTo
  <2> QED
    BY <1>1, <2>1
<1> DEFINE K == Rule!Capped(f)
<1>6. IsCut(f, K) /\ (Rule!OverCap(f, K) = {} \/ Cardinality(K) >= n)
  BY <1>2, <1>5
<1>7. ~(Cardinality(K) >= n)
  <2>1. K \subseteq D /\ CapOver * Cardinality(K) < CapUnder
    BY <1>6 DEF IsCut
  <2>2. Cardinality(K) <= n /\ Cardinality(K) \in Nat
    BY <1>1, <2>1, FS_Subset, FS_CardinalityType
  <2>3. Cardinality(K) # n
    BY <1>1, <2>1 DEF Rule!CapAssumption
  <2> QED
    BY <1>1, <2>2, <2>3
<1> QED
  BY <1>6, <1>7

(* The ranks that a blend adds up are whole numbers.                       *)
LEMMA ValuesAreInt ==
  ASSUME Rule!CountsAssumption, NEW score, IsFiniteSet(DOMAIN score), NEW overlay,
         \A n \in DOMAIN score : score[n] \in Int
  PROVE  \A n \in DOMAIN score : Rule!Value(score, overlay, FALSE).of[n] \in Int
<1> DEFINE D == DOMAIN score
           ov == [n \in Rule!Seen(score, overlay) |-> overlay.bars[n]]
           k == Rule!Cardinality(D)
           j == Rule!Parts(score, overlay)
<1>1. \A S \in SUBSET D : Rule!Cardinality(S) \in Nat
  BY FS_Subset, FS_CardinalityType, RuleCounts
<1>2. k \in Nat /\ j \in Nat /\ OverlayWeight \in Nat
  <2> DEFINE c == Rule!Cardinality(Rule!Seen(score, overlay))
  <2>1. D \in SUBSET D /\ Rule!Seen(score, overlay) \in SUBSET D
    BY DEF Rule!Seen
  <2>2. k \in Nat /\ c \in Nat
    BY <1>1, <2>1
  <2>3. j = IF c > 1 THEN c ELSE 1
    <3> HIDE DEF c
    <3>1. Rule!Max({1, c}) = IF c > 1 THEN c ELSE 1
      BY <2>2 DEF Rule!Max
    <3> QED
      BY <3>1 DEF Rule!Parts, c
  <2> HIDE DEF c, j, k
  <2> QED
    BY <2>2, <2>3 DEF Rule!CountsAssumption
<1>3. \A n \in D : Rule!RankOf(score, n) \in Nat /\ Rule!RankOf(ov, n) \in Nat
  <2> SUFFICES ASSUME NEW n \in D PROVE Rule!RankOf(score, n) \in Nat /\ Rule!RankOf(ov, n) \in Nat
    OBVIOUS
  <2>1. /\ {m \in DOMAIN score : score[m] < score[n]} \in SUBSET D
        /\ {m \in DOMAIN score : score[m] = score[n]} \in SUBSET D
    OBVIOUS
  <2>2. DOMAIN ov \subseteq D
    BY DEF Rule!Seen
  <2> HIDE DEF ov
  <2>3. /\ {m \in DOMAIN ov : ov[m] < ov[n]} \in SUBSET D
        /\ {m \in DOMAIN ov : ov[m] = ov[n]} \in SUBSET D
    BY <2>2
  <2>4. /\ Rule!Cardinality({m \in DOMAIN score : score[m] < score[n]}) \in Nat
        /\ Rule!Cardinality({m \in DOMAIN score : score[m] = score[n]}) \in Nat
        /\ Rule!Cardinality({m \in DOMAIN ov : ov[m] < ov[n]}) \in Nat
        /\ Rule!Cardinality({m \in DOMAIN ov : ov[m] = ov[n]}) \in Nat
    BY <1>1, <2>1, <2>3
  <2> QED
    BY <2>4 DEF Rule!RankOf
<1>4. ASSUME NEW n \in D PROVE Rule!Blend(score, overlay)[n] \in Int
  <2> DEFINE extra == IF n \in DOMAIN ov THEN Rule!RankOf(ov, n) * k ELSE k * j
  <2>1. Rule!Blend(score, overlay)[n] = Rule!RankOf(score, n) * j + OverlayWeight * extra
    BY DEF Rule!Blend
  <2>2. Rule!RankOf(score, n) \in Nat /\ Rule!RankOf(ov, n) \in Nat
    BY <1>3
  <2> HIDE DEF ov, k, j
  <2>3. extra \in Nat
    BY <1>2, <2>2
  <2> HIDE DEF extra
  <2> QED
    BY <1>2, <2>1, <2>2, <2>3
<1> QED
  BY <1>4 DEF Rule!Value

LEMMA DistinctCount ==
  ASSUME NEW S, NEW p \in Seq(S), \A i, j \in DOMAIN p : i # j => p[i] # p[j]
  PROVE  /\ IsFiniteSet(Rule!ToSet(p)) /\ Cardinality(Rule!ToSet(p)) = Len(p)
         /\ Rule!ToSet(p) \subseteq S
<1> DEFINE T == Rule!ToSet(p)
           n == Len(p)
<1>1. /\ n \in Nat /\ DOMAIN p = 1..n /\ p \in [1..n -> S]
      /\ \A x : x \in T <=> \E i \in 1..n : p[i] = x
  <2>1. n \in Nat /\ DOMAIN p = 1..n /\ p \in [1..n -> S]
    BY LenProperties
  <2> QED
    BY <2>1, RuleToSet
<1> HIDE DEF T, n
<1>2. p \in Bijection(1..n, T)
  BY <1>1 DEF Bijection, Injection, Surjection, IsInjective
<1>3. IsFiniteSet(1..n) /\ Cardinality(1..n) = n
  BY <1>1, FS_Interval
<1>4. ExistsBijection(1..n, T)
  BY <1>2 DEF ExistsBijection
<1>5. IsFiniteSet(T) /\ Cardinality(T) = n
  <2> DEFINE N == 1..n
  <2>1. IsFiniteSet(N) /\ Cardinality(N) = n /\ ExistsBijection(N, T)
    BY <1>3, <1>4
  <2> HIDE DEF N
  <2> QED
    BY <2>1, FS_Bijection
<1>6. T \subseteq S
  BY <1>1
<1> QED
  BY <1>5, <1>6 DEF T, n

(* What may be bought, and what is sold.                                    *)
Allowed(score, overlay, exits, only) ==
  Rule!Candidates(score, exits, Rule!Kept(score, overlay, only), only)
Leaving(owns, score, overlay, corr, only) ==
  (owns \ Rule!Kept(score, overlay, only))
    \cup Rule!ClusterExits(owns, Rule!Value(score, overlay, only), corr)

LEMMA DecideSells ==
  \A owns, score, overlay, corr, only : DOMAIN score # {} =>
    Rule!Decide(owns, score, overlay, corr, only).exit = Leaving(owns, score, overlay, corr, only)
  BY DEF Rule!Decide, Leaving, Rule!Kept

LEMMA DecideBuys ==
  ASSUME NEW owns, NEW score, NEW overlay, NEW corr, NEW only, DOMAIN score # {}, NEW d,
         d = Rule!Decide(owns, score, overlay, corr, only)
  PROVE  d.enter = Rule!Diversified(Rule!Order(score, overlay),
                                    Allowed(score, overlay, d.exit, only), owns \ d.exit,
                                    RuleHold - Cardinality(owns \ d.exit), corr)
  BY RuleCounts DEF Rule!Decide, Allowed, Rule!Kept

LEMMA DecideHolds ==
  \A owns, score, overlay, corr, only : DOMAIN score # {} =>
    Rule!Decide(owns, score, overlay, corr, only).hold =
      (owns \ Rule!Decide(owns, score, overlay, corr, only).exit)
        \cup Rule!ToSet(Rule!Decide(owns, score, overlay, corr, only).enter)
<1> SUFFICES ASSUME NEW owns, NEW score, NEW overlay, NEW corr, NEW only, DOMAIN score # {},
                    NEW d, d = Rule!Decide(owns, score, overlay, corr, only)
             PROVE  d.hold = (owns \ d.exit) \cup Rule!ToSet(d.enter)
  OBVIOUS
<1> QED
  BY DEF Rule!Decide

LEMMA DecideWeighs ==
  \A owns, score, overlay, corr, only : DOMAIN score # {} =>
    Rule!Decide(owns, score, overlay, corr, only).weights =
      Rule!Weights(Rule!Decide(owns, score, overlay, corr, only).hold, corr)
  BY DEF Rule!Decide

LEMMA DecideNothing ==
  \A owns, score, overlay, corr, only : DOMAIN score = {} =>
    /\ Rule!Decide(owns, score, overlay, corr, only).exit = {}
    /\ Rule!Decide(owns, score, overlay, corr, only).enter = <<>>
    /\ Rule!Decide(owns, score, overlay, corr, only).hold = owns
    /\ Rule!Decide(owns, score, overlay, corr, only).weights.of = <<>>
    /\ Rule!Decide(owns, score, overlay, corr, only).weights.capped = {}
  BY DEF Rule!Decide

(* What breaks the ties of a ranking: numbers, of what is ranked.          *)
Given == Overlays \cup {Rule!NoOverlay}
LEMMA TiesAreInt ==
  ASSUME Rule!PanelsAssumption, NEW score \in Panels, NEW overlay \in Given
  PROVE  /\ DOMAIN Rule!Ties(score, overlay) = DOMAIN score
         /\ \A n \in DOMAIN score : Rule!Ties(score, overlay)[n] \in Int
<1>1. DOMAIN score \subseteq Names /\ \A n \in DOMAIN score : score[n] \in Int
  BY DEF Rule!PanelsAssumption
<1>2. overlay # Rule!NoOverlay => overlay.ties \in [Names -> Int]
  BY DEF Rule!PanelsAssumption, Given
<1>3. CASE Rule!Blends(overlay)
  <2>1. overlay.ties \in [Names -> Int]
    BY <1>2, <1>3 DEF Rule!Blends
  <2> QED
    BY <1>1, <1>3, <2>1 DEF Rule!Ties
<1>4. CASE ~Rule!Blends(overlay)
  BY <1>1, <1>4 DEF Rule!Ties
<1> QED
  BY <1>3, <1>4

(* What is decided is picked on a walk down a ranking.                     *)
LEMMA DecisionPicks ==
  ASSUME Rule!CountsAssumption, Rule!PanelsAssumption, NEW owns \in SUBSET Names,
         NEW score \in Panels, DOMAIN score # {}, NEW overlay \in Given, NEW corr, NEW only,
         NEW d, d = Rule!Decide(owns, score, overlay, corr, only)
  PROVE  /\ IsRanking(Rule!Order(score, overlay), Rule!Value(score, overlay, FALSE).of,
                      Rule!Ties(score, overlay))
         /\ d.enter \in Seq(DOMAIN score)
         /\ IsFiniteSet(owns \ d.exit) /\ Cardinality(owns \ d.exit) \in Nat
         /\ Picks(d.enter, Len(Rule!Order(score, overlay)), Rule!Order(score, overlay),
                  Allowed(score, overlay, d.exit, only), owns \ d.exit,
                  RuleHold - Cardinality(owns \ d.exit), corr)
<1> DEFINE ranking == Rule!Order(score, overlay)
           kept == owns \ d.exit
           room == RuleHold - Cardinality(kept)
           allowed == Allowed(score, overlay, d.exit, only)
<1>1. /\ IsFiniteSet(Names) /\ Names \subseteq Int
      /\ DOMAIN score \subseteq Names /\ \A n \in DOMAIN score : score[n] \in Int
  BY RuleFinite DEF Rule!PanelsAssumption
<1>2. IsFiniteSet(DOMAIN score) /\ IsFiniteSet(kept)
  BY <1>1, FS_Subset
<1>3. \A n \in DOMAIN score : Rule!Value(score, overlay, FALSE).of[n] \in Int
  BY <1>1, <1>2, ValuesAreInt
<1>4. IsRanking(ranking, Rule!Value(score, overlay, FALSE).of, Rule!Ties(score, overlay))
  <2> DEFINE v == Rule!Value(score, overlay, FALSE).of
             ties == Rule!Ties(score, overlay)
  <2>1. DOMAIN ties = DOMAIN score /\ \A n \in DOMAIN score : ties[n] \in Int
    BY TiesAreInt
  <2>2. DOMAIN ties \subseteq Int /\ IsFiniteSet(DOMAIN ties)
    BY <1>1, <1>2, <2>1
  <2>3. \A n \in DOMAIN ties : v[n] \in Int /\ ties[n] \in Int
    BY <1>3, <2>1
  <2>4. ranking = Rule!Sorted(v, ties)
    BY DEF Rule!Order
  <2> HIDE DEF v, ties, ranking
  <2>5. IsRanking(ranking, v, ties)
    BY <2>2, <2>3, <2>4, SortedRanks
  <2> QED
    BY <2>5 DEF v, ties
<1>5. /\ ranking \in Seq(DOMAIN score)
      /\ \A i, j \in DOMAIN ranking : i # j => ranking[i] # ranking[j]
  BY <1>4, TiesAreInt DEF IsRanking
<1>6. Cardinality(kept) \in Nat /\ room \in Int
  BY <1>2, FS_CardinalityType DEF Rule!CountsAssumption
<1>7. d.enter = Rule!Diversified(ranking, allowed, kept, room, corr)
  BY DecideBuys
<1> HIDE DEF ranking, kept, room, allowed
<1>8. /\ d.enter \in Seq(DOMAIN score)
      /\ Picks(d.enter, Len(ranking), ranking, allowed, kept, room, corr)
  BY <1>5, <1>6, <1>7, WalkPicks
<1> QED
  BY <1>2, <1>4, <1>6, <1>8 DEF ranking, kept, room, allowed

(* The book and the sessions of the rotation: what a session decided is    *)
(* decided from the book it began with.                                    *)
RuleTypes(s) ==
  /\ s.score \in Panels /\ s.overlay \in Overlays /\ s.corr \in Correlations
  /\ s.decision = Rule!Decide(book, s.score, s.overlay, s.corr, entryOnly)
  /\ s.buys \subseteq Rule!ToSet(s.decision.enter)
RuleInv ==
  /\ entryOnly \in BOOLEAN /\ book \in SUBSET Names
  /\ session # Rule!Between => RuleTypes(session)

(* Sizes are positive for whatever is held.                                *)
LEMMA ProportionsArePositive ==
  ASSUME Rule!CapAssumption, Rule!PanelsAssumption, NEW hold \in SUBSET Names,
         NEW corr \in Correlations
  PROVE  Proportioned(Rule!Proportions(hold, corr)) /\ DOMAIN Rule!Proportions(hold, corr) = hold
<1>1. IsFiniteSet(Names) /\ corr.known \subseteq Names
  BY RuleFinite DEF Rule!PanelsAssumption
<1>2. IsFiniteSet(hold)
  BY <1>1, FS_Subset
<1>3. \A n \in hold : hold \subseteq corr.known => InverseVol[n] \in Nat \ {0}
  BY DEF Rule!CapAssumption
<1> QED
  BY <1>2, <1>3 DEF Proportioned, Rule!Proportions

(* The weights of any book obey the cap.                                   *)
LEMMA WeightsAreCapped ==
  ASSUME Rule!CapAssumption, Rule!PanelsAssumption, NEW hold \in SUBSET Names,
         NEW corr \in Correlations, NEW w, w = Rule!Weights(hold, corr)
  PROVE  /\ w.capped # {} => w.capped # DOMAIN w.of
         /\ CapOver < CapUnder /\ DOMAIN w.of # {} /\ Rule!Satisfiable(w.of)
              => Rule!OverCap(w.of, w.capped) = {}
         /\ \A n \in w.capped, m \in DOMAIN w.of \ w.capped : w.of[m] <= w.of[n]
<1> DEFINE f == Rule!Proportions(hold, corr)
<1>1. Proportioned(f) /\ DOMAIN f = hold
  BY ProportionsArePositive
<1>2. CapOver \in Nat \ {0} /\ CapUnder \in Nat \ {0}
  BY DEF Rule!CapAssumption
<1>3. \A g : Rule!Satisfiable(g) <=> CapOver * Cardinality(DOMAIN g) > CapUnder
  BY RuleCounts DEF Rule!Satisfiable
<1>4. CASE CapOver >= CapUnder \/ hold = {}
  <2>1. w.of = f /\ w.capped = {}
    BY <1>4 DEF Rule!Weights
  <2>2. CapOver < CapUnder => DOMAIN w.of = {}
    <3> SUFFICES ASSUME CapOver < CapUnder PROVE DOMAIN w.of = {}
      OBVIOUS
    <3>1. hold = {}
      BY <1>2, <1>4
    <3> HIDE DEF f
    <3> QED
      BY <1>1, <2>1, <3>1
  <2> QED
    BY <2>1, <2>2
<1>5. CASE ~(CapOver >= CapUnder \/ hold = {}) /\ ~Rule!Satisfiable(f)
  <2> DEFINE equal == [n \in hold |-> 1]
  <2>1. w.of = equal /\ w.capped = {}
    BY <1>5 DEF Rule!Weights
  <2>2. DOMAIN w.of = hold
    BY <2>1
  <2>3. ~Rule!Satisfiable(w.of)
    BY <1>1, <1>3, <1>5, <2>2
  <2> QED
    BY <2>1, <2>3
<1>6. CASE ~(CapOver >= CapUnder \/ hold = {}) /\ Rule!Satisfiable(f)
  <2>1. w.of = f /\ w.capped = Rule!Capped(f)
    BY <1>6 DEF Rule!Weights
  <2> HIDE DEF f
  <2>2. IsCut(f, Rule!Capped(f)) /\ Rule!OverCap(f, Rule!Capped(f)) = {}
    BY <1>1, <1>3, <1>6, CappedCuts
  <2> DEFINE K == Rule!Capped(f)
  <2>3. /\ K \subseteq DOMAIN f /\ CapOver * Cardinality(K) < CapUnder
        /\ \A x \in K, y \in DOMAIN f \ K : f[y] <= f[x]
    BY <2>2 DEF IsCut
  <2>4. K # DOMAIN f
    <3>1. CapOver * Cardinality(DOMAIN f) > CapUnder /\ Cardinality(DOMAIN f) \in Nat
      BY <1>1, <1>3, <1>6, FS_CardinalityType DEF Proportioned
    <3> SUFFICES ASSUME K = DOMAIN f PROVE FALSE
      OBVIOUS
    <3>2. CapOver * Cardinality(DOMAIN f) < CapUnder
      BY <2>3
    <3> QED
      BY <1>2, <3>1, <3>2
  <2> QED
    BY <2>1, <2>2, <2>3, <2>4
<1> QED
  BY <1>4, <1>5, <1>6

(* The book a decision fills, what it passes over and what it buys twice.  *)
LEMMA DecisionIsSound ==
  ASSUME Rule!CountsAssumption, Rule!PanelsAssumption, book \in SUBSET Names, NEW s, RuleTypes(s),
         DOMAIN s.score # {}
  PROVE  Rule!FillsTheBook(s) /\ Rule!StrongestFirst(s) /\ Rule!NoBetTwice(s)
<1> DEFINE d == s.decision
           score == s.score
           overlay == s.overlay
           corr == s.corr
           ranking == Rule!Order(score, overlay)
           v == Rule!Value(score, overlay, FALSE).of
           ties == Rule!Ties(score, overlay)
           kept == book \ d.exit
           taken == Rule!ToSet(d.enter)
           allowed == Allowed(score, overlay, d.exit, entryOnly)
           room == RuleHold - Cardinality(kept)
<1>1. /\ score \in Panels /\ overlay \in Given
      /\ d = Rule!Decide(book, score, overlay, corr, entryOnly)
  BY DEF RuleTypes, Given
<1>2. /\ IsRanking(ranking, v, ties)
      /\ d.enter \in Seq(DOMAIN score)
      /\ IsFiniteSet(kept) /\ Cardinality(kept) \in Nat
      /\ Picks(d.enter, Len(ranking), ranking, allowed, kept, room, corr)
  <2> HIDE DEF d, score, overlay, corr
  <2>1. DOMAIN score # {}
    BY DEF score
  <2> QED
    BY <1>1, <2>1, DecisionPicks
<1>2a. DOMAIN ties = DOMAIN score
  <2> HIDE DEF d, score, overlay, corr
  <2> QED
    BY <1>1, TiesAreInt
<1>3. d.hold = kept \cup taken
  <2> HIDE DEF d, score, overlay, corr
  <2>1. DOMAIN score # {}
    BY DEF score
  <2>2. d.hold = (book \ d.exit) \cup Rule!ToSet(d.enter)
    <3> HIDE DEF ranking, v, allowed, room
    <3> QED
      BY <1>1, <2>1, DecideHolds
  <2> QED
    BY <2>2
<1>4. /\ Rule!PassedOver(s) = allowed \ d.hold
      /\ \A t \in allowed : t \in DOMAIN score /\ t \notin d.exit
  BY DEF Rule!PassedOver, Allowed, Rule!Candidates
<1> HIDE DEF d, score, overlay, corr, ranking, v, ties, kept, taken, allowed, room
<1>5. /\ taken \subseteq allowed \ kept
      /\ \A t \in taken : \E i \in 1..Len(ranking) : ranking[i] = t
      /\ \A i, j \in DOMAIN d.enter : i # j => d.enter[i] # d.enter[j]
      /\ d.enter # <<>> => Len(d.enter) <= room
      /\ \A t \in taken, b \in kept \cup taken : b # t => ~Rule!Alike(corr, t, b)
      /\ \A i \in 1..Len(ranking) : ranking[i] \in allowed \ (kept \cup taken) =>
           \/ Blocked(i, ranking, taken, kept, corr)
           \/ /\ Len(d.enter) >= room
              /\ \A j \in 1..Len(ranking) : j > i => ranking[j] \notin taken
  BY <1>2 DEF Picks, taken
<1>6. /\ IsFiniteSet(taken) /\ Cardinality(taken) = Len(d.enter) /\ taken \subseteq DOMAIN score
      /\ Len(d.enter) \in Nat /\ DOMAIN d.enter = 1..Len(d.enter)
  BY <1>2, <1>5, DistinctCount DEF taken
<1>7. Cardinality(d.hold) = Cardinality(kept) + Len(d.enter)
  <2>1. kept \cap taken = {}
    BY <1>5
  <2>2. Cardinality(kept \cap taken) = 0
    BY <2>1, FS_EmptySet
  <2>3. Cardinality(kept \cup taken) = Cardinality(kept) + Cardinality(taken)
                                         - Cardinality(kept \cap taken)
    BY <1>2, <1>6, FS_Union
  <2> QED
    BY <1>2, <1>3, <1>6, <2>2, <2>3
<1>8. /\ RuleHold \in Nat /\ room = RuleHold - Cardinality(kept)
      /\ RuleHold - Cardinality(d.hold) = room - Len(d.enter)
  BY <1>2, <1>6, <1>7 DEF Rule!CountsAssumption, room
<1>9. /\ ranking \in Seq(DOMAIN score) /\ DOMAIN ranking = 1..Len(ranking)
      /\ \A n \in DOMAIN score : \E i \in 1..Len(ranking) : ranking[i] = n
      /\ \A i, j \in 1..Len(ranking) : Rule!Beats(v, ties, ranking[i], ranking[j]) <=> i < j
      /\ Len(ranking) \in Nat
  <2>1. ranking \in Seq(DOMAIN score)
    BY <1>2, <1>2a DEF IsRanking
  <2>2. DOMAIN ranking = 1..Len(ranking) /\ Len(ranking) \in Nat
    BY <2>1, LenProperties
  <2> QED
    BY <1>2, <1>2a, <2>1, <2>2 DEF IsRanking
<1>10. /\ Rule!PassedOver(s) = allowed \ (kept \cup taken)
       /\ Rule!PassedOver(s) \subseteq DOMAIN score
  BY <1>3, <1>4
<1>11. Rule!FillsTheBook(s)
  <2>1. Len(d.enter) = Cardinality(taken)
    BY <1>6
  <2>2. taken \cap (book \cup d.exit) = {}
    BY <1>4, <1>5 DEF kept
  <2>3. taken # {} => RuleHold - Cardinality(d.hold) >= 0
    <3>1. taken # {} => d.enter # <<>>
      BY RuleToSet DEF taken
    <3>2. room \in Int
      BY <1>2, <1>8
    <3> QED
      BY <1>5, <1>6, <1>8, <3>1, <3>2
  <2>4. ASSUME RuleHold - Cardinality(d.hold) > 0, NEW n \in Rule!PassedOver(s)
        PROVE  \E m \in d.hold : Rule!Alike(corr, m, n)
    <3>1. n \in allowed \ (kept \cup taken) /\ n \in DOMAIN score
      BY <1>10
    <3>2. PICK i \in 1..Len(ranking) : ranking[i] = n
      BY <1>9, <3>1
    <3>3. ~(Len(d.enter) >= room)
      BY <1>2, <1>6, <1>8, <2>4
    <3>4. Blocked(i, ranking, taken, kept, corr)
      BY <1>5, <3>1, <3>2, <3>3
    <3>5. \E b \in kept \cup taken : Rule!Alike(corr, n, b)
      BY <3>2, <3>4 DEF Blocked
    <3> QED
      BY <1>3, <3>5, AlikeIsMutual
  <2> QED
    BY <2>1, <2>2, <2>3, <2>4, RuleCounts DEF Rule!FillsTheBook, d, score, corr, taken
<1>12. Rule!StrongestFirst(s)
  <2>1. ASSUME NEW m \in taken, NEW n \in Rule!PassedOver(s), Rule!Beats(v, ties, n, m)
        PROVE  \E b \in d.hold : /\ Rule!Alike(corr, n, b)
                                 /\ (b \in book \/ Rule!Beats(v, ties, b, n))
    <3>1. n \in allowed \ (kept \cup taken) /\ n \in DOMAIN score
      BY <1>10
    <3>2. PICK i \in 1..Len(ranking) : ranking[i] = n
      BY <1>9, <3>1
    <3>3. PICK j \in 1..Len(ranking) : ranking[j] = m
      BY <1>5
    <3>4. i < j
      BY <1>9, <2>1, <3>2, <3>3
    <3>5. Blocked(i, ranking, taken, kept, corr)
      BY <1>5, <3>1, <3>2, <3>3, <3>4
    <3>6. PICK b \in kept \cup taken : /\ Rule!Alike(corr, n, b)
                                       /\ b \in kept \/ \E l \in 1..(i - 1) : ranking[l] = b
      BY <3>2, <3>5 DEF Blocked
    <3>7. b \in kept \/ Rule!Beats(v, ties, b, n)
      <4>1. ASSUME NEW l \in 1..(i - 1), ranking[l] = b PROVE Rule!Beats(v, ties, b, n)
        <5>1. l \in 1..Len(ranking) /\ l < i
          BY <1>9
        <5> QED
          BY <1>9, <3>2, <4>1, <5>1
      <4> QED
        BY <3>6, <4>1
    <3> QED
      BY <1>3, <3>6, <3>7 DEF kept
  <2> QED
    BY <2>1 DEF Rule!StrongestFirst, d, score, corr, taken, v, ties, overlay
<1>13. Rule!NoBetTwice(s)
  <2>1. \A n \in taken, m \in d.hold : m # n => ~Rule!Alike(corr, m, n)
    BY <1>3, <1>5, AlikeIsMutual
  <2> QED
    BY <2>1 DEF Rule!NoBetTwice, d, corr, taken
<1> QED
  BY <1>11, <1>12, <1>13

(* Without likeness a walk takes what may be taken until there is no room: *)
(* two rankings lead to as many names.                                     *)
Filled(p, F, room) ==
  /\ Rule!ToSet(p) \subseteq F
  /\ p # <<>> => Len(p) <= room
  /\ Rule!ToSet(p) = F \/ Len(p) >= room
  /\ IsFiniteSet(Rule!ToSet(p)) /\ Cardinality(Rule!ToSet(p)) = Len(p)
  /\ Len(p) \in Nat /\ (p = <<>> <=> Rule!ToSet(p) = {})

LEMMA WalksFill ==
  ASSUME NEW S, NEW ranking \in Seq(S), \A n \in S : \E i \in DOMAIN ranking : ranking[i] = n,
         NEW allowed \in SUBSET S, NEW kept, NEW room \in Int, NEW corr, corr.alike = {},
         NEW p \in Seq(S), Picks(p, Len(ranking), ranking, allowed, kept, room, corr)
  PROVE  Filled(p, allowed \ kept, room)
<1> DEFINE T == Rule!ToSet(p)
<1>1. /\ T \subseteq allowed \ kept
      /\ \A i, j \in DOMAIN p : i # j => p[i] # p[j]
      /\ p # <<>> => Len(p) <= room
      /\ \A i \in 1..Len(ranking) : ranking[i] \in allowed \ (kept \cup T) =>
           Blocked(i, ranking, T, kept, corr) \/ Len(p) >= room
  BY DEF Picks
<1>2. IsFiniteSet(T) /\ Cardinality(T) = Len(p) /\ Len(p) \in Nat
  BY <1>1, DistinctCount
<1>3. p = <<>> <=> T = {}
  <2>1. \A x : x \in T <=> \E i \in 1..Len(p) : p[i] = x
    BY RuleToSet
  <2>2. p = <<>> <=> Len(p) = 0
    OBVIOUS
  <2>3. Len(p) = 0 => T = {}
    BY <2>1
  <2>4. Len(p) # 0 => T # {}
    <3>1. Len(p) # 0 => 1 \in 1..Len(p)
      BY <1>2
    <3> QED
      BY <2>1, <3>1
  <2> QED
    BY <2>2, <2>3, <2>4
<1>4. \A i : ~Blocked(i, ranking, T, kept, corr)
  BY DEF Blocked, Rule!Alike
<1>5. ASSUME T # allowed \ kept PROVE Len(p) >= room
  <2>1. PICK n \in allowed : n \notin kept \cup T
    BY <1>1, <1>5
  <2>2. PICK i \in DOMAIN ranking : ranking[i] = n
    OBVIOUS
  <2>3. i \in 1..Len(ranking) /\ ranking[i] \in allowed \ (kept \cup T)
    BY <2>1, <2>2
  <2> QED
    BY <1>1, <1>4, <2>3
<1> QED
  BY <1>1, <1>2, <1>3, <1>5 DEF Filled

LEMMA FilledAlike ==
  ASSUME NEW F, IsFiniteSet(F), NEW room \in Int, NEW p, NEW q, Filled(p, F, room), Filled(q, F, room)
  PROVE  Len(p) <= Len(q)
<1> DEFINE P == Rule!ToSet(p)
           Q == Rule!ToSet(q)
<1>1. /\ P \subseteq F /\ IsFiniteSet(Q) /\ Cardinality(P) = Len(p) /\ Cardinality(Q) = Len(q)
      /\ Len(p) \in Nat /\ Len(q) \in Nat
      /\ p # <<>> => Len(p) <= room
      /\ Q = F \/ Len(q) >= room
      /\ p = <<>> <=> P = {}
  BY DEF Filled
<1> HIDE DEF P, Q
<1>2. CASE Q = F
  BY <1>1, <1>2, FS_Subset
<1>3. CASE Len(q) >= room
  <2>1. CASE p = <<>>
    <3>1. Len(p) = 0
      BY <1>1, <2>1, FS_EmptySet
    <3> QED
      BY <1>1, <3>1
  <2>2. CASE p # <<>>
    BY <1>1, <1>3, <2>2
  <2> QED
    BY <2>1, <2>2
<1> QED
  BY <1>1, <1>2, <1>3

(* What a decision fills its book with where nothing is alike.             *)
FilledUp(d, owns, score, overlay, only) ==
  LET kept == owns \ d.exit
  IN  /\ IsFiniteSet(kept) /\ Cardinality(kept) \in Nat
      /\ Filled(d.enter, Allowed(score, overlay, d.exit, only) \ kept,
                RuleHold - Cardinality(kept))
      /\ Cardinality(d.hold) = Cardinality(kept) + Len(d.enter)

LEMMA EntriesFill ==
  ASSUME Rule!CountsAssumption, Rule!PanelsAssumption, NEW owns \in SUBSET Names,
         NEW score \in Panels, DOMAIN score # {}, NEW overlay \in Given, NEW corr,
         corr.alike = {}, NEW only, NEW d,
         d = Rule!Decide(owns, score, overlay, corr, only)
  PROVE  FilledUp(d, owns, score, overlay, only)
<1> DEFINE ranking == Rule!Order(score, overlay)
           kept == owns \ d.exit
           room == RuleHold - Cardinality(kept)
           allowed == Allowed(score, overlay, d.exit, only)
<1>1. /\ IsRanking(ranking, Rule!Value(score, overlay, FALSE).of, Rule!Ties(score, overlay))
      /\ d.enter \in Seq(DOMAIN score)
      /\ IsFiniteSet(kept) /\ Cardinality(kept) \in Nat
      /\ Picks(d.enter, Len(ranking), ranking, allowed, kept, room, corr)
  BY DecisionPicks
<1>2. d.hold = kept \cup Rule!ToSet(d.enter)
  <2>1. Rule!Decide(owns, score, overlay, corr, only).hold =
          (owns \ Rule!Decide(owns, score, overlay, corr, only).exit)
            \cup Rule!ToSet(Rule!Decide(owns, score, overlay, corr, only).enter)
    BY DecideHolds
  <2> QED
    BY <2>1
<1>3. allowed \in SUBSET DOMAIN score
  BY DEF Allowed, Rule!Candidates
<1>4. room \in Int
  BY <1>1 DEF Rule!CountsAssumption
<1> HIDE DEF ranking, kept, room, allowed
<1>5. /\ ranking \in Seq(DOMAIN score)
      /\ \A n \in DOMAIN score : \E i \in DOMAIN ranking : ranking[i] = n
  BY <1>1, TiesAreInt DEF IsRanking
<1>6. Filled(d.enter, allowed \ kept, room)
  BY <1>1, <1>3, <1>4, <1>5, WalksFill
<1>7. Cardinality(d.hold) = Cardinality(kept) + Len(d.enter)
  <2> DEFINE T == Rule!ToSet(d.enter)
  <2>1. /\ T \subseteq allowed \ kept /\ IsFiniteSet(T) /\ Cardinality(T) = Len(d.enter)
        /\ Len(d.enter) \in Nat
    BY <1>6 DEF Filled
  <2> HIDE DEF T
  <2>2. kept \cap T = {}
    BY <2>1
  <2>3. Cardinality(kept \cap T) = 0
    BY <2>2, FS_EmptySet
  <2>4. Cardinality(kept \cup T) = Cardinality(kept) + Cardinality(T) - Cardinality(kept \cap T)
    BY <1>1, <2>1, FS_Union
  <2>5. d.hold = kept \cup T
    BY <1>2 DEF T
  <2>6. Cardinality(d.hold) = Cardinality(kept \cup T)
    BY <2>5
  <2>7. Cardinality(kept) \in Nat
    BY <1>1
  <2>8. Cardinality(kept \cup T) = Cardinality(kept) + Cardinality(T)
    BY <2>1, <2>3, <2>4, <2>7
  <2> QED
    BY <2>1, <2>6, <2>8
<1> QED
  BY <1>1, <1>6, <1>7 DEF FilledUp, ranking, kept, room, allowed

(* Two overlays that keep and sell the same lead to books of one size.     *)
LEMMA DecisionsAlike ==
  ASSUME Rule!CountsAssumption, Rule!PanelsAssumption, NEW owns \in SUBSET Names,
         NEW score \in Panels, DOMAIN score # {}, NEW overlay \in Given, NEW none \in Given,
         NEW corr, NEW only,
         Rule!Kept(score, overlay, only) = Rule!Kept(score, none, only),
         Rule!Value(score, overlay, only) = Rule!Value(score, none, only), NEW d, NEW e,
         d = Rule!Decide(owns, score, overlay, corr, only),
         e = Rule!Decide(owns, score, none, corr, only)
  PROVE  /\ d.exit = e.exit
         /\ corr.alike = {} => Cardinality(d.hold) = Cardinality(e.hold)
<1>1. d.exit = Leaving(owns, score, overlay, corr, only)
      /\ e.exit = Leaving(owns, score, none, corr, only)
  BY DecideSells
<1>2. d.exit = e.exit
  BY <1>1 DEF Leaving
<1>3. ASSUME corr.alike = {} PROVE Cardinality(d.hold) = Cardinality(e.hold)
  <2> DEFINE kept == owns \ e.exit
             room == RuleHold - Cardinality(kept)
             F == Allowed(score, none, e.exit, only) \ kept
  <2>1. /\ IsFiniteSet(kept) /\ Cardinality(kept) \in Nat
        /\ Filled(e.enter, F, room)
        /\ Cardinality(e.hold) = Cardinality(kept) + Len(e.enter)
    <3>1. FilledUp(e, owns, score, none, only)
      BY <1>3, EntriesFill
    <3> QED
      BY <3>1 DEF FilledUp
  <2>2. /\ Filled(d.enter, Allowed(score, overlay, d.exit, only) \ (owns \ d.exit),
                  RuleHold - Cardinality(owns \ d.exit))
        /\ Cardinality(d.hold) = Cardinality(owns \ d.exit) + Len(d.enter)
    <3>1. FilledUp(d, owns, score, overlay, only)
      BY <1>3, EntriesFill
    <3> QED
      BY <3>1 DEF FilledUp
  <2>3. Allowed(score, overlay, d.exit, only) = Allowed(score, none, e.exit, only)
    BY <1>2 DEF Allowed
  <2>4. Filled(d.enter, F, room) /\ Cardinality(d.hold) = Cardinality(kept) + Len(d.enter)
    BY <1>2, <2>2, <2>3
  <2>5. IsFiniteSet(F)
    <3>1. DOMAIN score \subseteq Names /\ IsFiniteSet(Names)
      BY RuleFinite DEF Rule!PanelsAssumption
    <3>2. IsFiniteSet(DOMAIN score)
      BY <3>1, FS_Subset
    <3>3. F \subseteq DOMAIN score
      BY DEF Allowed, Rule!Candidates
    <3> HIDE DEF F
    <3> QED
      BY <3>2, <3>3, FS_Subset
  <2>6. room \in Int
    BY <2>1 DEF Rule!CountsAssumption
  <2> HIDE DEF kept, room, F
  <2>7. Len(d.enter) \in Nat /\ Len(e.enter) \in Nat
    BY <2>1, <2>4 DEF Filled
  <2>8. Len(d.enter) <= Len(e.enter) /\ Len(e.enter) <= Len(d.enter)
    BY <2>1, <2>4, <2>5, <2>6, FilledAlike
  <2> QED
    BY <2>1, <2>4, <2>7, <2>8
<1> QED
  BY <1>2, <1>3

(* Where the overlay is for entries only, what is kept goes by the scores. *)
LEMMA OverlayIsHarmless ==
  ASSUME Rule!CountsAssumption, Rule!PanelsAssumption, NEW s, RuleInv, RuleTypes(s)
  PROVE  Rule!OverlayIsForEntries(s)
<1> SUFFICES ASSUME entryOnly PROVE Rule!OverlayIsForEntries(s)
  BY DEF Rule!OverlayIsForEntries
<1> DEFINE owns == book
           score == s.score
           overlay == s.overlay
           corr == s.corr
           none == Rule!NoOverlay
           only == entryOnly
           d == s.decision
           e == Rule!Decide(owns, score, none, corr, only)
<1>1. /\ d = Rule!Decide(owns, score, overlay, corr, only)
      /\ e = Rule!Decide(owns, score, none, corr, only)
      /\ owns \in SUBSET Names /\ score \in Panels /\ overlay \in Given /\ none \in Given
  BY DEF RuleTypes, RuleInv, Given
<1>2. only = TRUE
  BY DEF RuleInv
<1>3. /\ Rule!Kept(score, overlay, only) = Rule!Kept(score, none, only)
      /\ Rule!Value(score, overlay, only) = Rule!Value(score, none, only)
  BY <1>2 DEF Rule!Kept, Rule!Value
<1>4. /\ d.exit = e.exit
      /\ corr.alike = {} => Cardinality(d.hold) = Cardinality(e.hold)
  <2> HIDE DEF owns, score, overlay, corr, none, only, d, e
  <2>1. CASE DOMAIN score = {}
    <3>1. d.exit = {} /\ d.hold = owns
      BY <1>1, <2>1, DecideNothing
    <3>2. e.exit = {} /\ e.hold = owns
      BY <1>1, <2>1, DecideNothing
    <3> QED
      BY <3>1, <3>2
  <2>2. CASE DOMAIN score # {}
    BY <1>1, <1>3, <2>2, DecisionsAlike
  <2> QED
    BY <2>1, <2>2
<1>5. e = Rule!Decide(book, s.score, Rule!NoOverlay, s.corr, TRUE)
  BY <1>2
<1>6. Rule!Cardinality(d.hold) = Cardinality(d.hold)
      /\ Rule!Cardinality(e.hold) = Cardinality(e.hold)
  BY RuleCounts
<1> HIDE DEF e
<1> QED
  BY <1>4, <1>5, <1>6 DEF Rule!OverlayIsForEntries

(* What is bought was ranked and is one of the names.                      *)
LEMMA DecisionStays ==
  ASSUME Rule!CountsAssumption, Rule!PanelsAssumption, RuleInv, NEW s, RuleTypes(s)
  PROVE  /\ Rule!ToSet(s.decision.enter) \subseteq Names
         /\ s.decision.hold \subseteq Names
<1> DEFINE owns == book
           score == s.score
           overlay == s.overlay
           corr == s.corr
           only == entryOnly
           d == s.decision
<1>1. /\ owns \in SUBSET Names /\ score \in Panels /\ overlay \in Given
      /\ d = Rule!Decide(owns, score, overlay, corr, only)
  BY DEF RuleInv, RuleTypes, Given
<1>2. DOMAIN score \subseteq Names
  BY <1>1 DEF Rule!PanelsAssumption
<1> HIDE DEF owns, score, overlay, corr, only, d
<1>3. Rule!ToSet(d.enter) \subseteq Names /\ d.hold \subseteq Names
  <2>1. CASE DOMAIN score = {}
    <3>1. d.enter = <<>> /\ d.hold = owns
      BY <1>1, <2>1, DecideNothing
    <3>2. Rule!ToSet(d.enter) = {}
      BY <3>1, RuleToSet
    <3> QED
      BY <1>1, <3>1, <3>2
  <2>2. CASE DOMAIN score # {}
    <3>1. /\ d.enter \in Seq(DOMAIN score)
          /\ Picks(d.enter, Len(Rule!Order(score, overlay)), Rule!Order(score, overlay),
                   Allowed(score, overlay, d.exit, only), owns \ d.exit,
                   RuleHold - Cardinality(owns \ d.exit), corr)
      BY <1>1, <2>2, DecisionPicks
    <3>2. Rule!ToSet(d.enter) \subseteq Allowed(score, overlay, d.exit, only)
      BY <3>1 DEF Picks
    <3>3. Rule!ToSet(d.enter) \subseteq DOMAIN score
      BY <3>2 DEF Allowed, Rule!Candidates
    <3>4. d.hold = (owns \ d.exit) \cup Rule!ToSet(d.enter)
      BY <1>1, <2>2, DecideHolds
    <3> QED
      BY <1>1, <1>2, <3>3, <3>4
  <2> QED
    BY <2>1, <2>2
<1> QED
  BY <1>3 DEF d

LEMMA CapIsKept ==
  ASSUME Rule!CountsAssumption, Rule!PanelsAssumption, Rule!CapAssumption, RuleInv,
         NEW s, RuleTypes(s)
  PROVE  Rule!CapHolds(s)
<1> DEFINE score == s.score
           overlay == s.overlay
           corr == s.corr
           only == entryOnly
           owns == book
           d == s.decision
           w == d.weights
<1>1. /\ corr \in Correlations
      /\ d = Rule!Decide(owns, score, overlay, corr, only)
  BY DEF RuleTypes
<1>2. d.hold \in SUBSET Names
  BY DecisionStays
<1> HIDE DEF owns, score, overlay, corr, only, d
<1>3. /\ w.capped # {} => w.capped # DOMAIN w.of
      /\ CapOver < CapUnder /\ DOMAIN w.of # {} /\ Rule!Satisfiable(w.of)
           => Rule!OverCap(w.of, w.capped) = {}
      /\ \A n \in w.capped, m \in DOMAIN w.of \ w.capped : w.of[m] <= w.of[n]
  <2>1. CASE DOMAIN score = {}
    <3>1. w.of = <<>> /\ w.capped = {}
      BY <1>1, <2>1, DecideNothing
    <3>2. DOMAIN w.of = {}
      BY <3>1
    <3> QED
      BY <3>1, <3>2
  <2>2. CASE DOMAIN score # {}
    <3>1. w = Rule!Weights(d.hold, corr)
      BY <1>1, <2>2, DecideWeighs
    <3> HIDE DEF w
    <3> QED
      BY <1>1, <1>2, <3>1, WeightsAreCapped
  <2> QED
    BY <2>1, <2>2
<1> QED
  BY <1>3 DEF Rule!CapHolds, d

(* A session of which nothing was ranked sells and buys nothing.           *)
LEMMA NothingRanked ==
  ASSUME NEW s, RuleTypes(s), DOMAIN s.score = {}
  PROVE  /\ Rule!NothingRankedNothingSold(s) /\ Rule!FillsTheBook(s)
         /\ Rule!StrongestFirst(s) /\ Rule!NoBetTwice(s)
<1> DEFINE score == s.score
           overlay == s.overlay
           corr == s.corr
           only == entryOnly
           owns == book
           d == s.decision
<1>1. /\ d = Rule!Decide(owns, score, overlay, corr, only) /\ DOMAIN score = {}
      /\ s.buys \subseteq Rule!ToSet(d.enter)
  BY DEF RuleTypes
<1>2. d.enter = <<>> /\ d.hold = owns
  <2> HIDE DEF owns, score, overlay, corr, only, d
  <2> QED
    BY <1>1, DecideNothing
<1>3. Rule!ToSet(d.enter) = {}
  BY <1>2, RuleToSet
<1>4. Rule!NothingRankedNothingSold(s)
  BY <1>1, <1>2, <1>3 DEF Rule!NothingRankedNothingSold
<1>5. Rule!FillsTheBook(s)
  <2>1. Len(d.enter) = Cardinality(Rule!ToSet(d.enter))
    BY <1>2, <1>3, FS_EmptySet
  <2>2. Rule!PassedOver(s) = {}
    BY <1>1 DEF Rule!PassedOver, Rule!Candidates
  <2> QED
    BY <1>1, <1>3, <2>1, <2>2, RuleCounts DEF Rule!FillsTheBook
<1>6. Rule!StrongestFirst(s) /\ Rule!NoBetTwice(s)
  BY <1>3 DEF Rule!StrongestFirst, Rule!NoBetTwice
<1> QED
  BY <1>4, <1>5, <1>6

LEMMA RuleInvHolds ==
  ASSUME Rule!CountsAssumption, Rule!PanelsAssumption
  PROVE  Rule!Spec => []RuleInv
<1>1. Rule!Init => RuleInv
  BY DEF Rule!Init, RuleInv
<1>2. RuleInv /\ [Rule!Next]_(Rule!vars) => RuleInv'
  <2> SUFFICES ASSUME RuleInv, [Rule!Next]_(Rule!vars) PROVE RuleInv'
    OBVIOUS
  <2>1. CASE Rule!Session
    <3>1. PICK score \in Panels, overlay \in Overlays, corr \in Correlations, quiet \in Quiets :
            session' = [decided |-> TRUE, score |-> score, overlay |-> overlay, corr |-> corr,
                        decision |-> Rule!Decide(book, score, overlay, corr, entryOnly),
                        buys |-> Rule!Buys(Rule!Decide(book, score, overlay, corr, entryOnly).enter,
                                           quiet)]
      BY <2>1 DEF Rule!Session
    <3>2. book' = book /\ entryOnly' = entryOnly
      BY <2>1 DEF Rule!Session
    <3> DEFINE d == Rule!Decide(book, score, overlay, corr, entryOnly)
    <3>3. Rule!Buys(d.enter, quiet) \subseteq Rule!ToSet(d.enter)
      BY DEF Rule!Buys
    <3> HIDE DEF d
    <3>4. /\ session'.score = score /\ session'.corr = corr /\ session'.overlay = overlay
          /\ session'.decision = d /\ session'.buys = Rule!Buys(d.enter, quiet)
      BY <3>1 DEF d
    <3>5. d = Rule!Decide(book', score, overlay, corr, entryOnly')
      BY <3>2 DEF d
    <3>6. RuleTypes(session)'
      BY <3>3, <3>4, <3>5 DEF RuleTypes
    <3> QED
      BY <3>2, <3>6 DEF RuleInv
  <2>2. CASE Rule!Settle
    <3>1. /\ session # Rule!Between /\ session' = Rule!Between /\ entryOnly' = entryOnly
          /\ book' = (book \ session.decision.exit) \cup session.buys
      BY <2>2 DEF Rule!Settle
    <3>2. RuleTypes(session)
      BY <3>1 DEF RuleInv
    <3>3. session.buys \subseteq Names
      BY <3>2, DecisionStays DEF RuleTypes
    <3> QED
      BY <3>1, <3>3 DEF RuleInv, Rule!Between
  <2>3. CASE UNCHANGED Rule!vars
    BY <2>3 DEF RuleInv, RuleTypes, Rule!vars
  <2> QED
    BY <2>1, <2>2, <2>3 DEF Rule!Next
<1> QED
  BY <1>1, <1>2, PTL DEF Rule!Spec

LEMMA TheRuleSteps ==
  AllSpec => Rule!Spec
<1>1. AllInit => Rule!Init
  BY DEF AllInit
<1>2. [AllNext]_allVars => [Rule!Next]_(Rule!vars)
  BY DEF AllNext, TheMonthlyRunner, TheShortLane, TheSleeve, TheIntradayLane, TheRule, allVars,
         rotationVars, Rule!vars
<1> QED
  BY <1>1, <1>2, PTL DEF AllSpec, Rule!Spec

(* A decision of the rotation fills its book and no more, with the         *)
(* strongest first and no bet twice; its overlay neither sells nor resizes *)
(* where it is for entries only; its weights obey the cap; and a panel     *)
(* that ranks nothing sells nothing (decide of momentum_rotation/engine.py *)
(* and its helpers), for any names, panels, overlays and estimates, and    *)
(* any size of book, buffer, overlay weight, floor, volatilities and cap.  *)
THEOREM RotationHolds ==
  AllSpec => []RotationIsSound
<1>1. Rule!CountsAssumption /\ Rule!PanelsAssumption /\ Rule!CapAssumption
  BY InstancesAssumption
<1>2. RuleInv => RotationIsSound
  <2> SUFFICES ASSUME RuleInv, session # Rule!Between
               PROVE  /\ Rule!FillsTheBook(session) /\ Rule!StrongestFirst(session)
                      /\ Rule!NoBetTwice(session) /\ Rule!OverlayIsForEntries(session)
                      /\ Rule!CapHolds(session) /\ Rule!NothingRankedNothingSold(session)
    BY DEF RotationIsSound, Rule!RotationIsSound
  <2>1. RuleTypes(session) /\ book \in SUBSET Names
    BY DEF RuleInv
  <2>2. Rule!OverlayIsForEntries(session) /\ Rule!CapHolds(session)
    BY <1>1, <2>1, OverlayIsHarmless, CapIsKept
  <2>3. CASE DOMAIN session.score = {}
    BY <2>1, <2>2, <2>3, NothingRanked
  <2>4. CASE DOMAIN session.score # {}
    <3>1. Rule!FillsTheBook(session) /\ Rule!StrongestFirst(session) /\ Rule!NoBetTwice(session)
      BY <1>1, <2>1, <2>4, DecisionIsSound
    <3> QED
      BY <2>2, <2>4, <3>1 DEF Rule!NothingRankedNothingSold
  <2> QED
    BY <2>3, <2>4
<1> QED
  BY <1>1, <1>2, RuleInvHolds, TheRuleSteps, PTL

=============================================================================
