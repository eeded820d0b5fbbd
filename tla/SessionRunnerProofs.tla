------------------------ MODULE SessionRunnerProofs ------------------------
(***************************************************************************)
(* SessionRunner for any symbols, slots, tasks and limits: types, and the  *)
(* invariants of what the lane sends; for a session of one slot, that a    *)
(* retry makes no second live order, what funds the entries, and that what *)
(* was suppressed stays out.                                               *)
(***************************************************************************)
EXTENDS SessionRunner, FiniteSetTheorems, TLAPS

USE DEF operator, records, market

(* Counting the refused orders of a journal gives a natural number.        *)
LEMMA AttemptsAreCounted ==
  ASSUME NEW j \in Journals, IsFiniteSet(j.terminal), NEW s \in Symbols, NEW d \in Sides
  PROVE  AttemptsFor(j, s, d) \in Nat
<1> DEFINE U == {u \in OnSide(Refusals(j, s), d) : u.answer = "refused"}
           T == {t.order : t \in U}
           f == [t \in U |-> t.order]
<1>1. IsFiniteSet(U)
  BY FS_Subset DEF OnSide, Refusals
<1>2. f \in Surjection(U, T)
  BY DEF Surjection
<1>3. IsFiniteSet(T)
  <2> HIDE DEF U, T, f
  <2> QED BY <1>1, <1>2, FS_Surjection
<1> QED
  BY <1>3, FS_CardinalityType DEF AttemptsFor

-----------------------------------------------------------------------------
(* Type correctness.  The rows a run counts are finitely many, and what is *)
(* left of a part-filled order is a positive number of shares.             *)
PartsAreParts == \A o \in OrderIds : orders[o] = "part" => size[o] > 1

TypeInv == TypeOK /\ IsFiniteSet(journal.terminal) /\ PartsAreParts

LEMMA IdleIsARun == Idle \in Runs
  BY SlotsAssumption DEF Idle, Runs, Steps, States, Flat, NoTries, Sides

LEMMA GoesToARun ==
  ASSUME TypeInv, NEW p \in Procs, NEW r \in Runs, Goto(p, r)
  PROVE  run' \in [Procs -> Runs]
  BY DEF TypeInv, TypeOK, Goto

LEMMA OnlyTheRunMoved ==
  ASSUME TypeInv, UNCHANGED <<operator, records, market>>, run' \in [Procs -> Runs]
  PROVE  TypeInv'
  BY DEF TypeInv, TypeOK, PartsAreParts

(* What a submit leaves behind is well typed.                              *)
LEMMA SubmittedIsTyped ==
  ASSUME TypeInv, NEW o \in OrderIds, NEW q \in Nat, NEW ok \in BOOLEAN, Submitted(o, q, ok)
  PROVE  /\ orders' \in [OrderIds -> Statuses]
         /\ size' \in [OrderIds -> Nat]
         /\ due' \subseteq TerminalRows
         /\ position' \in [Symbols -> Nat]
         /\ PartsAreParts'
<1>1. Denial(o) \in TerminalRows
  BY DEF Denial, TerminalRows, Answers
<1> QED
  BY <1>1 DEF TypeInv, TypeOK, PartsAreParts, Submitted, Statuses

LEMMA JournalledIsTyped ==
  ASSUME TypeInv, NEW s \in Symbols, NEW ok \in BOOLEAN, Journalled(s, ok)
  PROVE  journal' \in Journals /\ journal'.terminal = journal.terminal
  BY DEF TypeInv, TypeOK, Journalled, Journals

LEMMA SuppressedIsTyped ==
  ASSUME NEW j \in Journals, NEW s \in Symbols
  PROVE  LET k == [j EXCEPT !.failed[s] = @ + 1, !.suppressed = @ \cup {s}]
         IN k \in Journals /\ k.terminal = j.terminal
<1>1. \A F \in [Symbols -> Nat], U \in SUBSET Symbols :
        LET k == [j EXCEPT !.failed = F, !.suppressed = U]
        IN k \in Journals /\ k.terminal = j.terminal
  BY DEF Journals
<1>2. /\ [j.failed EXCEPT ![s] = @ + 1] \in [Symbols -> Nat]
      /\ j.suppressed \cup {s} \in SUBSET Symbols
  BY DEF Journals
<1> QED
  BY <1>1, <1>2

LEMMA TerminalIsTyped ==
  ASSUME NEW j \in Journals, NEW t \in TerminalRows
  PROVE  LET k == [j EXCEPT !.terminal = @ \cup {t}]
         IN k \in Journals /\ k.terminal = j.terminal \cup {t}
<1>1. \A T \in SUBSET TerminalRows :
        LET k == [j EXCEPT !.terminal = T] IN k \in Journals /\ k.terminal = T
  BY DEF Journals
<1>2. j.terminal \cup {t} \in SUBSET TerminalRows
  BY DEF Journals
<1> QED
  BY <1>1, <1>2

(* Every record and every run keeps its type, a position among them never   *)
(* negative: a SELL books no more than is held.                            *)
THEOREM TypeInvariant == Spec => []TypeInv
<1>1. Init => TypeInv
  BY FS_EmptySet, IdleIsARun, SizesAssumption
  DEF Init, TypeInv, TypeOK, PartsAreParts, Undecided, Decisions, EmptyJournal, Journals,
      OrderIds, Statuses,
      TerminalRows, States
<1>2. TypeInv /\ [Next]_vars => TypeInv'
  <2> SUFFICES ASSUME TypeInv, [Next]_vars PROVE TypeInv'
    OBVIOUS
  <2>1. ASSUME NEW p \in Procs, NEW k \in Slots, Begin(p, k) PROVE TypeInv'
    <3>1. [Idle EXCEPT !.step = "read", !.slot = k, !.st = lifecycle] \in Runs
      BY IdleIsARun DEF Runs, Steps, TypeInv, TypeOK
    <3> QED
      BY <2>1, <3>1, GoesToARun, OnlyTheRunMoved DEF Begin
  <2>2. ASSUME NEW p \in Procs, Blocked(p) PROVE TypeInv'
    BY <2>2, IdleIsARun, GoesToARun, OnlyTheRunMoved DEF Blocked, Return
  <2>3. ASSUME NEW p \in Procs, ReadBook(p) PROVE TypeInv'
    <3>1. run[p] \in Runs
      BY DEF TypeInv, TypeOK
    <3>2. [s \in Symbols |-> IF position[s] > 0 THEN position[s] ELSE 0] \in [Symbols -> Nat]
      BY <3>1 DEF TypeInv, TypeOK
    <3>3. \A b \in [Symbols -> Nat] : [run[p] EXCEPT !.step = "look", !.book = b] \in Runs
      BY <3>1 DEF Runs, Steps
    <3>4. run' \in [Procs -> Runs]
      BY <2>3, <3>1, <3>2, <3>3, IdleIsARun, GoesToARun DEF ReadBook, Return
    <3> QED
      BY <2>3, <3>4, OnlyTheRunMoved DEF ReadBook
  <2>4. ASSUME NEW p \in Procs, Urgent(p) PROVE TypeInv'
    <3>1. run[p] \in Runs
      BY DEF TypeInv, TypeOK
    <3>2. Forced(run[p]) \subseteq Symbols
      BY <3>1 DEF Forced, Sellable, Held
    <3>3. \A X \in SUBSET Symbols : [run[p] EXCEPT !.step = "tail", !.exits = X] \in Runs
      BY <3>1 DEF Runs, Steps
    <3>4. run' \in [Procs -> Runs]
      BY <2>4, <3>1, <3>2, <3>3, IdleIsARun, GoesToARun DEF Urgent, Return
    <3> QED
      BY <2>4, <3>4, OnlyTheRunMoved DEF Urgent
  <2>5. ASSUME NEW p \in Procs, Resume(p) PROVE TypeInv'
    <3>1. run[p] \in Runs
      BY DEF TypeInv, TypeOK
    <3>2. OwedExits(run[p]) \subseteq Symbols /\ OwedEnters(run[p]) \subseteq Symbols
      BY <3>1 DEF OwedExits, OwedEnters, Sellable, Held, Runs, TypeInv, TypeOK, Decisions
    <3>3. \A X, E \in SUBSET Symbols : [run[p] EXCEPT !.step = "recheck", !.resumed = TRUE,
       !.exits = X, !.enters = E] \in Runs
      BY <3>1 DEF Runs, Steps
    <3>4. run' \in [Procs -> Runs]
      BY <2>5, <3>1, <3>2, <3>3, IdleIsARun, GoesToARun DEF Resume, Return
    <3> QED
      BY <2>5, <3>4, OnlyTheRunMoved DEF Resume
  <2>6. ASSUME NEW p \in Procs, Decide(p) PROVE TypeInv'
    <3>1. run[p] \in Runs
      BY DEF TypeInv, TypeOK
    <3>2. Held(run[p]) \subseteq Symbols
      BY <3>1 DEF Held
    <3>3. \A X, E \in SUBSET Symbols : [run[p] EXCEPT !.step = "write", !.exits = X,
       !.enters = E] \in Runs
      BY <3>1 DEF Runs, Steps
    <3>4. run' \in [Procs -> Runs]
      BY <2>6, <3>1, <3>2, <3>3, IdleIsARun, GoesToARun DEF Decide, Return
    <3> QED
      BY <2>6, <3>4, OnlyTheRunMoved DEF Decide
  <2>7. ASSUME NEW p \in Procs, WriteDecision(p) PROVE TypeInv'
    <3>1. run[p] \in Runs
      BY DEF TypeInv, TypeOK
    <3>2. [exits |-> run[p].exits, enters |-> run[p].enters, made |-> TRUE] \in Decisions
      BY <3>1 DEF Runs, Decisions
    <3>3. run[p].slot \in Slots
      BY <3>1 DEF Runs
    <3>4. [run[p] EXCEPT !.step = "recheck"] \in Runs
      BY <3>1 DEF Runs, Steps
    <3>5. run' \in [Procs -> Runs]
      BY <2>7, <3>1, <3>2, <3>3, <3>4, IdleIsARun, GoesToARun DEF WriteDecision, Return
    <3> QED
      BY <2>7, <3>2, <3>3, <3>4, <3>5 DEF WriteDecision, TypeInv, TypeOK, PartsAreParts
  <2>8. ASSUME NEW p \in Procs, Recheck(p) PROVE TypeInv'
    <3>1. run[p] \in Runs
      BY DEF TypeInv, TypeOK
    <3>2. lifecycle \in States
      BY <3>1 DEF TypeInv, TypeOK
    <3>3. \A x \in States : [run[p] EXCEPT !.step = "tail", !.saw = x] \in Runs
      BY <3>1 DEF Runs, Steps
    <3>4. run' \in [Procs -> Runs]
      BY <2>8, <3>1, <3>2, <3>3, IdleIsARun, GoesToARun DEF Recheck, Return
    <3> QED
      BY <2>8, <3>4, OnlyTheRunMoved DEF Recheck
  <2>9. ASSUME NEW p \in Procs, ReadTail(p) PROVE TypeInv'
    <3>1. run[p] \in Runs
      BY DEF TypeInv, TypeOK
    <3>2. [s \in Symbols |-> [d \in Sides |-> AttemptsFor(journal, s,
       d)]] \in [Symbols -> [Sides -> Nat]]
      BY <3>1, AttemptsAreCounted DEF TypeInv, TypeOK
    <3>3. (IF run[p].resumed THEN Unfunded(run[p]) ELSE {}) \subseteq Symbols
      BY <3>1 DEF Unfunded, Sellable, Held
    <3>4. \A t \in [Symbols -> [Sides -> Nat]],
       F \in SUBSET Symbols : [run[p] EXCEPT !.step = "exits", !.refused = F, !.tries = t] \in Runs
      BY <3>1 DEF Runs, Steps
    <3>5. run' \in [Procs -> Runs]
      BY <2>9, <3>1, <3>2, <3>3, <3>4, IdleIsARun, GoesToARun DEF ReadTail, Return
    <3> QED
      BY <2>9, <3>5, OnlyTheRunMoved DEF ReadTail
  <2>10. ASSUME NEW p \in Procs, SkipExit(p) PROVE TypeInv'
    <3>1. run[p] \in Runs
      BY DEF TypeInv, TypeOK
    <3>2. run[p].exits \subseteq Symbols /\ run[p].enters \subseteq Symbols
      BY <3>1 DEF Runs
    <3>3. \A s \in Symbols : [run[p] EXCEPT !.exits = @ \ {s}, !.refused = @ \cup {s}] \in Runs
      BY <3>1 DEF Runs, Steps
    <3>4. run' \in [Procs -> Runs]
      BY <2>10, <3>1, <3>2, <3>3, IdleIsARun, GoesToARun DEF SkipExit, Return
    <3> QED
      BY <2>10, <3>4, OnlyTheRunMoved DEF SkipExit
  <2>11. ASSUME NEW p \in Procs, IntendExit(p) PROVE TypeInv'
    <3>1. run[p] \in Runs
      BY DEF TypeInv, TypeOK
    <3>2. \A s \in Symbols : <<s, "SELL">> \in Symbols \X Sides
      BY <3>1 DEF Sides
    <3>3. run[p].exits \subseteq Symbols /\ run[p].enters \subseteq Symbols
      BY <3>1 DEF Runs
    <3>4. \A s \in Symbols : [run[p] EXCEPT !.step = "selling", !.exits = @ \ {s},
       !.symbol = {s}] \in Runs
      BY <3>1 DEF Runs, Steps
    <3>5. \A s \in Symbols : [run[p] EXCEPT !.exits = @ \ {s}, !.refused = @ \cup {s}] \in Runs
      BY <3>1 DEF Runs, Steps
    <3>6. run' \in [Procs -> Runs]
      BY <2>11, <3>1, <3>2, <3>3, <3>4, <3>5, IdleIsARun, GoesToARun DEF IntendExit, Return
    <3> QED
      BY <2>11, <3>2, <3>3, <3>4, <3>5, <3>6 DEF IntendExit, TypeInv, TypeOK, PartsAreParts
  <2>12. ASSUME NEW p \in Procs, Sell(p) PROVE TypeInv'
    <3>1. run[p] \in Runs
      BY DEF TypeInv, TypeOK
    <3>2. \A ok \in BOOLEAN : [run[p] EXCEPT !.step = "sold", !.ok = ok] \in Runs
      BY <3>1 DEF Runs, Steps
    <3>3. run' \in [Procs -> Runs]
      BY <2>12, <3>1, <3>2, IdleIsARun, GoesToARun DEF Sell, Return
    <3>4. PICK s \in run[p].symbol, ok \in BOOLEAN :
            run[p].tries[s]["SELL"] \in Attempts /\ Submitted(OrderId(run[p], s, "SELL"), run[p].book[s], ok)
      BY <2>12 DEF Sell
    <3>5. CASE OrderId(run[p], s, "SELL") \in OrderIds
      <4>1. run[p].book[s] \in Nat
        BY <3>1, SizesAssumption DEF Runs
      <4> QED
        BY <2>12, <3>3, <3>4, <3>5, <4>1, SubmittedIsTyped DEF Sell, TypeInv, TypeOK
    <3> QED
      BY <3>1, <3>4, <3>5 DEF OrderId, OrderIds, Runs, Sides
  <2>13. ASSUME NEW p \in Procs, SellResult(p) PROVE TypeInv'
    <3>1. run[p] \in Runs
      BY DEF TypeInv, TypeOK
    <3>2. [run[p] EXCEPT !.step = "exits", !.symbol = {}, !.ok = FALSE,
       !.refused = IF run[p].ok THEN @ ELSE @ \cup run[p].symbol] \in Runs
      BY <3>1 DEF Runs, Steps
    <3>3. run' \in [Procs -> Runs]
      BY <2>13, <3>1, <3>2, IdleIsARun, GoesToARun DEF SellResult, Return
    <3>4. PICK s \in run[p].symbol : Journalled(s, run[p].ok)
      BY <2>13 DEF SellResult
    <3>5. journal' \in Journals /\ journal'.terminal = journal.terminal
      BY <3>1, <3>4, JournalledIsTyped DEF Runs
    <3> QED
      BY <2>13, <3>3, <3>5 DEF SellResult, TypeInv, TypeOK, PartsAreParts
  <2>14. ASSUME NEW p \in Procs, Gate(p) PROVE TypeInv'
    <3>1. run[p] \in Runs
      BY DEF TypeInv, TypeOK
    <3>2. Cardinality(Held(run[p])) \in Nat
      BY <3>1, SymbolsAssumption, FS_Subset, FS_CardinalityType DEF Held
    <3>3. \A n \in Nat, b \in BOOLEAN : [run[p] EXCEPT !.step = IF b THEN "suppress" ELSE "entries", !.live = n] \in Runs
      BY <3>1 DEF Runs, Steps
    <3>4. run' \in [Procs -> Runs]
      BY <2>14, <3>1, <3>2, <3>3, IdleIsARun, GoesToARun DEF Gate, Return
    <3> QED
      BY <2>14, <3>4, OnlyTheRunMoved DEF Gate
  <2>15. ASSUME NEW p \in Procs, Suppress(p) PROVE TypeInv'
    <3>1. run[p] \in Runs
      BY DEF TypeInv, TypeOK
    <3>2. run[p].exits \subseteq Symbols /\ run[p].enters \subseteq Symbols
      BY <3>1 DEF Runs
    <3>3. \A s \in Symbols : [run[p] EXCEPT !.enters = @ \ {s}] \in Runs
      BY <3>1 DEF Runs, Steps
    <3>4. run' \in [Procs -> Runs]
      BY <2>15, <3>1, <3>2, <3>3, IdleIsARun, GoesToARun DEF Suppress, Return
    <3>5. journal' \in Journals /\ journal'.terminal = journal.terminal
      <4>1. CASE run[p].enters = {}
        BY <2>15, <4>1 DEF Suppress, TypeInv, TypeOK
      <4>2. CASE run[p].enters # {}
        <5>1. PICK s \in run[p].enters :
                \/ journal' = [journal EXCEPT !.failed[s] = @ + 1, !.suppressed = @ \cup {s}]
                \/ UNCHANGED journal
          BY <2>15, <4>2 DEF Suppress
        <5>2. s \in Symbols
          BY <3>2, <5>1
        <5> QED
          BY <5>1, <5>2, SuppressedIsTyped DEF TypeInv, TypeOK
      <4> QED
        BY <4>1, <4>2
    <3> QED
      BY <2>15, <3>4, <3>5 DEF Suppress, TypeInv, TypeOK, PartsAreParts
  <2>16. ASSUME NEW p \in Procs, SkipEntry(p) PROVE TypeInv'
    <3>1. run[p] \in Runs
      BY DEF TypeInv, TypeOK
    <3>2. run[p].exits \subseteq Symbols /\ run[p].enters \subseteq Symbols
      BY <3>1 DEF Runs
    <3>3. \A s \in Symbols : [run[p] EXCEPT !.enters = @ \ {s}] \in Runs
      BY <3>1 DEF Runs, Steps
    <3>4. run' \in [Procs -> Runs]
      BY <2>16, <3>1, <3>2, <3>3, IdleIsARun, GoesToARun DEF SkipEntry, Return
    <3> QED
      BY <2>16, <3>4, OnlyTheRunMoved DEF SkipEntry
  <2>17. ASSUME NEW p \in Procs, IntendEntry(p) PROVE TypeInv'
    <3>1. run[p] \in Runs
      BY DEF TypeInv, TypeOK
    <3>2. \A s \in Symbols : <<s, "BUY">> \in Symbols \X Sides
      BY <3>1 DEF Sides
    <3>3. run[p].exits \subseteq Symbols /\ run[p].enters \subseteq Symbols
      BY <3>1 DEF Runs
    <3>4. \A s \in Symbols : [run[p] EXCEPT !.step = "buying", !.enters = @ \ {s},
       !.symbol = {s}] \in Runs
      BY <3>1 DEF Runs, Steps
    <3>5. run' \in [Procs -> Runs]
      BY <2>17, <3>1, <3>2, <3>3, <3>4, IdleIsARun, GoesToARun DEF IntendEntry, Return
    <3> QED
      BY <2>17, <3>2, <3>3, <3>4, <3>5 DEF IntendEntry, TypeInv, TypeOK, PartsAreParts
  <2>18. ASSUME NEW p \in Procs, Buy(p) PROVE TypeInv'
    <3>1. run[p] \in Runs
      BY DEF TypeInv, TypeOK
    <3>2. \A ok \in BOOLEAN : [run[p] EXCEPT !.step = "bought", !.ok = ok] \in Runs
      BY <3>1 DEF Runs, Steps
    <3>3. run' \in [Procs -> Runs]
      BY <2>18, <3>1, <3>2, IdleIsARun, GoesToARun DEF Buy, Return
    <3>4. PICK s \in run[p].symbol, ok \in BOOLEAN :
            run[p].tries[s]["BUY"] \in Attempts /\ Submitted(OrderId(run[p], s, "BUY"), Lot, ok)
      BY <2>18 DEF Buy
    <3>5. CASE OrderId(run[p], s, "BUY") \in OrderIds
      <4>1. Lot \in Nat
        BY <3>1, SizesAssumption DEF Runs
      <4> QED
        BY <2>18, <3>3, <3>4, <3>5, <4>1, SubmittedIsTyped DEF Buy, TypeInv, TypeOK
    <3> QED
      BY <3>1, <3>4, <3>5 DEF OrderId, OrderIds, Runs, Sides
  <2>19. ASSUME NEW p \in Procs, BuyResult(p) PROVE TypeInv'
    <3>1. run[p] \in Runs
      BY DEF TypeInv, TypeOK
    <3>2. (IF run[p].ok THEN run[p].live + 1 ELSE run[p].live) \in Nat
      BY <3>1 DEF Runs
    <3>3. \A n \in Nat : [run[p] EXCEPT !.step = "entries", !.symbol = {}, !.ok = FALSE,
       !.live = n] \in Runs
      BY <3>1 DEF Runs, Steps
    <3>4. run' \in [Procs -> Runs]
      BY <2>19, <3>1, <3>2, <3>3, IdleIsARun, GoesToARun DEF BuyResult, Return
    <3>5. PICK s \in run[p].symbol : Journalled(s, run[p].ok)
      BY <2>19 DEF BuyResult
    <3>6. journal' \in Journals /\ journal'.terminal = journal.terminal
      BY <3>1, <3>5, JournalledIsTyped DEF Runs
    <3> QED
      BY <2>19, <3>4, <3>6 DEF BuyResult, TypeInv, TypeOK, PartsAreParts
  <2>20. ASSUME NEW p \in Procs, Finish(p) PROVE TypeInv'
    BY <2>20, IdleIsARun, GoesToARun, OnlyTheRunMoved DEF Finish, Return
  <2>21. ASSUME NEW p \in Procs, Crash(p) PROVE TypeInv'
    BY <2>21, IdleIsARun, GoesToARun, OnlyTheRunMoved DEF Crash, Return
  <2>22. ASSUME NEW o \in OrderIds, Venue(o) PROVE TypeInv'
    <3>1. \A a \in Answers : Answer(o, a) \in TerminalRows
      BY DEF Answer, TerminalRows
    <3>2. o.symbol \in Symbols /\ o.side \in Sides /\ size[o] \in Nat
      BY DEF TypeInv, TypeOK, OrderIds
    <3>3. CASE Fill(o)
      BY <3>1, <3>2, <3>3 DEF TypeInv, TypeOK, PartsAreParts, Fill, Booked, Fillable, Statuses,
         Answers, Sides, Live
    <3>4. CASE PartFill(o)
      BY <3>1, <3>2, <3>4 DEF TypeInv, TypeOK, PartsAreParts, PartFill, Booked, Fillable,
         Statuses, Answers, Sides
    <3>5. CASE End(o)
      BY <3>1, <3>2, <3>5 DEF TypeInv, TypeOK, PartsAreParts, End, Statuses, Answers
    <3> QED
      BY <2>22, <3>3, <3>4, <3>5 DEF Venue
  <2>23. ASSUME NEW t \in due, RecordTerminal(t) PROVE TypeInv'
    <3>1. t \in TerminalRows /\ due' \subseteq TerminalRows
      BY <2>23 DEF TypeInv, TypeOK, RecordTerminal
    <3>2. journal' \in Journals /\ IsFiniteSet(journal'.terminal)
      <4>1. CASE UNCHANGED journal
        BY <4>1 DEF TypeInv, TypeOK
      <4>2. CASE journal' = [journal EXCEPT !.terminal = @ \cup {t}]
        BY <3>1, <4>2, TerminalIsTyped, FS_AddElement DEF TypeInv, TypeOK
      <4> QED
        BY <2>23, <4>1, <4>2 DEF RecordTerminal
    <3> QED
      BY <2>23, <3>1, <3>2 DEF TypeInv, TypeOK, PartsAreParts, RecordTerminal
  <2>24. ASSUME Operator PROVE TypeInv'
    BY <2>24, SubsetsAssumption DEF TypeInv, TypeOK, PartsAreParts, Operator, Move, Exclude,
       Reconfigure
  <2>25. ASSUME UNCHANGED vars PROVE TypeInv'
    BY <2>25 DEF vars, TypeInv, TypeOK, PartsAreParts
  <2> QED
    BY <2>1, <2>2, <2>3, <2>4, <2>5, <2>6, <2>7, <2>8, <2>9, <2>10, <2>11, <2>12, <2>13,
       <2>14, <2>15, <2>16, <2>17, <2>18, <2>19, <2>20, <2>21, <2>22, <2>23, <2>24, <2>25
       DEF Next, Step
<1> QED
  BY <1>1, <1>2, PTL DEF Spec

-----------------------------------------------------------------------------
(* What the lane sends.  The strengthening says of each task what the      *)
(* three invariants say of the orders: what it is about to send has its    *)
(* intent row, the entries it still carries are in the decision row of its *)
(* slot, and it carries entries past the last look only if that look saw   *)
(* the state it began in.                                                  *)
Submitting == {"recheck", "tail", "exits", "selling", "sold", "suppress", "entries", "buying",
   "bought"}
PastTheLook == Submitting \ {"recheck"}

Recorded(r) ==
  /\ r.step = "selling" => \A s \in r.symbol : <<s, "SELL">> \in intents
  /\ r.step = "buying" => \A s \in r.symbol : <<s, "BUY">> \in intents

Planned(r) ==
  /\ r.step \in Submitting =>
       \A s \in r.enters : decision[r.slot].made /\ s \in decision[r.slot].enters
  /\ r.step = "buying" =>
       \A s \in r.symbol : decision[r.slot].made /\ s \in decision[r.slot].enters

Confirmed(r) ==
  /\ r.step \in PastTheLook /\ r.enters # {} => r.saw = r.st
  /\ r.step \in {"suppress", "entries", "buying", "bought"} => r.st = "TRADING"
  /\ r.step = "buying" => r.saw = "TRADING"
  /\ r.step \in {"read", "look"} => r.enters = {}

SubmitInv ==
  /\ NoRecordNoOrder
  /\ BuysWereDecided
  /\ \A p \in Procs : Recorded(run[p]) /\ Planned(run[p]) /\ Confirmed(run[p])

LEMMA IdleIsHarmless == Recorded(Idle) /\ Planned(Idle) /\ Confirmed(Idle)
  BY DEF Recorded, Planned, Confirmed, Idle, Submitting, PastTheLook

(* A step of one task that leaves the records and the orders alone keeps   *)
(* the invariant if it keeps it of that task.                              *)
LEMMA OneTaskMoved ==
  ASSUME TypeInv, SubmitInv, UNCHANGED <<decision, intents, orders>>,
         NEW p \in Procs, NEW r, Goto(p, r), Recorded(r), Planned(r), Confirmed(r)
  PROVE  SubmitInv'
<1>1. \A q \in Procs : run'[q] = IF q = p THEN r ELSE run[q]
  BY DEF Goto, TypeInv, TypeOK
<1> QED
  BY <1>1 DEF SubmitInv, NoRecordNoOrder, BuysWereDecided, Recorded, Planned, Confirmed

(* The inductive invariant of _submit: what each run between its decision  *)
(* and its orders has put on record, planned and confirmed.                *)
THEOREM SubmitInvariant == Spec => []SubmitInv
<1>1. Init => SubmitInv
  BY IdleIsHarmless DEF Init, SubmitInv, NoRecordNoOrder, BuysWereDecided, OrderIds
<1>2. TypeInv /\ TypeInv' /\ SubmitInv /\ [Next]_vars => SubmitInv'
  <2> SUFFICES ASSUME TypeInv, TypeInv', SubmitInv, [Next]_vars PROVE SubmitInv'
    OBVIOUS
  <2> USE DEF SubmitInv, NoRecordNoOrder, BuysWereDecided, Recorded, Planned, Confirmed,
          Submitting, PastTheLook
  <2>1. ASSUME NEW p \in Procs, NEW k \in Slots, Begin(p, k) PROVE SubmitInv'
    BY <2>1, IdleIsHarmless DEF Begin, Goto, Idle, TypeInv, TypeOK
  <2>2. ASSUME NEW p \in Procs, Blocked(p) PROVE SubmitInv'
    BY <2>2, IdleIsHarmless DEF Blocked, Goto, Return, TypeInv, TypeOK, Runs
  <2>3. ASSUME NEW p \in Procs, ReadBook(p) PROVE SubmitInv'
    <3>1. run[p] \in Runs
      BY DEF TypeInv, TypeOK
    <3>2. \A b : LET r == [run[p] EXCEPT !.step = "look", !.book = b]
          IN Recorded(r) /\ Planned(r) /\ Confirmed(r)
      BY <2>3, <3>1 DEF ReadBook, Runs
    <3> QED
      <4> HIDE DEF SubmitInv, NoRecordNoOrder, BuysWereDecided, Recorded, Planned, Confirmed
      <4> QED BY <2>3, <3>2, IdleIsHarmless, OneTaskMoved DEF ReadBook, Return
  <2>4. ASSUME NEW p \in Procs, Urgent(p) PROVE SubmitInv'
    <3>1. run[p] \in Runs
      BY DEF TypeInv, TypeOK
    <3>2. LET r == [run[p] EXCEPT !.step = "tail", !.exits = Forced(run[p])]
          IN Recorded(r) /\ Planned(r) /\ Confirmed(r)
      BY <2>4, <3>1 DEF Urgent, Runs
    <3> QED
      <4> HIDE DEF SubmitInv, NoRecordNoOrder, BuysWereDecided, Recorded, Planned, Confirmed
      <4> QED BY <2>4, <3>2, IdleIsHarmless, OneTaskMoved DEF Urgent, Return
  <2>5. ASSUME NEW p \in Procs, Resume(p) PROVE SubmitInv'
    <3>1. run[p] \in Runs
      BY DEF TypeInv, TypeOK
    <3>2. LET r == [run[p] EXCEPT !.step = "recheck", !.resumed = TRUE,
       !.exits = OwedExits(run[p]), !.enters = OwedEnters(run[p])]
          IN Recorded(r) /\ Planned(r) /\ Confirmed(r)
      BY <2>5, <3>1 DEF Resume, Runs, OwedEnters
    <3> QED
      <4> HIDE DEF SubmitInv, NoRecordNoOrder, BuysWereDecided, Recorded, Planned, Confirmed
      <4> QED BY <2>5, <3>2, IdleIsHarmless, OneTaskMoved DEF Resume, Return
  <2>6. ASSUME NEW p \in Procs, Decide(p) PROVE SubmitInv'
    BY <2>6, IdleIsHarmless DEF Decide, Goto, Return, TypeInv, TypeOK, Runs
  <2>7. ASSUME NEW p \in Procs, WriteDecision(p) PROVE SubmitInv'
    <3>1. run[p] \in Runs
      BY DEF TypeInv, TypeOK
    <3>2. CASE UNCHANGED decision /\ Return(p)
      <4> HIDE DEF SubmitInv, NoRecordNoOrder, BuysWereDecided, Recorded, Planned, Confirmed
      <4> QED BY <2>7, <3>2, IdleIsHarmless, OneTaskMoved DEF WriteDecision, Return
    <3>3. CASE /\ ~decision[run[p].slot].made
               /\ decision' = [decision EXCEPT ![run[p].slot] =
                                [exits |-> run[p].exits, enters |-> run[p].enters, made |-> TRUE]]
      <4>1. \A k \in Slots : decision[k].made => decision'[k] = decision[k]
        BY <3>1, <3>3 DEF TypeInv, TypeOK
      <4>2. decision'[run[p].slot].made /\ decision'[run[p].slot].enters = run[p].enters
        BY <3>1, <3>3 DEF Runs, TypeInv, TypeOK
      <4>3. \A q \in Procs : q # p => run'[q] = run[q] /\ run[q] \in Runs
        BY <2>7 DEF WriteDecision, Goto, Return, TypeInv, TypeOK
      <4>4. run'[p] \in {Idle, [run[p] EXCEPT !.step = "recheck"]}
        BY <2>7 DEF WriteDecision, Goto, Return, TypeInv, TypeOK
      <4>5. \/ run'[p].step = "idle"
            \/ /\ run'[p].step = "recheck"
               /\ run'[p].slot = run[p].slot /\ run'[p].enters = run[p].enters
        <5>1. CASE run'[p] = Idle
          <6>1. Idle.step = "idle"
            BY DEF Idle
          <6> QED
            BY <5>1, <6>1
        <5>2. CASE run'[p] = [run[p] EXCEPT !.step = "recheck"]
          BY <3>1, <5>2 DEF Runs
        <5> QED
          BY <4>4, <5>1, <5>2
      <4>6. NoRecordNoOrder' /\ BuysWereDecided'
        BY <2>7, <4>1 DEF WriteDecision, OrderIds
      <4>7. \A q \in Procs : q # p => Recorded(run[q])' /\ Planned(run[q])' /\ Confirmed(run[q])'
        BY <2>7, <4>1, <4>3 DEF WriteDecision, Runs
      <4>8. Recorded(run[p])' /\ Planned(run[p])' /\ Confirmed(run[p])'
        BY <4>2, <4>5
      <4> QED
        BY <4>6, <4>7, <4>8
    <3> QED
      BY <2>7, <3>2, <3>3 DEF WriteDecision
  <2>8. ASSUME NEW p \in Procs, Recheck(p) PROVE SubmitInv'
    <3>1. run[p] \in Runs
      BY DEF TypeInv, TypeOK
    <3>2. lifecycle = run[p].st => LET r == [run[p] EXCEPT !.step = "tail", !.saw = lifecycle]
          IN Recorded(r) /\ Planned(r) /\ Confirmed(r)
      BY <2>8, <3>1 DEF Recheck, Runs
    <3> QED
      <4> HIDE DEF SubmitInv, NoRecordNoOrder, BuysWereDecided, Recorded, Planned, Confirmed
      <4> QED BY <2>8, <3>2, IdleIsHarmless, OneTaskMoved DEF Recheck, Return
  <2>9. ASSUME NEW p \in Procs, ReadTail(p) PROVE SubmitInv'
    <3>1. run[p] \in Runs
      BY DEF TypeInv, TypeOK
    <3>2. \A F, t : LET r == [run[p] EXCEPT !.step = "exits", !.refused = F, !.tries = t]
          IN Recorded(r) /\ Planned(r) /\ Confirmed(r)
      BY <2>9, <3>1 DEF ReadTail, Runs
    <3> QED
      <4> HIDE DEF SubmitInv, NoRecordNoOrder, BuysWereDecided, Recorded, Planned, Confirmed
      <4> QED BY <2>9, <3>2, IdleIsHarmless, OneTaskMoved DEF ReadTail, Return
  <2>10. ASSUME NEW p \in Procs, SkipExit(p) PROVE SubmitInv'
    BY <2>10, IdleIsHarmless DEF SkipExit, Goto, Return, TypeInv, TypeOK, Runs
  <2>11. ASSUME NEW p \in Procs, IntendExit(p) PROVE SubmitInv'
    <3>1. run[p] \in Runs /\ \A q \in Procs : q # p => run'[q] = run[q]
      BY <2>11 DEF IntendExit, Goto, TypeInv, TypeOK
    <3>2. PICK s \in run[p].exits :
            \/ /\ Goto(p, [run[p] EXCEPT !.step = "selling", !.exits = @ \ {s}, !.symbol = {s}])
               /\ intents' = intents \cup {<<s, "SELL">>}
            \/ /\ Goto(p, [run[p] EXCEPT !.exits = @ \ {s}, !.refused = @ \cup {s}])
               /\ UNCHANGED intents
      BY <2>11 DEF IntendExit
    <3>3. /\ run'[p].enters = run[p].enters /\ run'[p].saw = run[p].saw
          /\ run'[p].st = run[p].st /\ run'[p].slot = run[p].slot
          /\ \/ run'[p].step = run[p].step
             \/ /\ run'[p].step = "selling"
                /\ \A x \in run'[p].symbol : <<x, "SELL">> \in intents'
      <4>1. CASE /\ Goto(p, [run[p] EXCEPT !.step = "selling", !.exits = @ \ {s}, !.symbol = {s}])
                 /\ intents' = intents \cup {<<s, "SELL">>}
        <5>1. run'[p] = [run[p] EXCEPT !.step = "selling", !.exits = @ \ {s}, !.symbol = {s}]
          BY <4>1 DEF Goto, TypeInv, TypeOK
        <5>2. run'[p].step = "selling" /\ run'[p].symbol = {s}
          BY <3>1, <5>1 DEF Runs
        <5> QED
          BY <3>1, <4>1, <5>1, <5>2 DEF Runs
      <4>2. CASE Goto(p, [run[p] EXCEPT !.exits = @ \ {s}, !.refused = @ \cup {s}])
        <5>1. run'[p] = [run[p] EXCEPT !.exits = @ \ {s}, !.refused = @ \cup {s}]
          BY <4>2 DEF Goto, TypeInv, TypeOK
        <5> QED
          BY <3>1, <5>1 DEF Runs
      <4> QED
        BY <3>2, <4>1, <4>2
    <3>5. intents \subseteq intents'
      BY <3>2
    <3>6. Recorded(run[p])' /\ Planned(run[p])' /\ Confirmed(run[p])'
      BY <2>11, <3>3 DEF IntendExit
    <3> QED
      BY <2>11, <3>1, <3>5, <3>6 DEF IntendExit
  <2>12. ASSUME NEW p \in Procs, Sell(p) PROVE SubmitInv'
    <3>1. run[p] \in Runs /\ \A q \in Procs : q # p => run'[q] = run[q]
      BY <2>12 DEF Sell, Goto, TypeInv, TypeOK
    <3>2. /\ run'[p].step = "sold" /\ run'[p].enters = run[p].enters /\ run'[p].slot = run[p].slot
          /\ run'[p].saw = run[p].saw /\ run'[p].st = run[p].st
      BY <2>12, <3>1 DEF Sell, Goto, TypeInv, TypeOK, Runs
    <3>3. \A o \in OrderIds : orders'[o] # "none" =>
            \/ orders[o] # "none"
            \/ o.slot = run[p].slot /\ o.side = "SELL" /\ o.symbol \in run[p].symbol
      BY <2>12 DEF Sell, Submitted, OrderId, TypeInv, TypeOK
    <3>4. NoRecordNoOrder' /\ BuysWereDecided'
      BY <2>12, <3>3 DEF Sell, OrderIds
    <3>5. Recorded(run[p])' /\ Planned(run[p])' /\ Confirmed(run[p])'
      BY <2>12, <3>2 DEF Sell
    <3>6. \A q \in Procs : q # p => Recorded(run[q])' /\ Planned(run[q])' /\ Confirmed(run[q])'
      BY <2>12, <3>1 DEF Sell
    <3> QED
      BY <3>4, <3>5, <3>6
  <2>13. ASSUME NEW p \in Procs, SellResult(p) PROVE SubmitInv'
    <3>1. run[p] \in Runs
      BY DEF TypeInv, TypeOK
    <3>2. \A F : LET r == [run[p] EXCEPT !.step = "exits", !.symbol = {}, !.ok = FALSE,
       !.refused = F]
          IN Recorded(r) /\ Planned(r) /\ Confirmed(r)
      BY <2>13, <3>1 DEF SellResult, Runs
    <3> QED
      <4> HIDE DEF SubmitInv, NoRecordNoOrder, BuysWereDecided, Recorded, Planned, Confirmed
      <4> QED BY <2>13, <3>2, IdleIsHarmless, OneTaskMoved DEF SellResult, Return
  <2>14. ASSUME NEW p \in Procs, Gate(p) PROVE SubmitInv'
    <3>1. run[p] \in Runs
      BY DEF TypeInv, TypeOK
    <3>2. run[p].st \in MaySubmitEntries => \A n : \A b \in BOOLEAN : LET r == [run[p] EXCEPT !.step = IF b THEN "suppress" ELSE "entries", !.live = n]
          IN Recorded(r) /\ Planned(r) /\ Confirmed(r)
      BY <2>14, <3>1 DEF Gate, Runs, MaySubmitEntries
    <3> QED
      <4> HIDE DEF SubmitInv, NoRecordNoOrder, BuysWereDecided, Recorded, Planned, Confirmed
      <4> QED BY <2>14, <3>2, IdleIsHarmless, OneTaskMoved DEF Gate, Return
  <2>15. ASSUME NEW p \in Procs, Suppress(p) PROVE SubmitInv'
    <3>1. run[p] \in Runs
      BY DEF TypeInv, TypeOK
    <3>2. \A s \in run[p].enters : LET r == [run[p] EXCEPT !.enters = @ \ {s}]
          IN Recorded(r) /\ Planned(r) /\ Confirmed(r)
      BY <2>15, <3>1 DEF Suppress, Runs
    <3> QED
      <4> HIDE DEF SubmitInv, NoRecordNoOrder, BuysWereDecided, Recorded, Planned, Confirmed
      <4> QED BY <2>15, <3>2, IdleIsHarmless, OneTaskMoved DEF Suppress, Return
  <2>16. ASSUME NEW p \in Procs, SkipEntry(p) PROVE SubmitInv'
    BY <2>16, IdleIsHarmless DEF SkipEntry, Goto, Return, TypeInv, TypeOK, Runs
  <2>17. ASSUME NEW p \in Procs, IntendEntry(p) PROVE SubmitInv'
    BY <2>17, IdleIsHarmless DEF IntendEntry, Goto, Return, TypeInv, TypeOK, Runs
  <2>18. ASSUME NEW p \in Procs, Buy(p) PROVE SubmitInv'
    <3>1. run[p] \in Runs /\ \A q \in Procs : q # p => run'[q] = run[q]
      BY <2>18 DEF Buy, Goto, TypeInv, TypeOK
    <3>2. /\ run'[p].step = "bought" /\ run'[p].enters = run[p].enters /\ run'[p].slot = run[p].slot
          /\ run'[p].saw = run[p].saw /\ run'[p].st = run[p].st
      BY <2>18, <3>1 DEF Buy, Goto, TypeInv, TypeOK, Runs
    <3>3. \A o \in OrderIds : orders'[o] # "none" =>
            \/ orders[o] # "none"
            \/ o.slot = run[p].slot /\ o.side = "BUY" /\ o.symbol \in run[p].symbol
      BY <2>18 DEF Buy, Submitted, OrderId, TypeInv, TypeOK
    <3>4. NoRecordNoOrder' /\ BuysWereDecided'
      BY <2>18, <3>3 DEF Buy, OrderIds
    <3>5. Recorded(run[p])' /\ Planned(run[p])' /\ Confirmed(run[p])'
      BY <2>18, <3>2 DEF Buy
    <3>6. \A q \in Procs : q # p => Recorded(run[q])' /\ Planned(run[q])' /\ Confirmed(run[q])'
      BY <2>18, <3>1 DEF Buy
    <3> QED
      BY <3>4, <3>5, <3>6
  <2>19. ASSUME NEW p \in Procs, BuyResult(p) PROVE SubmitInv'
    BY <2>19, IdleIsHarmless DEF BuyResult, Goto, Return, TypeInv, TypeOK, Runs
  <2>20. ASSUME NEW p \in Procs, Finish(p) PROVE SubmitInv'
    BY <2>20, IdleIsHarmless DEF Finish, Goto, Return, TypeInv, TypeOK, Runs
  <2>21. ASSUME NEW p \in Procs, Crash(p) PROVE SubmitInv'
    BY <2>21, IdleIsHarmless DEF Crash, Goto, Return, TypeInv, TypeOK, Runs
  <2>22. ASSUME NEW o \in OrderIds, Venue(o) PROVE SubmitInv'
    BY <2>22 DEF TypeInv, TypeOK, Venue, Fill, PartFill, End, Live
  <2>23. ASSUME NEW t \in due, RecordTerminal(t) PROVE SubmitInv'
    BY <2>23 DEF RecordTerminal
  <2>24. ASSUME Operator PROVE SubmitInv'
    <3>1. UNCHANGED <<run, decision, intents, orders>>
      BY <2>24 DEF Operator, Move, Exclude, Reconfigure
    <3> QED
      BY <3>1
  <2>25. ASSUME UNCHANGED vars PROVE SubmitInv'
    BY <2>25 DEF vars
  <2> QED
    BY <2>1, <2>2, <2>3, <2>4, <2>5, <2>6, <2>7, <2>8, <2>9, <2>10, <2>11, <2>12, <2>13,
       <2>14, <2>15, <2>16, <2>17, <2>18, <2>19, <2>20, <2>21, <2>22, <2>23, <2>24, <2>25
       DEF Next, Step
<1> QED
  BY <1>1, <1>2, TypeInvariant, PTL DEF Spec

(* The type invariant.                                                     *)
THEOREM TypeCorrect == Spec => []TypeOK
  BY TypeInvariant, PTL DEF TypeInv

(* Every order at the broker has its intent row.                           *)
THEOREM OrdersAreRecorded == Spec => []NoRecordNoOrder
  BY SubmitInvariant, PTL DEF SubmitInv

(* Every BUY of a slot is an entry of the one decision the slot has.       *)
THEOREM BuysDecided == Spec => []BuysWereDecided
  BY SubmitInvariant, PTL DEF SubmitInv

(* A task about to buy began in TRADING and saw TRADING last.              *)
THEOREM EntriesAreConfirmed == Spec => []EntriesConfirmed
<1>1. SubmitInv => EntriesConfirmed
  BY DEF SubmitInv, Confirmed, EntriesConfirmed
<1> QED
  BY <1>1, SubmitInvariant, PTL

-----------------------------------------------------------------------------
(* A session of one slot (the rows it counts name none): a retry never     *)
(* makes a second live order, the entries are funded by the exits, and     *)
(* what was suppressed stays out.                                          *)
OneSlot == \A k, l \in Slots : k = l

-----------------------------------------------------------------------------
(* Attempts.  The number of refused orders on record is an attempt number  *)
(* below which everything is over: attempts are made in order (InOrder),   *)
(* a row says "refused" only of an order that is over (RowsAreOver), and   *)
(* what is over stays so, which keeps what a task has counted (Counted).   *)
Over(o) == orders[o] \in {"refused", "denied"}

InOrder ==
  \A o, x \in OrderIds :
    SameQuestion(o, x) /\ orders[o] # "none" /\ x.attempt < o.attempt => Over(x)

RowsAreOver == \A t \in journal.terminal \cup due : t.answer = "refused" => Over(t.order)

Counted(r) == \A o \in OrderIds : o.attempt < r.tries[o.symbol][o.side] => Over(o)

AttemptInv == InOrder /\ RowsAreOver /\ \A p \in Procs : Counted(run[p])

LEMMA OrderFields ==
  ASSUME NEW o \in OrderIds
  PROVE  o.slot \in Slots /\ o.symbol \in Symbols /\ o.side \in Sides /\ o.attempt \in Nat
  BY AttemptsAssumption DEF OrderIds

LEMMA SameOrder ==
  ASSUME NEW o \in OrderIds, NEW x \in OrderIds, SameQuestion(o, x), o.attempt = x.attempt
  PROVE  o = x
  BY DEF OrderIds, SameQuestion

(* The counting argument: n refused orders of one question cannot all have *)
(* attempt numbers below one that is not over.                             *)
LEMMA BelowTheCount ==
  ASSUME OneSlot, TypeInv, InOrder, RowsAreOver, NEW o \in OrderIds,
         o.attempt < AttemptsFor(journal, o.symbol, o.side)
  PROVE  Over(o)
<1> DEFINE U == {u \in OnSide(Refusals(journal, o.symbol), o.side) : u.answer = "refused"}
           T == {t.order : t \in U}
           a == o.attempt
           f == [x \in T |-> x.attempt]
<1>1. SUFFICES ASSUME ~Over(o) PROVE FALSE
  OBVIOUS
<1>2. a < Cardinality(T)
  BY OrderFields DEF AttemptsFor
<1>3. ASSUME NEW x \in T PROVE x \in OrderIds /\ SameQuestion(o, x) /\ x.attempt \in 0..(a - 1)
  <2>1. x \in OrderIds /\ x.symbol = o.symbol /\ x.side = o.side /\ Over(x)
    BY DEF OnSide, Refusals, RowsAreOver, TypeInv, TypeOK, Journals, TerminalRows
  <2>2. SameQuestion(o, x) /\ SameQuestion(x, o)
    BY <2>1, OrderFields DEF SameQuestion, OneSlot
  <2>3. x.attempt \in Nat /\ a \in Nat
    BY <2>1, OrderFields
  <2>4. x.attempt # a
    BY <1>1, <2>1, <2>2, SameOrder
  <2>5. ~(a < x.attempt)
    BY <1>1, <2>1, <2>2 DEF InOrder, Over
  <2> QED
    BY <2>1, <2>2, <2>3, <2>4, <2>5
<1>4. f \in Injection(T, 0..(a - 1))
  <2>1. f \in [T -> 0..(a - 1)]
    BY <1>3
  <2>2. ASSUME NEW x \in T, NEW y \in T, f[x] = f[y] PROVE x = y
    BY <1>3, <2>2, SameOrder DEF SameQuestion
  <2> QED
    BY <2>1, <2>2 DEF Injection, IsInjective
<1>5. a \in Nat
  BY OrderFields
<1>6. IsFiniteSet(0..(a - 1)) /\ Cardinality(0..(a - 1)) = a
  <2> HIDE DEF a
  <2>1. 0 \in Int /\ a - 1 \in Int /\ (0 > a - 1 => a = 0) /\ a - 1 - 0 + 1 = a
    BY <1>5
  <2> QED
    BY <2>1, FS_Interval
<1>7. IsFiniteSet(T) /\ Cardinality(T) <= a
  <2> HIDE DEF T, f
  <2> QED
    BY <1>4, <1>6, FS_Injection
<1>8. Cardinality(T) \in Nat
  <2> HIDE DEF T
  <2> QED
    BY <1>7, FS_CardinalityType
<1> QED
  BY <1>2, <1>5, <1>7, <1>8

(* No step but ReadTail counts, and a task forgets its count only.         *)
LEMMA CountsMove ==
  ASSUME TypeInv, NEW p \in Procs, Step(p)
  PROVE  /\ \A q \in Procs : q # p => run'[q] = run[q]
         /\ \/ run'[p].tries = run[p].tries
            \/ run'[p].tries = NoTries
            \/ /\ run'[p].tries =
                    [s \in Symbols |-> [d \in Sides |-> AttemptsFor(journal, s, d)]]
               /\ UNCHANGED orders
<1>1. run[p] \in Runs /\ run \in [Procs -> Runs]
  BY DEF TypeInv, TypeOK
<1>2. CASE \E k \in Slots : Begin(p, k)
  BY <1>1, <1>2 DEF Begin, Idle, Goto, Runs
<1>3. CASE Blocked(p)
  BY <1>1, <1>3 DEF Blocked, Return, Idle, Goto, Runs
<1>4. CASE ReadBook(p)
  BY <1>1, <1>4 DEF ReadBook, Goto, Runs
<1>5. CASE Urgent(p)
  BY <1>1, <1>5 DEF Urgent, Goto, Runs
<1>6. CASE Resume(p)
  BY <1>1, <1>6 DEF Resume, Goto, Runs
<1>7. CASE Decide(p)
  BY <1>1, <1>7 DEF Decide, Goto, Runs
<1>8. CASE WriteDecision(p)
  BY <1>1, <1>8 DEF WriteDecision, Return, Idle, Goto, Runs
<1>9. CASE Recheck(p)
  <2>1. CASE run' = [run EXCEPT ![p] = Idle]
    BY <1>1, <2>1 DEF Idle
  <2>2. CASE run' = [run EXCEPT ![p] = [run[p] EXCEPT !.step = "tail", !.saw = lifecycle]]
    BY <1>1, <2>2 DEF Runs
  <2> QED
    BY <1>9, <2>1, <2>2 DEF Recheck, Return, Goto
<1>10. CASE ReadTail(p)
  BY <1>1, <1>10 DEF ReadTail, Goto, Runs
<1>11. CASE SkipExit(p)
  BY <1>1, <1>11 DEF SkipExit, Goto, Runs
<1>12. CASE IntendExit(p)
  <2>1. PICK s \in run[p].exits :
          \/ run' = [run EXCEPT ![p] =
                      [run[p] EXCEPT !.step = "selling", !.exits = @ \ {s}, !.symbol = {s}]]
          \/ run' = [run EXCEPT ![p] =
                      [run[p] EXCEPT !.exits = @ \ {s}, !.refused = @ \cup {s}]]
    BY <1>12 DEF IntendExit, Goto
  <2> QED
    BY <1>1, <2>1 DEF Runs
<1>13. CASE Sell(p)
  BY <1>1, <1>13 DEF Sell, Goto, Runs
<1>14. CASE SellResult(p)
  BY <1>1, <1>14 DEF SellResult, Goto, Runs
<1>15. CASE Gate(p)
  <2>1. CASE run' = [run EXCEPT ![p] = Idle]
    BY <1>1, <2>1 DEF Idle
  <2>2. CASE run' = [run EXCEPT ![p] =
                      [run[p] EXCEPT !.step = IF unsupported THEN "suppress" ELSE "entries",
                                     !.live = Cardinality(Held(run[p]))]]
    BY <1>1, <2>2 DEF Runs
  <2> QED
    BY <1>15, <2>1, <2>2 DEF Gate, Return, Goto
<1>16. CASE Suppress(p)
  <2>1. CASE run' = [run EXCEPT ![p] = Idle]
    BY <1>1, <2>1 DEF Idle
  <2>2. CASE \E s : run' = [run EXCEPT ![p] = [run[p] EXCEPT !.enters = @ \ {s}]]
    BY <1>1, <2>2 DEF Runs
  <2> QED
    BY <1>16, <2>1, <2>2 DEF Suppress, Return, Goto
<1>17. CASE SkipEntry(p)
  BY <1>1, <1>17 DEF SkipEntry, Goto, Runs
<1>18. CASE IntendEntry(p)
  BY <1>1, <1>18 DEF IntendEntry, Goto, Runs
<1>19. CASE Buy(p)
  BY <1>1, <1>19 DEF Buy, Goto, Runs
<1>20. CASE BuyResult(p)
  BY <1>1, <1>20 DEF BuyResult, Goto, Runs
<1>21. CASE Finish(p)
  BY <1>1, <1>21 DEF Finish, Return, Idle, Goto, Runs
<1>22. CASE Crash(p)
  BY <1>1, <1>22 DEF Crash, Return, Idle, Goto, Runs
<1> QED
  BY <1>2, <1>3, <1>4, <1>5, <1>6, <1>7, <1>8, <1>9, <1>10, <1>11, <1>12,
     <1>13, <1>14, <1>15, <1>16, <1>17, <1>18, <1>19, <1>20, <1>21, <1>22
  DEF Step

(* What a submit does to the orders: nothing, or one under a new id.       *)
LEMMA OneOrderSent ==
  ASSUME TypeInv, NEW o \in OrderIds, NEW q, NEW ok, Submitted(o, q, ok), ~DenialIsJournalled
  PROVE  /\ \A x \in OrderIds : orders'[x] # orders[x] =>
              x = o /\ orders[o] = "none" /\ orders'[o] \in {"working", "denied"}
         /\ \A t \in due' \ due : t.answer = "refused" /\ Over(t.order)'
  BY DEF Submitted, Denial, Over, TypeInv, TypeOK

(* An order made under the id a task has counted keeps attempts in order.  *)
LEMMA SentInOrder ==
  ASSUME OneSlot, TypeInv, AttemptInv, ~DenialIsJournalled, NEW p \in Procs, Step(p),
         NEW s \in Symbols, NEW d \in Sides, run[p].tries[s][d] \in Attempts,
         NEW q, NEW ok, Submitted(OrderId(run[p], s, d), q, ok), UNCHANGED journal,
         run'[p].tries = run[p].tries
  PROVE  AttemptInv'
<1> DEFINE o == OrderId(run[p], s, d)
<1>1. o \in OrderIds /\ o.symbol = s /\ o.side = d /\ o.attempt = run[p].tries[s][d]
  BY DEF OrderId, OrderIds, TypeInv, TypeOK, Runs
<1>2. /\ \A x \in OrderIds : orders'[x] # orders[x] =>
           x = o /\ orders[o] = "none" /\ orders'[o] \in {"working", "denied"}
      /\ \A t \in due' \ due : t.answer = "refused" /\ Over(t.order)'
  BY <1>1, OneOrderSent
<1>3. \A x \in OrderIds : Over(x) => Over(x)'
  BY <1>2 DEF Over
<1>4. InOrder'
  <2> SUFFICES ASSUME NEW x \in OrderIds, NEW y \in OrderIds, SameQuestion(x, y),
                      orders'[x] # "none", y.attempt < x.attempt
               PROVE  Over(y)'
    BY DEF InOrder, SameQuestion
  <2>1. CASE orders[x] # "none"
    BY <1>3, <2>1 DEF AttemptInv, InOrder
  <2>2. CASE orders[x] = "none"
    <3>1. x = o
      BY <1>2, <2>2
    <3>2. y.symbol = s /\ y.side = d /\ y.attempt < run[p].tries[s][d]
      BY <1>1, <3>1 DEF SameQuestion
    <3> QED
      BY <1>3, <3>2 DEF AttemptInv, Counted
  <2> QED
    BY <2>1, <2>2
<1>5. RowsAreOver'
  <2>1. \A t \in journal.terminal \cup due : t.order \in OrderIds
    BY DEF TypeInv, TypeOK, Journals, TerminalRows
  <2> QED
    BY <1>2, <1>3, <2>1 DEF AttemptInv, RowsAreOver
<1>6. \A x \in Procs : Counted(run[x])'
  BY <1>3, CountsMove DEF AttemptInv, Counted
<1> QED
  BY <1>4, <1>5, <1>6 DEF AttemptInv

THEOREM AttemptInvariant == OneSlot /\ ~DenialIsJournalled /\ Spec => []AttemptInv
<1> SUFFICES ASSUME OneSlot, ~DenialIsJournalled PROVE Spec => []AttemptInv
  OBVIOUS
<1>0. \A r : r.tries = NoTries => Counted(r)
  <2>1. \A o \in OrderIds : NoTries[o.symbol][o.side] = 0 /\ ~(o.attempt < 0)
    BY OrderFields DEF NoTries
  <2> QED
    BY <2>1 DEF Counted
<1>1. Init => AttemptInv
  <2>1. Idle.tries = NoTries
    BY DEF Idle
  <2> QED
    BY <1>0, <2>1 DEF Init, AttemptInv, InOrder, RowsAreOver, EmptyJournal
<1>2. TypeInv /\ AttemptInv /\ [Next]_vars => AttemptInv'
  <2> SUFFICES ASSUME TypeInv, AttemptInv, [Next]_vars PROVE AttemptInv'
    OBVIOUS
  <2>0. journal.terminal \cup due \subseteq TerminalRows
    BY DEF TypeInv, TypeOK, Journals
  <2>1. ASSUME NEW p \in Procs, Sell(p) PROVE AttemptInv'
    <3>1. PICK s \in run[p].symbol, ok \in BOOLEAN :
            /\ run[p].tries[s]["SELL"] \in Attempts
            /\ Submitted(OrderId(run[p], s, "SELL"), run[p].book[s], ok)
            /\ Goto(p, [run[p] EXCEPT !.step = "sold", !.ok = ok])
      BY <2>1 DEF Sell
    <3>2. s \in Symbols /\ "SELL" \in Sides /\ run[p] \in Runs
      BY DEF TypeInv, TypeOK, Runs, Sides
    <3>3. UNCHANGED journal /\ Step(p)
      BY <2>1 DEF Sell, Step
    <3>4. run'[p].tries = run[p].tries
      BY <3>1, <3>2 DEF Goto, TypeInv, TypeOK, Runs
    <3> QED
      BY <3>1, <3>2, <3>3, <3>4, SentInOrder
  <2>2. ASSUME NEW p \in Procs, Buy(p) PROVE AttemptInv'
    <3>1. PICK s \in run[p].symbol, ok \in BOOLEAN :
            /\ run[p].tries[s]["BUY"] \in Attempts
            /\ Submitted(OrderId(run[p], s, "BUY"), Lot, ok)
            /\ Goto(p, [run[p] EXCEPT !.step = "bought", !.ok = ok])
      BY <2>2 DEF Buy
    <3>2. s \in Symbols /\ "BUY" \in Sides /\ run[p] \in Runs
      BY DEF TypeInv, TypeOK, Runs, Sides
    <3>3. UNCHANGED journal /\ Step(p)
      BY <2>2 DEF Buy, Step
    <3>4. run'[p].tries = run[p].tries
      BY <3>1, <3>2 DEF Goto, TypeInv, TypeOK, Runs
    <3> QED
      BY <3>1, <3>2, <3>3, <3>4, SentInOrder
  <2>3. ASSUME NEW p \in Procs, Step(p), ~Sell(p), ~Buy(p) PROVE AttemptInv'
    <3>1. UNCHANGED <<orders, due>> /\ journal'.terminal = journal.terminal
      <4>1. CASE UNCHANGED journal
        BY <2>3, <4>1 DEF Step, Begin, Blocked, ReadBook, Urgent, Resume, Decide, WriteDecision,
           Recheck, ReadTail, SkipExit, IntendExit, SellResult, Gate, Suppress, SkipEntry,
           IntendEntry, BuyResult, Finish, Crash
      <4>2. CASE SellResult(p) \/ BuyResult(p)
        <5>1. PICK s \in run[p].symbol : Journalled(s, run[p].ok)
          BY <4>2 DEF SellResult, BuyResult
        <5>2. s \in Symbols /\ run[p].ok \in BOOLEAN
          BY DEF TypeInv, TypeOK, Runs
        <5> QED
          BY <4>2, <5>1, <5>2, JournalledIsTyped DEF SellResult, BuyResult
      <4>3. CASE Suppress(p)
        <5>1. CASE UNCHANGED journal
          BY <4>3, <5>1 DEF Suppress
        <5>2. CASE \E s \in run[p].enters :
                journal' = [journal EXCEPT !.failed[s] = @ + 1, !.suppressed = @ \cup {s}]
          <6>1. run[p].enters \subseteq Symbols
            BY DEF TypeInv, TypeOK, Runs
          <6> QED
            BY <4>3, <5>2, <6>1, SuppressedIsTyped DEF Suppress, TypeInv, TypeOK
        <5> QED
          BY <4>3, <5>1, <5>2 DEF Suppress
      <4> QED
        BY <2>3, <4>1, <4>2, <4>3 DEF Step, Begin, Blocked, ReadBook, Urgent, Resume, Decide,
           WriteDecision, Recheck, ReadTail, SkipExit, IntendExit, Gate, SkipEntry, IntendEntry,
           Finish, Crash
    <3>2. InOrder' /\ RowsAreOver'
      BY <3>1 DEF AttemptInv, InOrder, RowsAreOver, Over, SameQuestion
    <3>3. \A q \in Procs : q # p => Counted(run[q])'
      BY <2>3, <3>1, CountsMove DEF AttemptInv, Counted, Over
    <3>4. Counted(run[p])'
      <4>1. CASE run'[p].tries = run[p].tries
        BY <3>1, <4>1 DEF AttemptInv, Counted, Over
      <4>2. CASE run'[p].tries = NoTries
        <5>1. \A o \in OrderIds : ~(o.attempt < run'[p].tries[o.symbol][o.side])
          BY <4>2, OrderFields DEF NoTries
        <5> QED
          BY <5>1 DEF Counted
      <4>3. CASE run'[p].tries =
                   [s \in Symbols |-> [d \in Sides |-> AttemptsFor(journal, s, d)]]
        <5>1. ASSUME NEW o \in OrderIds, o.attempt < run'[p].tries[o.symbol][o.side]
              PROVE  Over(o)
          BY <4>3, <5>1, OrderFields, BelowTheCount DEF AttemptInv
        <5> QED
          BY <3>1, <5>1 DEF Counted, Over
      <4> QED
        BY <2>3, <4>1, <4>2, <4>3, CountsMove
    <3> QED
      BY <3>2, <3>3, <3>4 DEF AttemptInv
  <2>4. ASSUME NEW o \in OrderIds, Venue(o) PROVE AttemptInv'
    <3>1. /\ Live(o) /\ UNCHANGED <<journal, run>>
          /\ \A x \in OrderIds : x # o => orders'[x] = orders[x]
          /\ orders'[o] # "none"
          /\ \A t \in due' \ due : t.answer = "refused" => Over(t.order)'
      BY <2>4 DEF Venue, Fill, PartFill, End, Live, Answer, Over, TypeInv, TypeOK
    <3>2. \A x \in OrderIds : (Over(x) => Over(x)') /\ (orders'[x] # "none" => orders[x] # "none")
      BY <3>1 DEF Over, Live
    <3>3. \A t \in journal.terminal \cup due : t.order \in OrderIds
      BY <2>0 DEF TerminalRows
    <3> QED
      BY <3>1, <3>2, <3>3 DEF AttemptInv, InOrder, RowsAreOver, Counted, SameQuestion
  <2>5. ASSUME NEW t \in due, RecordTerminal(t) PROVE AttemptInv'
    <3>1. /\ UNCHANGED <<orders, run>>
          /\ journal'.terminal \cup due' \subseteq journal.terminal \cup due
      <4>1. journal'.terminal \in {journal.terminal, journal.terminal \cup {t}}
        BY <2>0, <2>5, TerminalIsTyped DEF RecordTerminal, TypeInv, TypeOK
      <4> QED
        BY <2>5, <4>1 DEF RecordTerminal
    <3> QED
      BY <3>1 DEF AttemptInv, InOrder, RowsAreOver, Counted, Over, SameQuestion
  <2>6. ASSUME Operator \/ UNCHANGED vars PROVE AttemptInv'
    <3>1. UNCHANGED <<orders, run, journal, due>>
      BY <2>6 DEF Operator, Move, Exclude, Reconfigure, vars
    <3> QED
      BY <3>1 DEF AttemptInv, InOrder, RowsAreOver, Counted, Over, SameQuestion
  <2> QED
    BY <2>1, <2>2, <2>3, <2>4, <2>5, <2>6 DEF Next
<1> QED
  BY <1>1, <1>2, TypeInvariant, PTL DEF Spec

(* A slot never has two live orders for a symbol and side: for any number  *)
(* of tasks, attempts, crashes and lost rows, as long as a denial that     *)
(* only the adapter knows of is not journalled.                            *)
THEOREM OneOrderLives == OneSlot /\ ~DenialIsJournalled /\ Spec => []NoSecondOrder
<1>1. TypeInv /\ AttemptInv => NoSecondOrder
  <2> SUFFICES ASSUME TypeInv, AttemptInv, NEW o \in OrderIds, NEW x \in OrderIds,
                      Live(o), Live(x), SameQuestion(o, x)
               PROVE  o = x
    BY DEF NoSecondOrder
  <2>1. o.attempt \in Nat /\ x.attempt \in Nat /\ SameQuestion(x, o)
    BY OrderFields DEF SameQuestion
  <2>2. ~Over(o) /\ ~Over(x) /\ orders[o] # "none" /\ orders[x] # "none"
    BY DEF Live, Over
  <2>3. ~(o.attempt < x.attempt) /\ ~(x.attempt < o.attempt)
    BY <2>1, <2>2 DEF AttemptInv, InOrder
  <2> QED
    BY <2>1, <2>3, SameOrder
<1> QED
  BY <1>1, TypeInvariant, AttemptInvariant, PTL

-----------------------------------------------------------------------------
(* Funding.  Of each decided exit the task could size, the exit loop knows *)
(* whether it went out, is still to be sold, or was refused; past the gate *)
(* none is left of the last two.  What a resume leaves out because the     *)
(* journal says it was accepted did go out: an accepted row of a symbol is *)
(* of its SELL unless the slot decided to buy it.                          *)
Buys(r) == r.step \in {"buying", "bought"} \/ (r.step = "entries" /\ r.enters # {})

Funding(r) ==
  /\ \A a, b \in r.symbol : a = b
  /\ r.step = "write" => r.exits \cap r.enters = {}
  /\ r.step = "sold" /\ r.ok => \A s \in r.symbol : WentOut(s, r.slot)
  /\ r.step \in {"buying", "bought"} =>
       decision[r.slot].made /\ r.symbol \subseteq decision[r.slot].enters
  /\ r.step \in {"recheck", "tail"} /\ ~r.resumed /\ r.enters # {} =>
       decision[r.slot].exits \subseteq r.exits
  /\ r.step \in {"exits", "selling", "sold"} /\ r.enters # {} =>
       \A s \in decision[r.slot].exits \cap Sellable(r) :
         \/ WentOut(s, r.slot)
         \/ s \in r.exits \cup r.refused
         \/ r.step # "exits" /\ s \in r.symbol
  /\ Buys(r) /\ ~HeldLongEnough =>
       \A s \in decision[r.slot].exits \cap Sellable(r) : WentOut(s, r.slot)

AcceptedWentOut ==
  \A s \in Symbols, k \in Slots :
    journal.accepted[s] > 0 =>
      WentOut(s, k) \/ (decision[k].made /\ s \in decision[k].enters)

FilledWasSent == \A t \in journal.terminal \cup due : t.answer = "filled" => Sent(t.order)

ExitsAreNotEntries == \A k \in Slots : decision[k].exits \cap decision[k].enters = {}

FundInv ==
  /\ AcceptedWentOut /\ FilledWasSent /\ ExitsAreNotEntries
  /\ \A p \in Procs : Funding(run[p])

(* What was sent stays sent, and a decision that is made is the decision.  *)
Keeps ==
  /\ \A o \in OrderIds : Sent(o) => Sent(o)'
  /\ \A k \in Slots : decision[k].made => decision'[k] = decision[k]

LEMMA WentOutStays ==
  ASSUME Keeps, NEW s, NEW k, WentOut(s, k)
  PROVE  WentOut(s, k)'
  BY DEF Keeps, WentOut

LEMMA OthersStayFunded ==
  ASSUME TypeInv, SubmitInv, FundInv, Keeps, NEW q \in Procs, run'[q] = run[q]
  PROVE  Funding(run[q])'
<1> DEFINE r == run[q]
<1>1. Funding(r) /\ Planned(r) /\ r.slot \in Slots
  BY DEF FundInv, SubmitInv, TypeInv, TypeOK, Runs
<1>2. r.step \in {"recheck", "tail", "exits", "selling", "sold", "entries"} /\ r.enters # {}
        => decision[r.slot].made
  BY <1>1 DEF Planned, Submitting
<1>3. decision[r.slot].made => decision'[r.slot] = decision[r.slot]
  BY <1>1 DEF Keeps
<1> QED
  BY <1>1, <1>2, <1>3, WentOutStays DEF Funding, Buys

(* A step of one task that leaves orders, decisions and answers alone.     *)
LEMMA OneTaskFunded ==
  ASSUME TypeInv, SubmitInv, FundInv, NEW p \in Procs,
         UNCHANGED <<decision, orders, due>>, journal'.accepted = journal.accepted,
         journal'.terminal = journal.terminal,
         \A q \in Procs : q # p => run'[q] = run[q], Funding(run[p])'
  PROVE  FundInv'
<1>1. Keeps
  BY DEF Keeps, Sent
<1>2. \A q \in Procs : Funding(run[q])'
  BY <1>1, OthersStayFunded
<1>3. AcceptedWentOut' /\ FilledWasSent' /\ ExitsAreNotEntries'
  BY <1>1, WentOutStays DEF FundInv, AcceptedWentOut, FilledWasSent, ExitsAreNotEntries, Sent
<1> QED
  BY <1>2, <1>3 DEF FundInv

LEMMA IdleIsFunded ==
  ASSUME NEW p \in Procs, run'[p].step \in {"idle", "read"}, run'[p].symbol = {}
  PROVE  Funding(run[p])'
  BY DEF Funding, Buys

LEMMA ReturnsFunded ==
  ASSUME TypeInv, SubmitInv, FundInv, NEW p \in Procs, Return(p),
         UNCHANGED <<decision, journal, orders, due>>
  PROVE  FundInv'
<1>1. Idle.step = "idle" /\ Idle.symbol = {}
  BY DEF Idle
<1>2. run'[p] = Idle /\ \A q \in Procs : q # p => run'[q] = run[q]
  BY DEF Return, Goto, TypeInv, TypeOK
<1> QED
  BY <1>1, <1>2, IdleIsFunded, OneTaskFunded

(* What the gate of a resume reads: a decided exit it can size is owed, or *)
(* is counted as refused, or went out.                                     *)
LEMMA ResumeAccounts ==
  ASSUME OneSlot, TypeInv, FundInv, NEW r \in Runs, decision[r.slot].made,
         NEW s \in decision[r.slot].exits \cap Sellable(r)
  PROVE  WentOut(s, r.slot) \/ s \in r.exits \cup Unfunded(r)
<1>1. s \in Symbols /\ r.slot \in Slots
  BY DEF Sellable, Held, Runs
<1>2. CASE s \notin r.exits /\ SubmittedOk(journal, s, "SELL")
  <2>1. CASE journal.accepted[s] > 0
    BY <1>1, <2>1 DEF FundInv, AcceptedWentOut, ExitsAreNotEntries
  <2>2. CASE OnSide(Fills(journal, s), "SELL") # {}
    <3>1. PICK t \in journal.terminal :
            t.order.symbol = s /\ t.order.side = "SELL" /\ t.answer = "filled"
      BY <2>2 DEF OnSide, Fills
    <3>2. t.order \in OrderIds /\ Sent(t.order)
      BY <3>1 DEF FundInv, FilledWasSent, TypeInv, TypeOK, Journals, TerminalRows
    <3>3. t.order.slot = r.slot
      BY <1>1, <3>2, OrderFields DEF OneSlot
    <3> QED
      BY <3>1, <3>2, <3>3 DEF WentOut
  <2> QED
    BY <1>2, <2>1, <2>2 DEF SubmittedOk
<1>3. CASE s \notin r.exits /\ ~SubmittedOk(journal, s, "SELL")
  BY <1>3 DEF Unfunded
<1> QED
  BY <1>2, <1>3

(* A submit sends at most one order, of this slot, symbol and side; what   *)
(* answers ok is an order that was sent.                                   *)
LEMMA SubmitKeeps ==
  ASSUME TypeInv, FundInv, NEW o \in OrderIds, NEW q, NEW ok \in BOOLEAN, Submitted(o, q, ok),
         UNCHANGED <<decision, journal>>
  PROVE  /\ Keeps /\ (ok => orders'[o] \notin {"none", "denied"})
         /\ AcceptedWentOut' /\ FilledWasSent' /\ ExitsAreNotEntries'
<1>1. Keeps /\ (ok => orders'[o] \notin {"none", "denied"})
  BY DEF Submitted, Keeps, Sent, TypeInv, TypeOK
<1>2. \A t \in due' \ due : t.answer # "filled"
  BY DEF Submitted, Denial
<1>3. \A t \in journal.terminal \cup due : t.order \in OrderIds
  BY DEF TypeInv, TypeOK, Journals, TerminalRows
<1>4. FilledWasSent'
  BY <1>1, <1>2, <1>3 DEF FundInv, FilledWasSent, Keeps
<1> QED
  BY <1>1, <1>4, WentOutStays DEF FundInv, AcceptedWentOut, ExitsAreNotEntries

(* A result row says accepted of an order that went out.                   *)
LEMMA JournalledKeeps ==
  ASSUME OneSlot, TypeInv, FundInv, NEW k \in Slots, NEW s \in Symbols, NEW ok \in BOOLEAN,
         Journalled(s, ok), UNCHANGED <<decision, orders, due>>,
         ok => WentOut(s, k) \/ (decision[k].made /\ s \in decision[k].enters)
  PROVE  Keeps /\ AcceptedWentOut' /\ FilledWasSent' /\ ExitsAreNotEntries'
<1>1. Keeps
  BY DEF Keeps, Sent
<1>2. journal'.terminal = journal.terminal
  BY JournalledIsTyped
<1>3. \A x \in Symbols : journal'.accepted[x] > 0 => journal.accepted[x] > 0 \/ (x = s /\ ok)
  BY DEF Journalled, TypeInv, TypeOK, Journals
<1>4. AcceptedWentOut'
  <2> SUFFICES ASSUME NEW x \in Symbols, NEW l \in Slots, journal'.accepted[x] > 0
               PROVE  WentOut(x, l)' \/ (decision[l].made /\ x \in decision[l].enters)
    BY DEF AcceptedWentOut
  <2>1. WentOut(x, l) \/ (decision[l].made /\ x \in decision[l].enters)
    BY <1>3 DEF FundInv, AcceptedWentOut, OneSlot
  <2> QED
    BY <1>1, <2>1, WentOutStays
<1> QED
  BY <1>1, <1>2, <1>4 DEF FundInv, FilledWasSent, ExitsAreNotEntries, Sent

(* The inductive invariant of the funding of entries.                      *)
THEOREM FundInvariant == OneSlot /\ Spec => []FundInv
<1> SUFFICES ASSUME OneSlot PROVE Spec => []FundInv
  OBVIOUS
<1>1. Init => FundInv
  <2>1. Idle.step = "idle" /\ Idle.symbol = {}
    BY DEF Idle
  <2> QED
    BY <2>1 DEF Init, FundInv, AcceptedWentOut, FilledWasSent, ExitsAreNotEntries, Undecided,
                EmptyJournal, Funding, Buys
<1>2. TypeInv /\ SubmitInv /\ FundInv /\ [Next]_vars => FundInv'
  <2> SUFFICES ASSUME TypeInv, SubmitInv, FundInv, [Next]_vars PROVE FundInv'
    OBVIOUS
  <2>0. /\ run \in [Procs -> Runs]
        /\ \A p \in Procs : Funding(run[p]) /\ Planned(run[p]) /\ Confirmed(run[p])
                            /\ run[p].slot \in Slots
    BY DEF TypeInv, TypeOK, Runs, FundInv, SubmitInv
  <2>1. ASSUME NEW p \in Procs, NEW k \in Slots, Begin(p, k) PROVE FundInv'
    <3>1. run'[p].step = "read" /\ run'[p].symbol = {} /\ \A q \in Procs : q # p => run'[q] = run[q]
      BY <2>0, <2>1 DEF Begin, Goto, Idle
    <3> QED
      BY <2>1, <3>1, IdleIsFunded, OneTaskFunded DEF Begin
  <2>2. ASSUME NEW p \in Procs, Blocked(p) \/ Finish(p) \/ Crash(p) PROVE FundInv'
    BY <2>2, ReturnsFunded DEF Blocked, Finish, Crash
  <2>3. ASSUME NEW p \in Procs, ReadBook(p) PROVE FundInv'
    <3>1. /\ run'[p].step = "look" /\ run'[p].symbol = run[p].symbol
          /\ \A q \in Procs : q # p => run'[q] = run[q]
      BY <2>0, <2>3 DEF ReadBook, Goto, Runs
    <3>2. Funding(run[p])'
      BY <2>0, <3>1 DEF Funding, Buys
    <3> QED
      BY <2>3, <3>1, <3>2, OneTaskFunded DEF ReadBook
  <2>4. ASSUME NEW p \in Procs, Urgent(p) PROVE FundInv'
    <3>1. /\ run'[p].step = "tail" /\ run'[p].symbol = run[p].symbol /\ run'[p].enters = {}
          /\ \A q \in Procs : q # p => run'[q] = run[q]
      BY <2>0, <2>4 DEF Urgent, Goto, Runs, Confirmed
    <3>2. Funding(run[p])'
      BY <2>0, <3>1 DEF Funding, Buys
    <3> QED
      BY <2>4, <3>1, <3>2, OneTaskFunded DEF Urgent
  <2>5. ASSUME NEW p \in Procs, Resume(p) PROVE FundInv'
    <3>1. /\ run'[p].step = "recheck" /\ run'[p].symbol = run[p].symbol /\ run'[p].resumed
          /\ \A q \in Procs : q # p => run'[q] = run[q]
      BY <2>0, <2>5 DEF Resume, Goto, Runs
    <3>2. Funding(run[p])'
      BY <2>0, <3>1 DEF Funding, Buys
    <3> QED
      BY <2>5, <3>1, <3>2, OneTaskFunded DEF Resume
  <2>6. ASSUME NEW p \in Procs, Decide(p) PROVE FundInv'
    <3>1. PICK X \in SUBSET Held(run[p]), E \in SUBSET (Symbols \ Held(run[p])) :
            Goto(p, [run[p] EXCEPT !.step = "write", !.exits = X, !.enters = E])
      BY <2>6 DEF Decide
    <3>2. /\ run'[p].step = "write" /\ run'[p].symbol = run[p].symbol
          /\ run'[p].exits = X /\ run'[p].enters = E
          /\ \A q \in Procs : q # p => run'[q] = run[q]
      BY <2>0, <3>1 DEF Goto, Runs
    <3>3. Funding(run[p])'
      BY <2>0, <3>2 DEF Funding, Buys
    <3> QED
      BY <2>6, <3>2, <3>3, OneTaskFunded DEF Decide
  <2>7. ASSUME NEW p \in Procs, WriteDecision(p) PROVE FundInv'
    <3>1. CASE Return(p) /\ UNCHANGED decision
      BY <2>7, <3>1, ReturnsFunded DEF WriteDecision
    <3>2. CASE /\ ~decision[run[p].slot].made
               /\ decision' = [decision EXCEPT ![run[p].slot] =
                                [exits |-> run[p].exits, enters |-> run[p].enters, made |-> TRUE]]
      <4>1. /\ decision'[run[p].slot].exits = run[p].exits
            /\ decision'[run[p].slot].enters = run[p].enters
            /\ \A k \in Slots : k # run[p].slot => decision'[k] = decision[k]
        BY <2>0, <3>2 DEF TypeInv, TypeOK
      <4>2. Keeps
        BY <2>7, <3>2, <4>1 DEF WriteDecision, Keeps, Sent
      <4>3. \A q \in Procs : q # p => Funding(run[q])'
        BY <2>7, <4>2, OthersStayFunded DEF WriteDecision, Goto, Return, TypeInv, TypeOK
      <4>4. \/ run'[p] = Idle
            \/ /\ run'[p].step = "recheck" /\ run'[p].symbol = run[p].symbol
               /\ run'[p].slot = run[p].slot /\ run'[p].exits = run[p].exits
        <5>1. \/ run' = [run EXCEPT ![p] = Idle]
              \/ run' = [run EXCEPT ![p] = [run[p] EXCEPT !.step = "recheck"]]
          BY <2>7 DEF WriteDecision, Return, Goto
        <5> QED
          BY <2>0, <5>1 DEF Runs
      <4>5. Funding(run[p])'
        <5>1. Idle.step = "idle" /\ Idle.symbol = {}
          BY DEF Idle
        <5>2. CASE run'[p] = Idle
          BY <5>1, <5>2, IdleIsFunded
        <5>3. CASE /\ run'[p].step = "recheck" /\ run'[p].symbol = run[p].symbol
                   /\ run'[p].slot = run[p].slot /\ run'[p].exits = run[p].exits
          BY <2>0, <4>1, <5>3 DEF Funding, Buys
        <5> QED
          BY <4>4, <5>2, <5>3
      <4>6. UNCHANGED <<journal, orders, due>> /\ run[p].step = "write"
        BY <2>7 DEF WriteDecision
      <4>7. ExitsAreNotEntries' /\ FilledWasSent'
        BY <2>0, <4>1, <4>6 DEF FundInv, Funding, ExitsAreNotEntries, FilledWasSent, Sent
      <4>8. AcceptedWentOut'
        <5> SUFFICES ASSUME NEW s \in Symbols, NEW k \in Slots, journal'.accepted[s] > 0
                     PROVE  WentOut(s, k)' \/ (decision'[k].made /\ s \in decision'[k].enters)
          BY DEF AcceptedWentOut
        <5>1. WentOut(s, k) \/ (decision[k].made /\ s \in decision[k].enters)
          BY <4>6 DEF FundInv, AcceptedWentOut
        <5> QED
          BY <4>2, <5>1, WentOutStays DEF Keeps
      <4> QED
        BY <4>3, <4>5, <4>7, <4>8 DEF FundInv
    <3> QED
      BY <2>7, <3>1, <3>2 DEF WriteDecision
  <2>8. ASSUME NEW p \in Procs, Recheck(p) PROVE FundInv'
    <3>1. CASE Return(p)
      BY <2>8, <3>1, ReturnsFunded DEF Recheck
    <3>2. CASE Goto(p, [run[p] EXCEPT !.step = "tail", !.saw = lifecycle])
      <4>1. /\ run'[p].step = "tail" /\ run'[p].symbol = run[p].symbol
            /\ run'[p].slot = run[p].slot /\ run'[p].exits = run[p].exits
            /\ run'[p].enters = run[p].enters /\ run'[p].resumed = run[p].resumed
            /\ \A q \in Procs : q # p => run'[q] = run[q]
        BY <2>0, <3>2 DEF Goto, Runs
      <4>2. Funding(run[p])'
        BY <2>0, <2>8, <4>1 DEF Recheck, Funding, Buys
      <4> QED
        BY <2>8, <4>1, <4>2, OneTaskFunded DEF Recheck
    <3> QED
      BY <2>8, <3>1, <3>2 DEF Recheck
  <2>9. ASSUME NEW p \in Procs, ReadTail(p) PROVE FundInv'
    <3>1. /\ run'[p].step = "exits" /\ run'[p].symbol = run[p].symbol
          /\ run'[p].slot = run[p].slot /\ run'[p].exits = run[p].exits
          /\ run'[p].enters = run[p].enters /\ run'[p].book = run[p].book
          /\ run'[p].refused = IF run[p].resumed THEN Unfunded(run[p]) ELSE {}
          /\ \A q \in Procs : q # p => run'[q] = run[q]
      BY <2>0, <2>9 DEF ReadTail, Goto, Runs
    <3>2. UNCHANGED <<decision, journal, orders, due>> /\ run[p].step = "tail"
      BY <2>9 DEF ReadTail
    <3>3. Sellable(run[p])' = Sellable(run[p])
      BY <3>1 DEF Sellable, Held
    <3>4. ASSUME run[p].enters # {}, NEW s \in decision[run[p].slot].exits \cap Sellable(run[p])
          PROVE  WentOut(s, run[p].slot) \/ s \in run'[p].exits \cup run'[p].refused
      <4>1. decision[run[p].slot].made
        BY <2>0, <3>2, <3>4 DEF Planned, Submitting
      <4>2. CASE run[p].resumed
        BY <2>0, <3>1, <3>4, <4>1, <4>2, ResumeAccounts
      <4>3. CASE ~run[p].resumed
        BY <2>0, <3>1, <3>2, <3>4, <4>3 DEF Funding
      <4> QED
        BY <4>2, <4>3
    <3>5. Keeps
      BY <3>2 DEF Keeps, Sent
    <3>6. Funding(run[p])'
      BY <2>0, <3>1, <3>2, <3>3, <3>4, <3>5, WentOutStays DEF Funding, Buys
    <3> QED
      BY <3>1, <3>2, <3>6, OneTaskFunded
  <2>10. ASSUME NEW p \in Procs, SkipExit(p) PROVE FundInv'
    <3>1. PICK s \in run[p].exits :
            Goto(p, [run[p] EXCEPT !.exits = @ \ {s}, !.refused = @ \cup {s}])
      BY <2>10 DEF SkipExit
    <3>2. /\ run'[p].step = "exits" /\ run'[p].symbol = run[p].symbol
          /\ run'[p].slot = run[p].slot /\ run'[p].exits = run[p].exits \ {s}
          /\ run'[p].enters = run[p].enters /\ run'[p].book = run[p].book
          /\ run'[p].refused = run[p].refused \cup {s}
          /\ \A q \in Procs : q # p => run'[q] = run[q]
      <4>1. run[p].step = "exits"
        BY <2>10 DEF SkipExit
      <4>2. run' = [run EXCEPT ![p] = [run[p] EXCEPT !.exits = @ \ {s}, !.refused = @ \cup {s}]]
        BY <3>1 DEF Goto
      <4> QED
        BY <2>0, <4>1, <4>2 DEF Runs
    <3>3. UNCHANGED <<decision, journal, orders, due>> /\ run[p].step = "exits"
      BY <2>10 DEF SkipExit
    <3>4. Sellable(run[p])' = Sellable(run[p]) /\ Keeps
      BY <3>2, <3>3 DEF Sellable, Held, Keeps, Sent
    <3>5. Funding(run[p])'
      BY <2>0, <3>2, <3>3, <3>4, WentOutStays DEF Funding, Buys
    <3> QED
      BY <3>2, <3>3, <3>5, OneTaskFunded
  <2>11. ASSUME NEW p \in Procs, IntendExit(p) PROVE FundInv'
    <3>1. PICK s \in run[p].exits :
            \/ Goto(p, [run[p] EXCEPT !.step = "selling", !.exits = @ \ {s}, !.symbol = {s}])
            \/ Goto(p, [run[p] EXCEPT !.exits = @ \ {s}, !.refused = @ \cup {s}])
      BY <2>11 DEF IntendExit
    <3>2. /\ run'[p].slot = run[p].slot /\ run'[p].exits = run[p].exits \ {s}
          /\ run'[p].enters = run[p].enters /\ run'[p].book = run[p].book
          /\ \/ /\ run'[p].step = "selling" /\ run'[p].symbol = {s}
                /\ run'[p].refused = run[p].refused
             \/ /\ run'[p].step = run[p].step /\ run'[p].symbol = run[p].symbol
                /\ run'[p].refused = run[p].refused \cup {s}
          /\ \A q \in Procs : q # p => run'[q] = run[q]
      <4>1. CASE run' = [run EXCEPT ![p] =
                   [run[p] EXCEPT !.step = "selling", !.exits = @ \ {s}, !.symbol = {s}]]
        BY <2>0, <4>1 DEF Runs
      <4>2. CASE run' = [run EXCEPT ![p] =
                   [run[p] EXCEPT !.exits = @ \ {s}, !.refused = @ \cup {s}]]
        BY <2>0, <4>2 DEF Runs
      <4> QED
        BY <3>1, <4>1, <4>2 DEF Goto
    <3>3. UNCHANGED <<decision, journal, orders, due>> /\ run[p].step = "exits"
      BY <2>11 DEF IntendExit
    <3>4. Sellable(run[p])' = Sellable(run[p]) /\ Keeps
      BY <3>2, <3>3 DEF Sellable, Held, Keeps, Sent
    <3>5. Funding(run[p])'
      BY <2>0, <3>2, <3>3, <3>4, WentOutStays DEF Funding, Buys
    <3> QED
      BY <3>2, <3>3, <3>5, OneTaskFunded
  <2>12. ASSUME NEW p \in Procs, Sell(p) PROVE FundInv'
    <3>1. PICK s \in run[p].symbol, ok \in BOOLEAN :
            /\ run[p].tries[s]["SELL"] \in Attempts
            /\ Submitted(OrderId(run[p], s, "SELL"), run[p].book[s], ok)
            /\ Goto(p, [run[p] EXCEPT !.step = "sold", !.ok = ok])
      BY <2>12 DEF Sell
    <3>2. OrderId(run[p], s, "SELL") \in OrderIds /\ s \in Symbols
      BY <2>0, <3>1 DEF OrderId, OrderIds, Runs, Sides
    <3>3. UNCHANGED <<decision, journal>> /\ run[p].step = "selling"
      BY <2>12 DEF Sell
    <3>4. /\ Keeps /\ (ok => orders'[OrderId(run[p], s, "SELL")] \notin {"none", "denied"})
          /\ AcceptedWentOut' /\ FilledWasSent' /\ ExitsAreNotEntries'
      BY <3>1, <3>2, <3>3, SubmitKeeps
    <3>5. /\ run'[p].step = "sold" /\ run'[p].symbol = run[p].symbol /\ run'[p].ok = ok
          /\ run'[p].slot = run[p].slot /\ run'[p].exits = run[p].exits
          /\ run'[p].enters = run[p].enters /\ run'[p].book = run[p].book
          /\ run'[p].refused = run[p].refused
          /\ \A q \in Procs : q # p => run'[q] = run[q]
      BY <2>0, <3>1 DEF Goto, Runs
    <3>6. ok => WentOut(s, run[p].slot)'
      <4>1. PICK o \in OrderIds : o = OrderId(run[p], s, "SELL")
        BY <3>2
      <4>2. o.slot = run[p].slot /\ o.symbol = s /\ o.side = "SELL"
        BY <4>1 DEF OrderId
      <4> QED
        BY <3>4, <3>5, <4>1, <4>2 DEF WentOut, Sent
    <3>7. Sellable(run[p])' = Sellable(run[p])
      BY <3>5 DEF Sellable, Held
    <3>8. Funding(run[p])'
      BY <2>0, <3>1, <3>3, <3>4, <3>5, <3>6, <3>7, WentOutStays DEF Funding, Buys
    <3> QED
      BY <3>4, <3>5, <3>8, OthersStayFunded DEF FundInv
  <2>13. ASSUME NEW p \in Procs, SellResult(p) PROVE FundInv'
    <3>1. PICK s \in run[p].symbol : Journalled(s, run[p].ok)
      BY <2>13 DEF SellResult
    <3>2. s \in Symbols /\ run[p].ok \in BOOLEAN
      BY <2>0 DEF Runs
    <3>3. UNCHANGED <<decision, orders, due>> /\ run[p].step = "sold"
      BY <2>13 DEF SellResult
    <3>4. Keeps /\ AcceptedWentOut' /\ FilledWasSent' /\ ExitsAreNotEntries'
      BY <2>0, <3>1, <3>2, <3>3, JournalledKeeps DEF Funding
    <3>5. /\ run'[p].step = "exits" /\ run'[p].symbol = {}
          /\ run'[p].slot = run[p].slot /\ run'[p].exits = run[p].exits
          /\ run'[p].enters = run[p].enters /\ run'[p].book = run[p].book
          /\ run'[p].refused = IF run[p].ok THEN run[p].refused ELSE run[p].refused \cup run[p].symbol
          /\ \A q \in Procs : q # p => run'[q] = run[q]
      BY <2>0, <2>13 DEF SellResult, Goto, Runs
    <3>6. Sellable(run[p])' = Sellable(run[p])
      BY <3>5 DEF Sellable, Held
    <3>7. Funding(run[p])'
      BY <2>0, <3>3, <3>4, <3>5, <3>6, WentOutStays DEF Funding, Buys
    <3> QED
      BY <3>4, <3>5, <3>7, OthersStayFunded DEF FundInv
  <2>14. ASSUME NEW p \in Procs, Gate(p) PROVE FundInv'
    <3>1. CASE Return(p)
      BY <2>14, <3>1, ReturnsFunded DEF Gate
    <3>2. CASE /\ ~Waits(run[p])
               /\ Goto(p, [run[p] EXCEPT !.step = IF unsupported THEN "suppress" ELSE "entries",
                                         !.live = Cardinality(Held(run[p]))])
      <4>1. /\ run'[p].step \in {"suppress", "entries"} /\ run'[p].symbol = run[p].symbol
            /\ run'[p].slot = run[p].slot /\ run'[p].exits = run[p].exits
            /\ run'[p].enters = run[p].enters /\ run'[p].book = run[p].book
            /\ \A q \in Procs : q # p => run'[q] = run[q]
        BY <2>0, <3>2 DEF Goto, Runs
      <4>2. UNCHANGED <<decision, journal, orders, due>> /\ run[p].step = "exits" /\ run[p].exits = {}
        BY <2>14 DEF Gate
      <4>3. Sellable(run[p])' = Sellable(run[p]) /\ Keeps
        BY <4>1, <4>2 DEF Sellable, Held, Keeps, Sent
      <4>4. run[p].enters # {} /\ ~HeldLongEnough => run[p].refused = {}
        BY <3>2 DEF Waits
      <4>5. Funding(run[p])'
        BY <2>0, <4>1, <4>2, <4>3, <4>4, WentOutStays DEF Funding, Buys
      <4> QED
        BY <4>1, <4>2, <4>5, OneTaskFunded
    <3> QED
      BY <2>14, <3>1, <3>2 DEF Gate
  <2>15. ASSUME NEW p \in Procs, Suppress(p) PROVE FundInv'
    <3>1. CASE run[p].enters = {}
      BY <2>15, <3>1, ReturnsFunded DEF Suppress
    <3>2. CASE run[p].enters # {}
      <4>1. PICK s \in run[p].enters :
              /\ Goto(p, [run[p] EXCEPT !.enters = @ \ {s}])
              /\ \/ journal' = [journal EXCEPT !.failed[s] = @ + 1, !.suppressed = @ \cup {s}]
                 \/ UNCHANGED journal
        BY <2>15, <3>2 DEF Suppress
      <4>2. /\ run'[p].step = run[p].step /\ run'[p].symbol = run[p].symbol
            /\ \A q \in Procs : q # p => run'[q] = run[q]
        BY <2>0, <4>1 DEF Goto, Runs
      <4>3. UNCHANGED <<decision, orders, due>> /\ run[p].step = "suppress"
        BY <2>15 DEF Suppress
      <4>4. journal'.accepted = journal.accepted /\ journal'.terminal = journal.terminal
        <5>1. s \in Symbols /\ journal \in Journals
          BY <2>0 DEF Runs, TypeInv, TypeOK
        <5> QED
          BY <4>1, <5>1 DEF Journals
      <4>5. Funding(run[p])'
        BY <2>0, <4>2, <4>3 DEF Funding, Buys
      <4> QED
        BY <4>2, <4>3, <4>4, <4>5, OneTaskFunded
    <3> QED
      BY <3>1, <3>2
  <2>16. ASSUME NEW p \in Procs, SkipEntry(p) PROVE FundInv'
    <3>1. PICK s \in run[p].enters : Goto(p, [run[p] EXCEPT !.enters = @ \ {s}])
      BY <2>16 DEF SkipEntry
    <3>2. /\ run'[p].step = run[p].step /\ run'[p].symbol = run[p].symbol
          /\ run'[p].slot = run[p].slot /\ run'[p].book = run[p].book
          /\ run'[p].enters \subseteq run[p].enters
          /\ \A q \in Procs : q # p => run'[q] = run[q]
      BY <2>0, <3>1 DEF Goto, Runs
    <3>3. UNCHANGED <<decision, journal, orders, due>> /\ run[p].step = "entries"
      BY <2>16 DEF SkipEntry
    <3>4. Sellable(run[p])' = Sellable(run[p]) /\ Keeps
      BY <3>2, <3>3 DEF Sellable, Held, Keeps, Sent
    <3>5. Funding(run[p])'
      BY <2>0, <3>2, <3>3, <3>4, WentOutStays DEF Funding, Buys
    <3> QED
      BY <3>2, <3>3, <3>5, OneTaskFunded
  <2>17. ASSUME NEW p \in Procs, IntendEntry(p) PROVE FundInv'
    <3>1. PICK s \in run[p].enters :
            Goto(p, [run[p] EXCEPT !.step = "buying", !.enters = @ \ {s}, !.symbol = {s}])
      BY <2>17 DEF IntendEntry
    <3>2. /\ run'[p].step = "buying" /\ run'[p].symbol = {s}
          /\ run'[p].slot = run[p].slot /\ run'[p].book = run[p].book
          /\ \A q \in Procs : q # p => run'[q] = run[q]
      BY <2>0, <3>1 DEF Goto, Runs
    <3>3. UNCHANGED <<decision, journal, orders, due>> /\ run[p].step = "entries"
      BY <2>17 DEF IntendEntry
    <3>4. Sellable(run[p])' = Sellable(run[p]) /\ Keeps
      BY <3>2, <3>3 DEF Sellable, Held, Keeps, Sent
    <3>5. decision[run[p].slot].made /\ s \in decision[run[p].slot].enters
      BY <2>0, <3>3 DEF Planned, Submitting
    <3>6. Funding(run[p])'
      BY <2>0, <3>2, <3>3, <3>4, <3>5, WentOutStays DEF Funding, Buys
    <3> QED
      BY <3>2, <3>3, <3>6, OneTaskFunded
  <2>18. ASSUME NEW p \in Procs, Buy(p) PROVE FundInv'
    <3>1. PICK s \in run[p].symbol, ok \in BOOLEAN :
            /\ run[p].tries[s]["BUY"] \in Attempts
            /\ Submitted(OrderId(run[p], s, "BUY"), Lot, ok)
            /\ Goto(p, [run[p] EXCEPT !.step = "bought", !.ok = ok])
      BY <2>18 DEF Buy
    <3>2. OrderId(run[p], s, "BUY") \in OrderIds /\ s \in Symbols
      BY <2>0, <3>1 DEF OrderId, OrderIds, Runs, Sides
    <3>3. UNCHANGED <<decision, journal>> /\ run[p].step = "buying"
      BY <2>18 DEF Buy
    <3>4. Keeps /\ AcceptedWentOut' /\ FilledWasSent' /\ ExitsAreNotEntries'
      BY <3>1, <3>2, <3>3, SubmitKeeps
    <3>5. /\ run'[p].step = "bought" /\ run'[p].symbol = run[p].symbol
          /\ run'[p].slot = run[p].slot /\ run'[p].book = run[p].book
          /\ \A q \in Procs : q # p => run'[q] = run[q]
      BY <2>0, <3>1 DEF Goto, Runs
    <3>6. Sellable(run[p])' = Sellable(run[p])
      BY <3>5 DEF Sellable, Held
    <3>7. Funding(run[p])'
      BY <2>0, <3>3, <3>4, <3>5, <3>6, WentOutStays DEF Funding, Buys
    <3> QED
      BY <3>4, <3>5, <3>7, OthersStayFunded DEF FundInv
  <2>19. ASSUME NEW p \in Procs, BuyResult(p) PROVE FundInv'
    <3>1. PICK s \in run[p].symbol : Journalled(s, run[p].ok)
      BY <2>19 DEF BuyResult
    <3>2. s \in Symbols /\ run[p].ok \in BOOLEAN
      BY <2>0 DEF Runs
    <3>3. UNCHANGED <<decision, orders, due>> /\ run[p].step = "bought"
      BY <2>19 DEF BuyResult
    <3>4. Keeps /\ AcceptedWentOut' /\ FilledWasSent' /\ ExitsAreNotEntries'
      BY <2>0, <3>1, <3>2, <3>3, JournalledKeeps DEF Funding
    <3>5. /\ run'[p].step = "entries" /\ run'[p].symbol = {}
          /\ run'[p].slot = run[p].slot /\ run'[p].book = run[p].book
          /\ \A q \in Procs : q # p => run'[q] = run[q]
      BY <2>0, <2>19 DEF BuyResult, Goto, Runs
    <3>6. Sellable(run[p])' = Sellable(run[p])
      BY <3>5 DEF Sellable, Held
    <3>7. Funding(run[p])'
      BY <2>0, <3>3, <3>4, <3>5, <3>6, WentOutStays DEF Funding, Buys
    <3> QED
      BY <3>4, <3>5, <3>7, OthersStayFunded DEF FundInv
  <2>20. ASSUME NEW o \in OrderIds, Venue(o) PROVE FundInv'
    <3>1. /\ UNCHANGED <<decision, journal, run>> /\ Sent(o)'
          /\ \A x \in OrderIds : x # o => orders'[x] = orders[x]
          /\ \A t \in due' \ due : t.order = o
      BY <2>20 DEF Venue, Fill, PartFill, End, Answer, Sent, TypeInv, TypeOK
    <3>2. Keeps
      BY <3>1 DEF Keeps, Sent
    <3>3. \A t \in journal.terminal \cup due : t.order \in OrderIds
      BY DEF TypeInv, TypeOK, Journals, TerminalRows
    <3>4. FilledWasSent'
      BY <3>1, <3>2, <3>3 DEF FundInv, FilledWasSent, Keeps
    <3>5. AcceptedWentOut' /\ ExitsAreNotEntries'
      BY <3>1, <3>2, WentOutStays DEF FundInv, AcceptedWentOut, ExitsAreNotEntries
    <3> QED
      BY <3>1, <3>2, <3>4, <3>5, OthersStayFunded DEF FundInv
  <2>21. ASSUME NEW t \in due, RecordTerminal(t) PROVE FundInv'
    <3>1. UNCHANGED <<decision, orders, run>>
      BY <2>21 DEF RecordTerminal
    <3>2. /\ journal'.terminal \cup due' \subseteq journal.terminal \cup due
          /\ journal'.accepted = journal.accepted
      BY <2>21 DEF RecordTerminal, TypeInv, TypeOK, Journals
    <3>3. Keeps
      BY <3>1 DEF Keeps, Sent
    <3>4. FilledWasSent' /\ ExitsAreNotEntries'
      BY <3>1, <3>2 DEF FundInv, FilledWasSent, ExitsAreNotEntries, Sent
    <3>5. AcceptedWentOut'
      BY <3>1, <3>2, <3>3, WentOutStays DEF FundInv, AcceptedWentOut
    <3> QED
      BY <3>1, <3>3, <3>4, <3>5, OthersStayFunded DEF FundInv
  <2>22. ASSUME Operator \/ UNCHANGED vars PROVE FundInv'
    <3>1. UNCHANGED <<decision, orders, run, journal, due>>
      BY <2>22 DEF Operator, Move, Exclude, Reconfigure, vars
    <3>2. Keeps
      BY <3>1 DEF Keeps, Sent
    <3>3. AcceptedWentOut' /\ FilledWasSent' /\ ExitsAreNotEntries'
      BY <3>1, <3>2, WentOutStays
      DEF FundInv, AcceptedWentOut, FilledWasSent, ExitsAreNotEntries, Sent
    <3> QED
      BY <3>1, <3>2, <3>3, OthersStayFunded DEF FundInv
  <2> QED
    BY <2>1, <2>2, <2>3, <2>4, <2>5, <2>6, <2>7, <2>8, <2>9, <2>10, <2>11, <2>12, <2>13, <2>14,
       <2>15, <2>16, <2>17, <2>18, <2>19, <2>20, <2>21, <2>22
    DEF Next, Step
<1> QED
  BY <1>1, <1>2, TypeInvariant, SubmitInvariant, PTL DEF Spec

(* The exit funds the entry: while a task buys, every exit its slot        *)
(* decided and it could size has reached the venue, for any number of      *)
(* tasks and resumes, crashes and lost rows.                               *)
THEOREM EntriesAreFunded == OneSlot /\ Spec => []EntriesFunded
<1>1. FundInv => EntriesFunded
  BY DEF FundInv, Funding, Buys, EntriesFunded, Funded
<1> QED
  BY <1>1, FundInvariant, PTL

-----------------------------------------------------------------------------
(* Suppression, where sessions of the lane do not overlap: a task carries  *)
(* nothing that was suppressed, but for one that decides, and nothing has  *)
(* been suppressed before the slot is decided.                             *)
OneTask == \A p, q \in Procs : p = q

Spared(r) ==
  /\ r.step # "write" => r.enters \cap journal.suppressed = {}
  /\ r.step = "buying" => r.symbol \cap journal.suppressed = {}

SuppressInv ==
  /\ journal.suppressed # {} => \A k \in Slots : decision[k].made
  /\ \A p \in Procs : Spared(run[p])

(* No step but Decide and Resume gives a task entries, and none but        *)
(* IntendEntry takes it to the broker with one.                            *)
LEMMA EntersMove ==
  ASSUME TypeInv, NEW p \in Procs, Step(p),
         ~Resume(p), ~Decide(p), ~WriteDecision(p), ~IntendEntry(p)
  PROVE  /\ run'[p].step # "buying"
         /\ run'[p].enters = {} \/ (run[p].step # "write" /\ run'[p].enters \subseteq run[p].enters)
<1>1. run[p] \in Runs /\ run \in [Procs -> Runs]
  BY DEF TypeInv, TypeOK
<1>2. Idle.step = "idle" /\ Idle.enters = {}
  BY DEF Idle
<1>3. CASE \E k \in Slots : Begin(p, k)
  BY <1>1, <1>3 DEF Begin, Idle, Goto, Runs
<1>4. CASE Blocked(p) \/ Finish(p) \/ Crash(p)
  BY <1>1, <1>2, <1>4 DEF Blocked, Finish, Crash, Return, Goto
<1>5. CASE ReadBook(p)
  BY <1>1, <1>5 DEF ReadBook, Goto, Runs
<1>6. CASE Urgent(p)
  BY <1>1, <1>6 DEF Urgent, Goto, Runs
<1>7. CASE ReadTail(p)
  BY <1>1, <1>7 DEF ReadTail, Goto, Runs
<1>8. CASE SkipExit(p)
  BY <1>1, <1>8 DEF SkipExit, Goto, Runs
<1>9. CASE Sell(p)
  BY <1>1, <1>9 DEF Sell, Goto, Runs
<1>10. CASE SellResult(p)
  BY <1>1, <1>10 DEF SellResult, Goto, Runs
<1>11. CASE SkipEntry(p)
  BY <1>1, <1>11 DEF SkipEntry, Goto, Runs
<1>12. CASE Buy(p)
  BY <1>1, <1>12 DEF Buy, Goto, Runs
<1>13. CASE BuyResult(p)
  BY <1>1, <1>13 DEF BuyResult, Goto, Runs
<1>14. CASE Recheck(p)
  <2>1. CASE run' = [run EXCEPT ![p] = Idle]
    BY <1>1, <1>2, <2>1
  <2>2. CASE run' = [run EXCEPT ![p] =
                      [run[p] EXCEPT !.step = "tail", !.saw = lifecycle]]
    BY <1>1, <1>14, <2>2 DEF Recheck, Runs
  <2> QED
    BY <1>14, <2>1, <2>2 DEF Recheck, Return, Goto
<1>15. CASE IntendExit(p)
  <2>1. PICK s \in run[p].exits :
          \/ run' = [run EXCEPT ![p] =
                      [run[p] EXCEPT !.step = "selling", !.exits = @ \ {s}, !.symbol = {s}]]
          \/ run' = [run EXCEPT ![p] =
                      [run[p] EXCEPT !.exits = @ \ {s}, !.refused = @ \cup {s}]]
    BY <1>15 DEF IntendExit, Goto
  <2>2. run[p].step = "exits"
    BY <1>15 DEF IntendExit
  <2>3. CASE run' = [run EXCEPT ![p] =
                      [run[p] EXCEPT !.step = "selling", !.exits = @ \ {s}, !.symbol = {s}]]
    BY <1>1, <2>2, <2>3 DEF Runs
  <2>4. CASE run' = [run EXCEPT ![p] =
                      [run[p] EXCEPT !.exits = @ \ {s}, !.refused = @ \cup {s}]]
    BY <1>1, <2>2, <2>4 DEF Runs
  <2> QED
    BY <2>1, <2>3, <2>4
<1>16. CASE Gate(p)
  <2>1. CASE run' = [run EXCEPT ![p] = Idle]
    BY <1>1, <1>2, <2>1
  <2>2. CASE run' = [run EXCEPT ![p] =
                      [run[p] EXCEPT !.step = IF unsupported THEN "suppress" ELSE "entries",
                                     !.live = Cardinality(Held(run[p]))]]
    BY <1>1, <1>16, <2>2 DEF Gate, Runs
  <2> QED
    BY <1>16, <2>1, <2>2 DEF Gate, Return, Goto
<1>17. CASE Suppress(p)
  <2>1. CASE run' = [run EXCEPT ![p] = Idle]
    BY <1>1, <1>2, <2>1
  <2>2. run[p].step = "suppress"
    BY <1>17 DEF Suppress
  <2>3. CASE \E s : run' = [run EXCEPT ![p] = [run[p] EXCEPT !.enters = @ \ {s}]]
    BY <1>1, <2>2, <2>3 DEF Runs
  <2> QED
    BY <1>17, <2>1, <2>3 DEF Suppress, Return, Goto
<1> QED
  BY <1>3, <1>4, <1>5, <1>6, <1>7, <1>8, <1>9, <1>10, <1>11,
     <1>12, <1>13, <1>14, <1>15, <1>16, <1>17 DEF Step

LEMMA SuppressedMoves ==
  ASSUME TypeInv, [Next]_vars,
         \A p \in Procs : Suppress(p) => UNCHANGED journal
  PROVE  journal'.suppressed = journal.suppressed
<1>1. CASE UNCHANGED journal
  BY <1>1
<1>2. ASSUME NEW p \in Procs, SellResult(p) \/ BuyResult(p)
      PROVE  journal'.suppressed = journal.suppressed
  <2>1. PICK s \in run[p].symbol : Journalled(s, run[p].ok)
    BY <1>2 DEF SellResult, BuyResult
  <2> QED
    BY <2>1 DEF Journalled, TypeInv, TypeOK, Journals
<1>3. ASSUME NEW t \in due, RecordTerminal(t)
      PROVE  journal'.suppressed = journal.suppressed
  BY <1>3 DEF RecordTerminal, TypeInv, TypeOK, Journals
<1>4. ASSUME NEW p \in Procs, Step(p), ~SellResult(p), ~BuyResult(p) PROVE UNCHANGED journal
  BY <1>4 DEF Step, Begin, Blocked, ReadBook, Urgent, Resume, Decide, WriteDecision, Recheck,
     ReadTail, SkipExit, IntendExit, Sell, Gate, SkipEntry, IntendEntry, Buy, Finish, Crash
<1>5. ASSUME (\E o \in OrderIds : Venue(o)) \/ Operator \/ UNCHANGED vars PROVE UNCHANGED journal
  BY <1>5 DEF Venue, Fill, PartFill, End, Operator, Move, Exclude, Reconfigure, vars
<1> QED
  BY <1>2, <1>3, <1>4, <1>5 DEF Next

LEMMA DecisionsStay ==
  ASSUME TypeInv, [Next]_vars
  PROVE  \A k \in Slots : decision[k].made => decision'[k].made
<1>1. ASSUME NEW p \in Procs, WriteDecision(p)
      PROVE  \A k \in Slots : decision[k].made => decision'[k].made
  BY <1>1 DEF WriteDecision, TypeInv, TypeOK
<1>2. ASSUME NEW p \in Procs, Step(p), ~WriteDecision(p) PROVE UNCHANGED decision
  BY <1>2 DEF Step, Begin, Blocked, ReadBook, Urgent, Resume, Decide, Recheck, ReadTail, SkipExit,
     IntendExit, Sell, SellResult, Gate, Suppress, SkipEntry, IntendEntry, Buy, BuyResult, Finish,
     Crash
<1>3. ASSUME \/ \E o \in OrderIds : Venue(o)
             \/ \E t \in due : RecordTerminal(t)
             \/ Operator
             \/ UNCHANGED vars
      PROVE  UNCHANGED decision
  BY <1>3 DEF Venue, Fill, PartFill, End, RecordTerminal, Operator, Move, Exclude, Reconfigure, vars
<1> QED
  BY <1>1, <1>2, <1>3 DEF Next

THEOREM SuppressInvariant == OneSlot /\ OneTask /\ Spec => []SuppressInv
<1> SUFFICES ASSUME OneSlot, OneTask PROVE Spec => []SuppressInv
  OBVIOUS
<1>0. Idle.step = "idle" /\ Idle.enters = {}
  BY DEF Idle
<1>1. Init => SuppressInv
  BY <1>0 DEF Init, SuppressInv, Spared, EmptyJournal
<1>2. TypeInv /\ SubmitInv /\ SuppressInv /\ [Next]_vars => SuppressInv'
  <2> SUFFICES ASSUME TypeInv, SubmitInv, SuppressInv, [Next]_vars PROVE SuppressInv'
    OBVIOUS
  <2>0. /\ run \in [Procs -> Runs]
        /\ \A p \in Procs : Spared(run[p]) /\ Planned(run[p]) /\ run[p].slot \in Slots
    BY DEF TypeInv, TypeOK, Runs, SuppressInv, SubmitInv
  <2>1. CASE \A p \in Procs : Suppress(p) => UNCHANGED journal
    <3>1. journal'.suppressed = journal.suppressed
      BY <2>1, SuppressedMoves
    <3>2. journal'.suppressed # {} => \A k \in Slots : decision'[k].made
      BY <3>1, DecisionsStay DEF SuppressInv
    <3>3. ASSUME NEW p \in Procs, Step(p) PROVE Spared(run[p])'
      <4>1. CASE Resume(p)
        <5>1. run'[p].step = "recheck" /\ run'[p].enters = OwedEnters(run[p])
          BY <2>0, <4>1 DEF Resume, Goto, Runs
        <5>2. OwedEnters(run[p]) \cap journal.suppressed = {}
          BY DEF OwedEnters, AlreadyAttempted
        <5> QED
          BY <3>1, <5>1, <5>2 DEF Spared
      <4>2. CASE Decide(p)
        <5>1. run'[p].step = "write"
          BY <2>0, <4>2 DEF Decide, Goto, Runs
        <5> QED
          BY <5>1 DEF Spared
      <4>3. CASE WriteDecision(p)
        <5>1. \/ run'[p] = Idle
              \/ ~decision[run[p].slot].made /\ run'[p] = [run[p] EXCEPT !.step = "recheck"]
          BY <2>0, <4>3 DEF WriteDecision, Return, Goto
        <5>2. CASE run'[p] = Idle
          BY <1>0, <5>2 DEF Spared
        <5>3. CASE ~decision[run[p].slot].made /\ run'[p] = [run[p] EXCEPT !.step = "recheck"]
          <6>1. run'[p].step = "recheck"
            BY <2>0, <5>3 DEF Runs
          <6>2. journal.suppressed = {}
            BY <2>0, <5>3 DEF SuppressInv
          <6> QED
            BY <3>1, <6>1, <6>2 DEF Spared
        <5> QED
          BY <5>1, <5>2, <5>3
      <4>4. CASE IntendEntry(p)
        <5>1. PICK s \in run[p].enters :
                Goto(p, [run[p] EXCEPT !.step = "buying", !.enters = @ \ {s}, !.symbol = {s}])
          BY <4>4 DEF IntendEntry
        <5>2. run'[p].enters = run[p].enters \ {s} /\ run'[p].symbol = {s} /\ run[p].step = "entries"
          <6>1. run[p].step = "entries"
            BY <4>4 DEF IntendEntry
          <6>2. run' = [run EXCEPT ![p] =
                         [run[p] EXCEPT !.step = "buying", !.enters = @ \ {s}, !.symbol = {s}]]
            BY <5>1 DEF Goto
          <6> QED
            BY <2>0, <6>1, <6>2 DEF Runs
        <5> QED
          BY <2>0, <3>1, <5>2 DEF Spared
      <4>5. CASE ~Resume(p) /\ ~Decide(p) /\ ~WriteDecision(p) /\ ~IntendEntry(p)
        BY <2>0, <3>1, <3>3, <4>5, EntersMove DEF Spared
      <4> QED
        BY <4>1, <4>2, <4>3, <4>4, <4>5
    <3>4. CASE \E p \in Procs : Step(p)
      BY <3>2, <3>3, <3>4 DEF SuppressInv, OneTask
    <3>5. CASE ~ \E p \in Procs : Step(p)
      <4>1. UNCHANGED run
        BY <3>5 DEF Next, Venue, Fill, PartFill, End, RecordTerminal, Operator, Move, Exclude,
                    Reconfigure, vars
      <4> QED
        BY <2>0, <3>1, <3>2, <4>1 DEF SuppressInv, Spared
    <3> QED
      BY <3>4, <3>5
  <2>2. ASSUME NEW p \in Procs, Suppress(p), ~UNCHANGED journal PROVE SuppressInv'
    <3>1. PICK s \in run[p].enters :
            /\ Goto(p, [run[p] EXCEPT !.enters = @ \ {s}])
            /\ journal' = [journal EXCEPT !.failed[s] = @ + 1, !.suppressed = @ \cup {s}]
      BY <2>2 DEF Suppress
    <3>2. run[p].step = "suppress" /\ UNCHANGED decision
      BY <2>2 DEF Suppress
    <3>3. journal'.suppressed = journal.suppressed \cup {s}
      BY <3>1 DEF TypeInv, TypeOK, Journals
    <3>4. run'[p].step = "suppress" /\ run'[p].enters = run[p].enters \ {s}
      BY <2>0, <3>1, <3>2 DEF Goto, Runs
    <3>5. \A k \in Slots : decision'[k].made
      BY <2>0, <3>1, <3>2 DEF Planned, Submitting, OneSlot
    <3> QED
      BY <2>0, <3>2, <3>3, <3>4, <3>5 DEF SuppressInv, Spared, OneTask
  <2> QED
    BY <2>1, <2>2
<1> QED
  BY <1>1, <1>2, TypeInvariant, SubmitInvariant, PTL DEF Spec

(* An entry declined for a rule the runner lacks is declined for the       *)
(* session, by whatever resumes, restarts and reconfigurations.            *)
THEOREM SuppressedIsOut == OneSlot /\ OneTask /\ Spec => SuppressedStaysOut
<1>1. TypeInv /\ SuppressInv /\ [Next]_vars =>
        [\A o \in OrderIds :
           o.side = "BUY" /\ o.symbol \in journal.suppressed /\ orders[o] = "none"
             => orders'[o] = "none"]_vars
  <2> SUFFICES ASSUME TypeInv, SuppressInv, Next,
                      NEW o \in OrderIds, o.side = "BUY", o.symbol \in journal.suppressed,
                      orders[o] = "none"
               PROVE  orders'[o] = "none"
    BY DEF vars
  <2>1. ASSUME NEW p \in Procs, Buy(p) PROVE orders'[o] = "none"
    <3>1. PICK s \in run[p].symbol, ok \in BOOLEAN :
            Submitted(OrderId(run[p], s, "BUY"), Lot, ok) /\ run[p].step = "buying"
      BY <2>1 DEF Buy
    <3>2. s # o.symbol
      BY <3>1 DEF SuppressInv, Spared
    <3>3. OrderId(run[p], s, "BUY") # o
      BY <3>2 DEF OrderId
    <3> QED
      BY <3>1, <3>3 DEF Submitted, TypeInv, TypeOK
  <2>2. ASSUME NEW p \in Procs, Sell(p) PROVE orders'[o] = "none"
    <3>1. PICK s \in run[p].symbol, ok \in BOOLEAN :
            Submitted(OrderId(run[p], s, "SELL"), run[p].book[s], ok)
      BY <2>2 DEF Sell
    <3>2. OrderId(run[p], s, "SELL") # o
      BY DEF OrderId
    <3> QED
      BY <3>1, <3>2 DEF Submitted, TypeInv, TypeOK
  <2>3. ASSUME NEW p \in Procs, Step(p), ~Buy(p), ~Sell(p) PROVE UNCHANGED orders
    BY <2>3 DEF Step, Begin, Blocked, ReadBook, Urgent, Resume, Decide, WriteDecision, Recheck,
       ReadTail, SkipExit, IntendExit, SellResult, Gate, Suppress, SkipEntry, IntendEntry,
       BuyResult, Finish, Crash
  <2>4. ASSUME NEW x \in OrderIds, Venue(x) PROVE orders'[o] = "none"
    BY <2>4 DEF Venue, Fill, PartFill, End, Live, TypeInv, TypeOK
  <2>5. ASSUME (\E t \in due : RecordTerminal(t)) \/ Operator PROVE UNCHANGED orders
    BY <2>5 DEF RecordTerminal, Operator, Move, Exclude, Reconfigure
  <2> QED
    BY <2>1, <2>2, <2>3, <2>4, <2>5 DEF Next
<1> QED
  BY <1>1, TypeInvariant, SuppressInvariant, PTL DEF Spec, SuppressedStaysOut

=============================================================================
