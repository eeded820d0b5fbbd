---------------------------- MODULE SessionRunner ----------------------------
(***************************************************************************)
(* PgSessionRunner.run, _resume and _submit for one lane and one session:  *)
(* decide once per slot, journal, look again, submit exits, then entries;  *)
(* and on a later run of the slot, finish what was not submitted.          *)
(*                                                                         *)
(* Around it: the journal, whose writes may fail; the operator, who moves  *)
(* the lifecycle and blacklists names while a run is suspended; the broker *)
(* (NautilusBroker.submit and exit) and the venue, which answer later; the *)
(* order-event handlers, which journal those answers; and a process that   *)
(* may be stopped or die at any suspension point.                          *)
(***************************************************************************)
EXTENDS Retry, Lifecycle

CONSTANTS
  Procs,               \* session tasks of the lane that may run at once
  BookSize,            \* RiskLimits.book_size: the book a decision may plan
  MaxPositions,        \* RiskLimits.max_positions
  Unattributed,        \* held symbols the venue attributes to no one
  HeldLongEnough,      \* held_sessions_before has reached _MAX_HELD_SESSIONS
  Lot,                 \* shares a BUY asks for
  Visited,             \* bound: the lifecycle states the operator visits
  Blacklistable,       \* bound: the symbols the operator may exclude
  MaxRows,             \* bound: result rows of a symbol the model follows
  DenialIsJournalled,  \* a local duplicate denial reaches the lane's handlers
  MayLoseRows          \* result and terminal writes may fail

ASSUME LimitsAssumption ==
  BookSize \in Nat /\ MaxPositions \in Nat /\ BookSize < MaxPositions
ASSUME SizesAssumption == Lot \in Nat \ {0} /\ MaxRows \in Nat
ASSUME SubsetsAssumption ==
  Unattributed \subseteq Symbols /\ Blacklistable \subseteq Symbols /\ Visited \subseteq States
ASSUME SwitchesAssumption ==
  HeldLongEnough \in BOOLEAN /\ DenialIsJournalled \in BOOLEAN /\ MayLoseRows \in BOOLEAN

VARIABLES
  lifecycle,   \* the operator's record of the lane's state
  unsupported, \* the exit rules configured include one this runner lacks
  excluded,    \* symbols under an EXCLUDE override
  decision,    \* [Slots -> the slot's decision row, or Undecided]
  intents,     \* <<symbol, side>> of the intent rows
  journal,     \* result, suppressed and terminal rows
  orders,      \* [OrderIds -> what became of the order]
  size,        \* [OrderIds -> shares it was sent for]
  due,         \* terminal answers whose row is not written yet
  position,    \* [Symbols -> shares held]
  run          \* [Procs -> the run in flight, or Idle]

records == <<decision, intents, journal>>
market  == <<orders, size, due, position>>
operator == <<lifecycle, unsupported, excluded>>
vars    == <<operator, records, market, run>>

Undecided == [exits |-> {}, enters |-> {}, made |-> FALSE]
Decisions == [exits : SUBSET Symbols, enters : SUBSET Symbols, made : BOOLEAN]

(* "part" has booked shares and still works; "booked" ended short of its   *)
(* size.                                                                   *)
Statuses == {"none", "denied", "working", "part", "filled", "refused", "booked"}
Live(o) == orders[o] \in {"working", "part"}

Steps == {"idle", "read", "look", "write", "recheck", "tail", "exits", "selling", "sold",
          "suppress", "entries", "buying", "bought"}

Flat == [s \in Symbols |-> 0]
NoTries == [s \in Symbols |-> [d \in Sides |-> 0]]

(* A session task: what run() holds in its locals.                         *)
Idle ==
  [step |-> "idle", slot |-> CHOOSE k \in Slots : TRUE, st |-> "DISABLED",
   resumed |-> FALSE, saw |-> "DISABLED", book |-> Flat, exits |-> {}, enters |-> {},
   tries |-> NoTries, refused |-> {},
   symbol |-> {}, ok |-> FALSE, live |-> 0]

Runs ==
  [step : Steps, slot : Slots, st : States, resumed : BOOLEAN, saw : States,
   book : [Symbols -> Nat], exits : SUBSET Symbols, enters : SUBSET Symbols,
   tries : [Symbols -> [Sides -> Nat]], refused : SUBSET Symbols,
   symbol : SUBSET Symbols, ok : BOOLEAN, live : Nat]

Init ==
  /\ lifecycle = "TRADING"
  /\ unsupported \in BOOLEAN
  /\ excluded = {}
  /\ decision = [k \in Slots |-> Undecided]
  /\ intents = {}
  /\ journal = EmptyJournal
  /\ orders = [o \in OrderIds |-> "none"]
  /\ size = [o \in OrderIds |-> 0]
  /\ due = {}
  /\ position \in {q \in [Symbols -> {0, Lot}] : Cardinality({s \in Symbols : q[s] > 0}) <= BookSize}
  /\ run = [p \in Procs |-> Idle]

-----------------------------------------------------------------------------
(* What a run read of the book: the slots the lane occupies, and the part  *)
(* it may sell.                                                            *)
Held(r) == {s \in Symbols : r.book[s] > 0}
Sellable(r) == Held(r) \ Unattributed

Goto(p, r) == run' = [run EXCEPT ![p] = r]

Return(p) == Goto(p, Idle)

(* run() begins with the lifecycle it was built with.                      *)
Begin(p, k) ==
  /\ run[p].step = "idle"
  /\ Goto(p, [Idle EXCEPT !.step = "read", !.slot = k, !.st = lifecycle])
  /\ UNCHANGED <<operator, records, market>>

(* A stale source, a daily-loss block, bar coverage, a thin ranking: run() *)
(* returns without deciding or submitting.                                 *)
Blocked(p) ==
  /\ run[p].step \in {"read", "look"}
  /\ Return(p)
  /\ UNCHANGED <<operator, records, market>>

(* Positions and claims are read, orphans adopted; a short is not counted. *)
ReadBook(p) ==
  /\ run[p].step = "read"
  /\ Goto(p, [run[p] EXCEPT !.step = "look",
                            !.book = [s \in Symbols |-> IF position[s] > 0 THEN position[s] ELSE 0]])
  /\ UNCHANGED <<operator, records, market>>

Forced(r) ==
  IF r.st = "LIQUIDATING" THEN Sellable(r) ELSE Sellable(r) \cap excluded

IsUrgent(r) == Forced(r) # {} /\ (decision[r.slot].made \/ r.st = "LIQUIDATING")

(* Blacklisted or liquidating: exits only, no decision row, no last look.  *)
Urgent(p) ==
  LET r == run[p]
  IN /\ r.step = "look" /\ IsUrgent(r) /\ r.st \in MaySubmitExits
     /\ Goto(p, [r EXCEPT !.step = "tail", !.exits = Forced(r)])
     /\ UNCHANGED <<operator, records, market>>

(* The recorded decision, minus what the journal says was attempted.       *)
OwedExits(r) ==
  {s \in decision[r.slot].exits : ~AlreadyAttempted(journal, s) /\ s \in Sellable(r)}

OwedEnters(r) ==
  {s \in decision[r.slot].enters : ~AlreadyAttempted(journal, s) /\ s \notin Held(r)}

Resume(p) ==
  LET r == run[p]
  IN /\ r.step = "look" /\ ~IsUrgent(r) /\ decision[r.slot].made
     /\ OwedExits(r) \cup OwedEnters(r) # {}
     /\ r.st \in MaySubmitExits
     /\ Goto(p, [r EXCEPT !.step = "recheck", !.resumed = TRUE,
                          !.exits = OwedExits(r), !.enters = OwedEnters(r)])
     /\ UNCHANGED <<operator, records, market>>

(* The engine's choice: any exits of what is held, any entries of what is  *)
(* not; an operator's blacklist always exits.                              *)
Decide(p) ==
  LET r == run[p]
  IN /\ r.step = "look" /\ ~IsUrgent(r) /\ ~decision[r.slot].made /\ r.st \in Decides
     /\ \E X \in SUBSET Held(r), E \in SUBSET (Symbols \ Held(r)) :
          /\ Forced(r) \subseteq X
          /\ E # {} => Cardinality((Held(r) \ X) \cup E) <= BookSize
          /\ r.st = "LIQUIDATING" => X = Sellable(r) /\ E = {}
          /\ Goto(p, [r EXCEPT !.step = "write", !.exits = X, !.enters = E])
     /\ UNCHANGED <<operator, records, market>>

(* Mutant: the check at the start of run() taken as the authority.         *)
WriteOverDecision(p) ==
  LET r == run[p]
  IN /\ r.step = "write"
     /\ decision' = [decision EXCEPT ![r.slot] = [exits |-> r.exits, enters |-> r.enters, made |-> TRUE]]
     /\ IF r.st = "SHADOW" THEN Return(p) ELSE Goto(p, [r EXCEPT !.step = "recheck"])
     /\ UNCHANGED <<operator, intents, journal, market>>

(* The decision row, unique per slot: a run that finds one there stops.    *)
WriteDecision(p) ==
  LET r == run[p]
  IN /\ r.step = "write"
     /\ \/ /\ ~decision[r.slot].made
           /\ decision' = [decision EXCEPT ![r.slot] =
                             [exits |-> r.exits, enters |-> r.enters, made |-> TRUE]]
           /\ IF r.st = "SHADOW" THEN Return(p) ELSE Goto(p, [r EXCEPT !.step = "recheck"])
        \/ Return(p) /\ UNCHANGED decision
     /\ UNCHANGED <<operator, intents, journal, market>>

(* Mutant: no last look.                                                   *)
NoLook(p) ==
  /\ run[p].step = "recheck"
  /\ Goto(p, [run[p] EXCEPT !.step = "tail"])
  /\ UNCHANGED <<operator, records, market>>

(* _state_changed_under_us: moved or unreadable submits nothing.           *)
Recheck(p) ==
  /\ run[p].step = "recheck"
  /\ \/ /\ lifecycle = run[p].st
        /\ Goto(p, [run[p] EXCEPT !.step = "tail", !.saw = lifecycle])
     \/ Return(p)
  /\ UNCHANGED <<operator, records, market>>

(* Mutant: what was attempted is taken for what went out.                  *)
UnfundedUnlessAttempted(r) ==
  {s \in decision[r.slot].exits :
     s \in Sellable(r) /\ s \notin r.exits /\ ~AlreadyAttempted(journal, s)}

(* Decided exits of a resume that never went out.                          *)
Unfunded(r) ==
  {s \in decision[r.slot].exits :
     s \in Sellable(r) /\ s \notin r.exits /\ ~SubmittedOk(journal, s, "SELL")}

(* _submit begins: one read of the tail gives every attempt number.        *)
ReadTail(p) ==
  LET r == run[p]
  IN /\ r.step = "tail"
     /\ Goto(p, [r EXCEPT !.step = "exits",
                          !.refused = IF r.resumed THEN Unfunded(r) ELSE {},
                          !.tries = [s \in Symbols |-> [d \in Sides |-> AttemptsFor(journal, s, d)]]])
     /\ UNCHANGED <<operator, records, market>>

-----------------------------------------------------------------------------
(* The exit loop of _submit.                                               *)

(* A decided exit with nothing sellable did not go out.                    *)
SkipExit(p) ==
  LET r == run[p]
  IN /\ r.step = "exits"
     /\ \E s \in r.exits \ Sellable(r) :
          Goto(p, [r EXCEPT !.exits = @ \ {s}, !.refused = @ \cup {s}])
     /\ UNCHANGED <<operator, records, market>>

(* Mutant: the SELL goes out whether or not its intent was written.        *)
SellUnrecorded(p) ==
  LET r == run[p]
  IN /\ r.step = "exits"
     /\ \E s \in r.exits \cap Sellable(r) :
          /\ Goto(p, [r EXCEPT !.step = "selling", !.exits = @ \ {s}, !.symbol = {s}])
          /\ intents' \in {intents, intents \cup {<<s, "SELL">>}}
     /\ UNCHANGED <<operator, decision, journal, market>>

(* No record, no order.                                                    *)
IntendExit(p) ==
  LET r == run[p]
  IN /\ r.step = "exits"
     /\ \E s \in r.exits \cap Sellable(r) :
          \/ /\ Goto(p, [r EXCEPT !.step = "selling", !.exits = @ \ {s}, !.symbol = {s}])
             /\ intents' = intents \cup {<<s, "SELL">>}
          \/ /\ Goto(p, [r EXCEPT !.exits = @ \ {s}, !.refused = @ \cup {s}])
             /\ UNCHANGED intents
     /\ UNCHANGED <<operator, decision, journal, market>>

OrderId(r, s, side) ==
  [slot |-> r.slot, symbol |-> s, side |-> side, attempt |-> r.tries[s][side]]

(* The answer that OrderDenied carries, named by the id it was denied for. *)
Denial(o) ==
  [order |-> o, answer |-> IF orders[o] \in {"none", "refused", "denied", "working"}
                           THEN "refused" ELSE "booked"]

(* NautilusBroker.submit, for q shares under id o, answering ok.  A new id *)
(* is denied on the spot, or works; a spent id is denied as a duplicate    *)
(* and answered with the state of the order that bears it.                 *)
Submitted(o, q, ok) ==
  \/ ~ok /\ UNCHANGED market            \* no instrument, or nothing cached
  \/ /\ orders[o] = "none"
     /\ orders' = [orders EXCEPT ![o] = IF ok THEN "working" ELSE "denied"]
     /\ size' = [size EXCEPT ![o] = q]
     /\ due' = IF ok THEN due ELSE due \cup {Denial(o)}
     /\ UNCHANGED position
  \/ /\ orders[o] # "none" /\ ok = (orders[o] \notin {"denied", "refused"})
     /\ due' = IF DenialIsJournalled THEN due \cup {Denial(o)} ELSE due
     /\ UNCHANGED <<orders, size, position>>

(* NautilusBroker.exit: the protective stop's shares first, then the SELL; *)
(* shares that are not released fail it before there is an order.          *)
Sell(p) ==
  LET r == run[p]
  IN /\ r.step = "selling"
     /\ \E s \in r.symbol, ok \in BOOLEAN :
          /\ r.tries[s]["SELL"] \in Attempts
          /\ Submitted(OrderId(r, s, "SELL"), r.book[s], ok)
          /\ Goto(p, [r EXCEPT !.step = "sold", !.ok = ok])
     /\ UNCHANGED <<operator, records>>

(* The result row of one submit, which names a symbol and no side.         *)
Journalled(s, ok) ==
  \/ /\ Results(journal, s) < MaxRows
     /\ journal' = IF ok THEN [journal EXCEPT !.accepted[s] = @ + 1]
                         ELSE [journal EXCEPT !.failed[s] = @ + 1]
  \/ MayLoseRows /\ UNCHANGED journal

SellResult(p) ==
  LET r == run[p]
  IN /\ r.step = "sold"
     /\ \E s \in r.symbol : Journalled(s, r.ok)
     /\ Goto(p, [r EXCEPT !.step = "exits", !.symbol = {}, !.ok = FALSE,
                          !.refused = IF r.ok THEN @ ELSE @ \cup r.symbol])
     /\ UNCHANGED <<operator, decision, intents, market>>

-----------------------------------------------------------------------------
(* The gates between the loops: state, the exit funds the entry, an exit   *)
(* rule this runner lacks, an equity it cannot read.                       *)
Waits(r) == r.refused # {} /\ r.enters # {} /\ ~HeldLongEnough

Gate(p) ==
  LET r == run[p]
  IN /\ r.step = "exits" /\ r.exits = {}
     /\ \/ Return(p)
        \/ /\ r.st \in MaySubmitEntries /\ ~Waits(r)
           /\ Goto(p, [r EXCEPT !.step = IF unsupported THEN "suppress" ELSE "entries",
                                !.live = Cardinality(Held(r))])
     /\ UNCHANGED <<operator, records, market>>

(* One suppressed row per entry, then return; each write may fail.         *)
Suppress(p) ==
  LET r == run[p]
  IN /\ r.step = "suppress"
     /\ IF r.enters = {} THEN Return(p) /\ UNCHANGED journal
        ELSE \E s \in r.enters :
               /\ Goto(p, [r EXCEPT !.enters = @ \ {s}])
               /\ \/ /\ Results(journal, s) < MaxRows
                     /\ journal' = [journal EXCEPT !.failed[s] = @ + 1,
                                                   !.suppressed = @ \cup {s}]
                  \/ MayLoseRows /\ UNCHANGED journal
     /\ UNCHANGED <<operator, decision, intents, market>>

(* The entry loop of _submit.                                              *)

(* Over the cap; or no live price, or a budget below one share.            *)
SkipEntry(p) ==
  LET r == run[p]
  IN /\ r.step = "entries"
     /\ \E s \in r.enters : Goto(p, [r EXCEPT !.enters = @ \ {s}])
     /\ UNCHANGED <<operator, records, market>>

IntendEntry(p) ==
  LET r == run[p]
  IN /\ r.step = "entries" /\ r.live < MaxPositions
     /\ \E s \in r.enters :
          /\ Goto(p, [r EXCEPT !.step = "buying", !.enters = @ \ {s}, !.symbol = {s}])
          /\ intents' = intents \cup {<<s, "BUY">>}
     /\ UNCHANGED <<operator, decision, journal, market>>

Buy(p) ==
  LET r == run[p]
  IN /\ r.step = "buying"
     /\ \E s \in r.symbol, ok \in BOOLEAN :
          /\ r.tries[s]["BUY"] \in Attempts
          /\ Submitted(OrderId(r, s, "BUY"), Lot, ok)
          /\ Goto(p, [r EXCEPT !.step = "bought", !.ok = ok])
     /\ UNCHANGED <<operator, records>>

BuyResult(p) ==
  LET r == run[p]
  IN /\ r.step = "bought"
     /\ \E s \in r.symbol : Journalled(s, r.ok)
     /\ Goto(p, [r EXCEPT !.step = "entries", !.symbol = {}, !.ok = FALSE,
                          !.live = IF r.ok THEN @ + 1 ELSE @])
     /\ UNCHANGED <<operator, decision, intents, market>>

Finish(p) ==
  /\ run[p].step = "entries" /\ run[p].enters = {}
  /\ Return(p)
  /\ UNCHANGED <<operator, records, market>>

(* on_stop cancels the session task; a process may die anywhere.           *)
Crash(p) ==
  /\ run[p].step # "idle"
  /\ Return(p)
  /\ UNCHANGED <<operator, records, market>>

-----------------------------------------------------------------------------
(* The venue, and the order-event handlers that record_terminal.           *)

Answer(o, answer) == [order |-> o, answer |-> answer]

Booked(o, n) ==
  position' = [position EXCEPT ![o.symbol] = IF o.side = "BUY" THEN @ + n ELSE @ - n]

(* A SELL of more than is held is not filled.                              *)
Fillable(o, n) == o.side = "SELL" => position[o.symbol] >= n

Fill(o) ==
  /\ Live(o)
  /\ \E n \in {IF orders[o] = "part" THEN size[o] - 1 ELSE size[o]} :
       Fillable(o, n) /\ Booked(o, n)
  /\ orders' = [orders EXCEPT ![o] = "filled"]
  /\ due' = due \cup {Answer(o, "filled")}
  /\ UNCHANGED <<operator, records, size, run>>

(* Every OrderFilled reaches on_order_filled, a partial one too.           *)
PartFill(o) ==
  /\ orders[o] = "working" /\ size[o] > 1 /\ Fillable(o, 1)
  /\ Booked(o, 1)
  /\ orders' = [orders EXCEPT ![o] = "part"]
  /\ due' = due \cup {Answer(o, "filled")}
  /\ UNCHANGED <<operator, records, size, run>>

(* Rejected, cancelled or expired.                                         *)
End(o) ==
  /\ Live(o)
  /\ \E answer \in {IF orders[o] = "part" THEN "booked" ELSE "refused"} :
       /\ orders' = [orders EXCEPT ![o] = answer]
       /\ due' = due \cup {Answer(o, answer)}
  /\ UNCHANGED <<operator, records, size, position, run>>

RecordTerminal(t) ==
  /\ t \in due
  /\ due' = due \ {t}
  /\ \/ journal' = [journal EXCEPT !.terminal = @ \cup {t}]
     \/ MayLoseRows /\ UNCHANGED journal
  /\ UNCHANGED <<operator, decision, intents, orders, size, position, run>>

-----------------------------------------------------------------------------
(* The operator, and the automatic halt.                                   *)

Move(to) ==
  /\ to \in Visited /\ (Can(lifecycle, to, TRUE) \/ (to # lifecycle /\ to = Halt(lifecycle)))
  /\ lifecycle' = to
  /\ UNCHANGED <<unsupported, excluded, records, market, run>>

Exclude(s) ==
  /\ s \in Blacklistable
  /\ excluded' = IF s \in excluded THEN excluded \ {s} ELSE excluded \cup {s}
  /\ UNCHANGED <<lifecycle, unsupported, records, market, run>>

(* A new configuration takes a restart.                                    *)
Reconfigure ==
  /\ \A p \in Procs : run[p].step = "idle"
  /\ unsupported' = ~unsupported
  /\ UNCHANGED <<lifecycle, excluded, records, market, run>>

-----------------------------------------------------------------------------
Step(p) ==
  \/ \E k \in Slots : Begin(p, k)
  \/ Blocked(p) \/ ReadBook(p) \/ Urgent(p) \/ Resume(p) \/ Decide(p)
  \/ WriteDecision(p) \/ Recheck(p) \/ ReadTail(p)
  \/ SkipExit(p) \/ IntendExit(p) \/ Sell(p) \/ SellResult(p)
  \/ Gate(p) \/ Suppress(p)
  \/ SkipEntry(p) \/ IntendEntry(p) \/ Buy(p) \/ BuyResult(p) \/ Finish(p)
  \/ Crash(p)

Venue(o) == Fill(o) \/ PartFill(o) \/ End(o)

Operator ==
  \/ \E to \in States : Move(to)
  \/ \E s \in Symbols : Exclude(s)
  \/ Reconfigure

Next ==
  \/ \E p \in Procs : Step(p)
  \/ \E o \in OrderIds : Venue(o)
  \/ \E t \in due : RecordTerminal(t)
  \/ Operator

Spec == Init /\ [][Next]_vars

-----------------------------------------------------------------------------
TypeOK ==
  /\ lifecycle \in States
  /\ unsupported \in BOOLEAN
  /\ excluded \subseteq Symbols
  /\ decision \in [Slots -> Decisions]
  /\ intents \subseteq Symbols \X Sides
  /\ journal \in Journals
  /\ orders \in [OrderIds -> Statuses]
  /\ size \in [OrderIds -> Nat]
  /\ due \subseteq TerminalRows
  /\ position \in [Symbols -> Nat]
  /\ run \in [Procs -> Runs]

Sent(o) == orders[o] \notin {"none", "denied"}

(* No record, no order: whatever crash, lost write or second task comes    *)
(* between, an order at the broker has an intent row (_submit, "FAIL       *)
(* CLOSED").                                                               *)
NoRecordNoOrder ==
  \A o \in OrderIds : orders[o] # "none" => <<o.symbol, o.side>> \in intents

(* Two tasks that decide one slot at the same time submit one decision:    *)
(* every BUY of a slot is an entry of the row the slot has on record.      *)
BuysWereDecided ==
  \A o \in OrderIds :
    orders[o] # "none" /\ o.side = "BUY" =>
      decision[o.slot].made /\ o.symbol \in decision[o.slot].enters

(* A task that is about to buy began in TRADING and, after it decided or   *)
(* took up a decision, saw the lane in TRADING still.                      *)
EntriesConfirmed ==
  \A p \in Procs :
    run[p].step = "buying" => run[p].st = "TRADING" /\ run[p].saw = "TRADING"

WentOut(s, k) == \E o \in OrderIds : o.slot = k /\ o.symbol = s /\ o.side = "SELL" /\ Sent(o)

Funded(p, book) ==
  \A s \in decision[run[p].slot].exits \cap book : WentOut(s, run[p].slot)

(* The exit funds the entry: while a task buys, every exit its slot        *)
(* decided and it could size has reached the venue, on whichever run of    *)
(* the slot that was.                                                      *)
EntriesFunded ==
  \A p \in Procs :
    run[p].step = "buying" /\ ~HeldLongEnough => Funded(p, Sellable(run[p]))

(* An exit of a held name that cannot be sized holds the entries as well.  *)
UnsizableHoldsEntries ==
  \A p \in Procs :
    run[p].step = "buying" /\ ~HeldLongEnough => Funded(p, Held(run[p]))

SameQuestion(o1, o2) == o1.slot = o2.slot /\ o1.symbol = o2.symbol /\ o1.side = o2.side

(* A retry mints a new id only for an order that is over: one slot never   *)
(* has two live orders for a symbol and side.                              *)
NoSecondOrder ==
  \A o1, o2 \in OrderIds : Live(o1) /\ Live(o2) /\ SameQuestion(o1, o2) => o1 = o2

(* An entry declined for a rule the runner lacks is declined for the       *)
(* session: no later run buys it, the configuration mended or not.         *)
SuppressedStaysOut ==
  [][\A o \in OrderIds :
       o.side = "BUY" /\ o.symbol \in journal.suppressed /\ orders[o] = "none"
         => orders'[o] = "none"]_vars

(* A venue that keeps refusing an entry is asked MaxSubmitAttempts times.  *)
RetryBounded ==
  \A o \in OrderIds :
    Cardinality({o2 \in OrderIds : SameQuestion(o, o2) /\ o.side = "BUY" /\ orders[o2] = "refused"})
      <= MaxSubmitAttempts

(* Once every answer is journalled, an exit is not sent under an id that   *)
(* is spent.                                                               *)
SpentIdNotReused ==
  \A p \in Procs : \A s \in run[p].symbol :
    LET o == OrderId(run[p], s, "SELL")
    IN run[p].step = "selling" /\ due = {} /\ o \in OrderIds
         => orders[o] \in {"none", "working", "part"}

(* max_positions is a hard ceiling on open positions, however often the    *)
(* slot is resumed.                                                        *)
CapHolds == Cardinality({s \in Symbols : position[s] > 0}) <= MaxPositions

(* Nothing is sold, either, under a state the last look did not see.       *)
ExitsConfirmed ==
  \A p \in Procs : run[p].step = "selling" => run[p].saw = run[p].st

=============================================================================
