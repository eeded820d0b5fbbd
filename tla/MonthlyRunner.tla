---------------------------- MODULE MonthlyRunner ----------------------------
(***************************************************************************)
(* QC27SessionRunner (qc27_tech_inverse_vol/runner.py): one slot of a      *)
(* monthly lane, run as often as the adapter or a restart asks.  It        *)
(* decides once, journals, looks at the operator's state again, sells,     *)
(* buys, and claims what it bought; nothing resumes a decision.  Around it *)
(* the operator, a journal that may lose a row, the venue, and the         *)
(* adapter's terminal handlers, which set the claim to the book.           *)
(*                                                                         *)
(* The daily-loss verdict is DailyLoss's subject and enters as any.  Rows  *)
(* nothing reads are left out.  env says what this behaviour's             *)
(* surroundings do.                                                        *)
(***************************************************************************)
EXTENDS Integers, FiniteSets, Lifecycle

CONSTANTS
  Symbols, Procs,
  Lot,         \* shares an entry is sized to
  Visited,     \* bound: the states the operator visits
  Envs         \* the surroundings explored, sets of {"lost", "blind", "restarts"}

ASSUME SizesAssumption == Lot \in Nat \ {0} /\ Visited \subseteq States

VARIABLES
  env,
  lifecycle,
  decision,    \* the slot's decision row: NotMade, or the orders it names
  intents,     \* the intent rows, <<symbol, side>>
  order,       \* the order of a symbol and side: its client id has no more
  pos, claim,
  awake,       \* the process of the adapter is up, and hears the venue
  due,         \* claim writes of its handlers, <<symbol, quantity>>
  unsaid,      \* names of which an event was heard by nobody, or its write died
  run

vars == <<env, lifecycle, decision, intents, order, pos, claim, awake, due, unsaid, run>>

Sides == {"SELL", "BUY"}
Ids == Symbols \X Sides
NotMade == [exit |-> {}, enter |-> {}, made |-> FALSE]
Unsent == [is |-> "none", left |-> 0, sure |-> FALSE]
Idle == [step |-> "idle", st |-> "DISABLED", exit |-> {}, enter |-> {}, sure |-> FALSE,
         sym |-> {}, qty |-> 0]

Held == {s \in Symbols : pos[s] > 0}

Init ==
  /\ env \in Envs /\ lifecycle = "TRADING"
  /\ decision = NotMade /\ intents = {}
  /\ order = [i \in Ids |-> Unsent]
  /\ pos \in [Symbols -> {0, Lot}] /\ claim = pos
  /\ awake = TRUE /\ due = {} /\ unsaid = {} /\ run = [p \in Procs |-> Idle]

-----------------------------------------------------------------------------
(* run                                                                     *)

Goto(p, r) == run' = [run EXCEPT ![p] = r]
Return(p) == Goto(p, Idle)
Book == <<order, pos, claim, awake, due, unsaid>>

(* _read_state                                                             *)
ReadState(p) ==
  /\ run[p].step = "idle"
  /\ Goto(p, [Idle EXCEPT !.step = "check", !.st = lifecycle])
  /\ UNCHANGED <<env, lifecycle, decision, intents, Book>>

(* Decided already, or in a state that does not decide: it returns.        *)
Check(p) ==
  /\ run[p].step = "check"
  /\ IF decision.made \/ run[p].st \notin Decides THEN Return(p)
     ELSE Goto(p, [run[p] EXCEPT !.step = "decide"])
  /\ UNCHANGED <<env, lifecycle, decision, intents, Book>>

(* The daily-loss stop blocks or halts; an empty panel, a session that is  *)
(* no rebalance, a decision that raised: nothing is decided.               *)
Declines(p) ==
  /\ run[p].step = "decide" /\ Return(p)
  /\ lifecycle' \in {lifecycle} \cup (IF run[p].st = "TRADING" THEN {Halt(lifecycle)} ELSE {})
  /\ UNCHANGED <<env, decision, intents, Book>>

(* _held_symbols: what cannot be read is taken for nothing held.           *)
ReadsHeld == IF "blind" \in env THEN {Held, {}} ELSE {Held}

(* decide: exits of what is no target, entries of what is not held.        *)
Decide(p) ==
  /\ run[p].step = "decide"
  /\ \E target \in SUBSET Symbols, held \in ReadsHeld :
       Goto(p, [run[p] EXCEPT !.step = "write", !.exit = held \ target,
                              !.enter = target \ held])
  /\ UNCHANGED <<env, lifecycle, decision, intents, Book>>

Row(p) == [exit |-> run[p].exit, enter |-> run[p].enter, made |-> TRUE]

(* Mutant: a decision row of another run is written over.                  *)
WriteOver(p) ==
  /\ run[p].step = "write" /\ decision' = Row(p)
  /\ Goto(p, [run[p] EXCEPT !.step = "recheck"])
  /\ UNCHANGED <<env, lifecycle, intents, Book>>

(* The decision row.  A duplicate raises; a row that could not be written  *)
(* is answered None, which nobody reads.                                   *)
WriteDecision(p) ==
  /\ run[p].step = "write"
  /\ \/ /\ ~decision.made /\ decision' = Row(p)
        /\ Goto(p, [run[p] EXCEPT !.step = "recheck"])
     \/ decision.made /\ Return(p) /\ UNCHANGED decision
     \/ "lost" \in env /\ Goto(p, [run[p] EXCEPT !.step = "recheck"]) /\ UNCHANGED decision
  /\ UNCHANGED <<env, lifecycle, intents, Book>>

(* _state_changed: moved or unreadable submits nothing.                    *)
Recheck(p) ==
  /\ run[p].step = "recheck"
  /\ \/ lifecycle = run[p].st /\ Goto(p, [run[p] EXCEPT !.step = "exits", !.sure = TRUE])
     \/ Return(p)
  /\ UNCHANGED <<env, lifecycle, decision, intents, Book>>

-----------------------------------------------------------------------------
(* _submit and _send.                                                      *)

(* _send sizes, writes its intent and only then sends; it drops what sizes *)
(* to nothing or cannot be written.                                        *)
Intend(p, from, side, qty, rest) ==
  \/ /\ qty > 0
     /\ intents' = intents \cup {<<from, side>>}
     /\ Goto(p, [rest EXCEPT !.step = side, !.sym = {from}, !.qty = qty])
  \/ /\ qty = 0 \/ "lost" \in env
     /\ Goto(p, rest) /\ UNCHANGED intents

IntendExit(p) ==
  /\ run[p].step = "exits" /\ run[p].st \in MaySubmitExits
  /\ \E s \in run[p].exit :
       Intend(p, s, "SELL", IF pos[s] > 0 THEN pos[s] ELSE 0, [run[p] EXCEPT !.exit = @ \ {s}])
  /\ UNCHANGED <<env, lifecycle, decision, Book>>

(* Only a state that may enter goes on to the entries.                     *)
ExitsDone(p) ==
  /\ run[p].step = "exits" /\ (run[p].exit = {} \/ run[p].st \notin MaySubmitExits)
  /\ IF run[p].st \in MaySubmitEntries THEN Goto(p, [run[p] EXCEPT !.step = "entries"])
     ELSE Return(p)
  /\ UNCHANGED <<env, lifecycle, decision, intents, Book>>

(* No weight, a budget that refuses, no price, less than a share: dropped. *)
IntendEntry(p) ==
  /\ run[p].step = "entries"
  /\ \E s \in run[p].enter, qty \in {0, Lot} :
       Intend(p, s, "BUY", qty, [run[p] EXCEPT !.enter = @ \ {s}])
  /\ UNCHANGED <<env, lifecycle, decision, Book>>

EntriesDone(p) ==
  /\ run[p].step = "entries" /\ run[p].enter = {} /\ Return(p)
  /\ UNCHANGED <<env, lifecycle, decision, intents, Book>>

(* broker.exit and broker.submit: an id that was used is denied, and       *)
(* answered with what became of its order; an accepted SELL is followed by *)
(* nothing, an accepted BUY by its claim.                                  *)
Send(p) ==
  LET r == run[p]
  IN  /\ r.step \in Sides
      /\ \E s \in r.sym, ok \in BOOLEAN :
           LET i == <<s, r.step>>
           IN  /\ IF order[i].is = "none"
                  THEN order' = [order EXCEPT ![i] =
                         [is |-> IF ok THEN "working" ELSE "refused",
                          left |-> IF ok THEN r.qty ELSE 0, sure |-> r.sure]]
                  ELSE ok = (order[i].is # "refused") /\ UNCHANGED order
               /\ Goto(p, IF ok /\ r.step = "BUY" THEN [r EXCEPT !.step = "claim"]
                          ELSE [r EXCEPT !.step = IF r.step = "SELL" THEN "exits" ELSE "entries"])
      /\ UNCHANGED <<env, lifecycle, decision, intents, pos, claim, awake, due, unsaid>>

(* Mutant: an accepted entry is claimed at what is held of it.             *)
ClaimHeld(p) ==
  /\ run[p].step = "claim"
  /\ claim' = [s \in Symbols |-> IF s \in run[p].sym THEN 0 ELSE claim[s]]
  /\ Goto(p, [run[p] EXCEPT !.step = "entries"])
  /\ UNCHANGED <<env, lifecycle, decision, intents, order, pos, awake, due, unsaid>>

(* _write_claim, at the quantity asked for; a price it cannot read, or a   *)
(* write that fails, leaves the claim.                                     *)
WriteClaim(p) ==
  /\ run[p].step = "claim"
  /\ \/ claim' = [s \in Symbols |-> IF s \in run[p].sym THEN run[p].qty ELSE claim[s]]
     \/ "lost" \in env /\ UNCHANGED claim
  /\ Goto(p, [run[p] EXCEPT !.step = "entries"])
  /\ UNCHANGED <<env, lifecycle, decision, intents, order, pos, awake, due, unsaid>>

-----------------------------------------------------------------------------
(* The venue and the adapter's handlers: _record_terminal reads the book   *)
(* at the event and writes the claim later, the newest of a name last; an  *)
(* answer without a price sets no claim but that of an empty book.  What   *)
(* happens while the process is down is heard by nobody.                   *)
Signed(side, n) == IF side = "BUY" THEN n ELSE -n

Hears(s) ==
  IF awake
  THEN /\ due' = {d \in due : d[1] # s} \cup {<<s, pos'[s]>>}
       /\ unsaid' = unsaid \ {s}
  ELSE unsaid' = unsaid \cup {s} /\ UNCHANGED due

Fills(i) ==
  /\ order[i].is = "working"
  /\ \E n \in 1..order[i].left :
       /\ i[2] = "SELL" => pos[i[1]] >= n
       /\ pos' = [pos EXCEPT ![i[1]] = @ + Signed(i[2], n)]
       /\ order' = [order EXCEPT ![i].left = @ - n,
                                 ![i].is = IF n = order[i].left THEN "filled" ELSE @]
  /\ Hears(i[1])
  /\ UNCHANGED <<env, lifecycle, decision, intents, claim, awake, run>>

(* Rejected, canceled or expired.                                          *)
Ends(i) ==
  /\ order[i].is = "working"
  /\ order' = [order EXCEPT ![i].left = 0, ![i].is = "refused"]
  /\ UNCHANGED pos
  /\ IF pos[i[1]] = 0 THEN Hears(i[1]) ELSE UNCHANGED <<due, unsaid>>
  /\ UNCHANGED <<env, lifecycle, decision, intents, claim, awake, run>>

(* sync_claim: in the order of the events of a symbol (ClaimWriter).       *)
Sync(d) ==
  /\ due' = due \ {d}
  /\ \/ claim' = [claim EXCEPT ![d[1]] = d[2]]
     \/ "lost" \in env /\ UNCHANGED claim
  /\ UNCHANGED <<env, lifecycle, decision, intents, order, pos, awake, unsaid, run>>

Operator ==
  /\ \E to \in Visited : Can(lifecycle, to, TRUE) /\ lifecycle' = to
  /\ UNCHANGED <<env, decision, intents, Book, run>>

(* Runs die with their process, and with the adapter's die its handlers    *)
(* and the claim writes they have out; the journal and the venue remain.   *)
Dies ==
  /\ "restarts" \in env
  /\ \E gone \in SUBSET Procs : run' = [p \in Procs |-> IF p \in gone THEN Idle ELSE run[p]]
  /\ \/ UNCHANGED <<awake, due, unsaid>>
     \/ awake' = FALSE /\ due' = {} /\ unsaid' = unsaid \cup {d[1] : d \in due}
  /\ UNCHANGED <<env, lifecycle, decision, intents, order, pos, claim>>

(* on_start seeds the adapter's own book and states no claim.              *)
Starts ==
  /\ ~awake /\ awake' = TRUE
  /\ UNCHANGED <<env, lifecycle, decision, intents, order, pos, claim, due, unsaid, run>>

Next ==
  \/ \E p \in Procs :
       \/ ReadState(p) \/ Check(p) \/ Declines(p) \/ Decide(p) \/ WriteDecision(p) \/ Recheck(p)
       \/ IntendExit(p) \/ ExitsDone(p) \/ IntendEntry(p) \/ EntriesDone(p)
       \/ Send(p) \/ WriteClaim(p)
  \/ \E i \in Ids : Fills(i) \/ Ends(i)
  \/ \E d \in due : Sync(d)
  \/ Operator \/ Dies \/ Starts

Spec == Init /\ [][Next]_vars

-----------------------------------------------------------------------------
TypeOK ==
  /\ env \in Envs /\ lifecycle \in States
  /\ intents \subseteq Ids /\ decision.made \in BOOLEAN /\ unsaid \subseteq Symbols
  /\ \A s \in Symbols : pos[s] \in Nat /\ claim[s] \in Nat
  /\ \A p \in Procs : run[p].st \in States /\ run[p].sym \subseteq Symbols

Sent == {i \in Ids : order[i].is # "none"}
Exits(d) == d.exit \X {"SELL"}
Enters(d) == d.enter \X {"BUY"}

(* "The journal is the idempotency key": an order at the venue has its     *)
(* intent row, was sent under a state read again after the decision, and,  *)
(* while the journal takes its rows, is one that the slot's single         *)
(* decision names, whoever raced for it.                                   *)
OrdersAreBacked ==
  /\ Sent \subseteq intents /\ \A i \in Sent : order[i].sure
  /\ "lost" \notin env => Sent \subseteq Exits(decision) \cup Enters(decision)

(* "JOURNAL THE DECISION BEFORE ANY ORDER": an order is out only if the    *)
(* slot has its decision row.                                              *)
DecisionFirst == Sent # {} => decision.made

(* "An over-claim only narrows other lanes' ceilings, while an under-claim *)
(* lets them size into a position we hold": at rest a lane claims no less  *)
(* than it holds, however fills, refusals, deaths and the claim of an      *)
(* acceptance fall in line - of a name whose last event was written down.  *)
AtRest(s) ==
  /\ \A d \in due : d[1] # s
  /\ \A p \in Procs : s \notin run[p].sym
NeverUnderClaimed ==
  env \cap {"lost", "blind"} = {} =>
    \A s \in Symbols \ unsaid : AtRest(s) => claim[s] >= pos[s]

(* The same of every name: what a restart would have to repair.            *)
ClaimSurvivesDeath ==
  env \cap {"lost", "blind"} = {} => \A s \in Symbols : AtRest(s) => claim[s] >= pos[s]

(* "The claim follows the venue's terminal answer, not submit-time         *)
(* acceptance": at rest with every order answered it is no more, either.   *)
NeverOverClaimed ==
  env = {} /\ (\A i \in Ids : order[i].is # "working") =>
    \A s \in Symbols : AtRest(s) => claim[s] <= pos[s]

=============================================================================
