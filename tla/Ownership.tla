------------------------------ MODULE Ownership ------------------------------
(***************************************************************************)
(* Whose shares are they.  Lanes of one account hold one net position of a *)
(* symbol at the venue; the split is kept twice, by the claims of          *)
(* exec_position_state and by the legs of the node's cache, and a session  *)
(* run sizes what the lane may sell from both (momentum_rotation's         *)
(* runner.py; contract.py, held_seed.py and nautilus.py for the events     *)
(* that move a claim).                                                     *)
(*                                                                         *)
(* One symbol is followed: what a run does about it depends on the others  *)
(* only in whether the cache attributes any of them to the lane and        *)
(* whether the account shows any.  Lanes here are long-only, shares move   *)
(* one at a time, and a run reads the account and the claims at one moment.*)
(***************************************************************************)
EXTENDS Integers, Sequences, FiniteSets, Functions

CONSTANTS
  Lanes,
  MaxQty,      \* bound: shares of the symbol on the account
  MaxPending,  \* bound: claim writes in flight
  Restarts,    \* the node may restart and lose whose a position is
  Stops,       \* protective stops may fill
  Refusals,    \* the venue may refuse an exit
  Stalls       \* a claim write may give up, a quote may be missing

ASSUME LanesAssumption == IsFiniteSet(Lanes)
ASSUME BoundsAssumption == MaxQty \in Nat /\ MaxPending \in Nat \ {0}
ASSUME SwitchesAssumption == {Restarts, Stops, Refusals, Stalls} \subseteq BOOLEAN

VARIABLES
  hold,       \* the shares that are the lane's own, as its orders filled
  attr,       \* the lane's leg in the cache, signed
  claims,     \* its claim, signed; 0 is no row
  book,       \* the lanes whose adapter has the symbol in _held
  pending,    \* sync_claim calls in flight, oldest first
  sized,      \* held_qty of its last run
  elsewhere   \* the lanes with a leg in some other symbol

vars == <<hold, attr, claims, book, pending, sized, elsewhere>>

Flat == [l \in Lanes |-> 0]

Init ==
  /\ hold = Flat /\ attr = Flat /\ claims = Flat /\ sized = Flat
  /\ book = {} /\ elsewhere = {}
  /\ pending = [l \in Lanes |-> <<>>]

Others(l) == Lanes \ {l}
Total(q, ls) == SumFunctionOnSet(q, ls)

-----------------------------------------------------------------------------
(* What a broker answers.  EXTERNAL holds what no lane's leg does; a flat  *)
(* leg is not an open position.                                            *)
Account == Total(hold, Lanes)
External == Account - Total(attr, Lanes)
Shown == External # 0 \/ \E l \in Lanes : attr[l] # 0
Attributed(l) == attr[l] # 0 \/ l \in elsewhere

-----------------------------------------------------------------------------
(* Events.  Every terminal answer to an order of the lane syncs its claim  *)
(* to its leg, in the order the events came.                               *)
Sync(l, q) ==
  /\ Total([o \in Lanes |-> Len(pending[o])], Lanes) < MaxPending
  /\ pending' = [pending EXCEPT ![l] = Append(@, q)]

Moved(l, by) ==
  /\ hold' = [hold EXCEPT ![l] = @ + by]
  /\ attr' = [attr EXCEPT ![l] = @ + by]

(* on_order_filled of a buy.  _pending is empty on the runner's path, so   *)
(* no intent is completed and _held gains nothing.                         *)
Bought(l) ==
  /\ Account < MaxQty
  /\ Moved(l, 1)
  /\ Sync(l, attr[l] + 1)
  /\ UNCHANGED <<claims, book, sized, elsewhere>>

(* A share of the exit the last run sized fills.                           *)
Sold(l) ==
  /\ sized[l] > 0 /\ hold[l] > 0
  /\ Moved(l, -1)
  /\ Sync(l, attr[l] - 1)
  /\ sized' = [sized EXCEPT ![l] = @ - 1]
  /\ UNCHANGED <<claims, book, elsewhere>>

(* on_order_rejected of an exit: no price, so only a flat leg is written.  *)
Refused(l) ==
  /\ Refusals /\ sized[l] > 0
  /\ attr[l] = 0
  /\ Sync(l, 0)
  /\ UNCHANGED <<hold, attr, claims, book, sized, elsewhere>>

(* protective_close: a stop of another component fills, of a position the  *)
(* adapter may or may not know it holds.                                   *)
StopUnseen(l) ==
  /\ Stops /\ hold[l] > 0 /\ l \notin book
  /\ Moved(l, -1)
  /\ UNCHANGED <<claims, book, pending, sized, elsewhere>>

StopReconciled(l) ==
  /\ Stops /\ hold[l] > 0 /\ l \in book
  /\ Moved(l, -1)
  /\ Sync(l, attr[l] - 1)
  /\ book' = IF attr[l] = 1 THEN book \ {l} ELSE book
  /\ UNCHANGED <<claims, sized, elsewhere>>

(* Mutant: a flat answer leaves the row.                                   *)
LandUnlessFlat(l) ==
  /\ pending[l] # <<>>
  /\ claims' = [claims EXCEPT ![l] = IF Head(pending[l]) = 0 THEN @ ELSE Head(pending[l])]
  /\ pending' = [pending EXCEPT ![l] = Tail(@)]
  /\ UNCHANGED <<hold, attr, book, sized, elsewhere>>

Land(l) ==
  /\ pending[l] # <<>>
  /\ claims' = [claims EXCEPT ![l] = Head(pending[l])]
  /\ pending' = [pending EXCEPT ![l] = Tail(@)]
  /\ UNCHANGED <<hold, attr, book, sized, elsewhere>>

LoseWrite(l) ==
  /\ Stalls /\ pending[l] # <<>>
  /\ pending' = [pending EXCEPT ![l] = Tail(@)]
  /\ UNCHANGED <<hold, attr, claims, book, sized, elsewhere>>

(* The lane's trading in other symbols.                                    *)
OtherSymbol(l) ==
  /\ elsewhere' = IF l \in elsewhere THEN elsewhere \ {l} ELSE elsewhere \cup {l}
  /\ UNCHANGED <<hold, attr, claims, book, pending, sized>>

(* Reconciliation brings the account back, each leg under its lane or      *)
(* under EXTERNAL; _held is seeded from the long legs.                     *)
Restart ==
  /\ Restarts
  /\ \E lost \in SUBSET {l \in Lanes : attr[l] # 0}, named \in SUBSET elsewhere :
       /\ attr' = [l \in Lanes |-> IF l \in lost THEN 0 ELSE attr[l]]
       /\ elsewhere' = named
  /\ book' = {l \in Lanes : attr'[l] > 0}
  /\ pending' = [l \in Lanes |-> <<>>]
  /\ sized' = Flat
  /\ UNCHANGED <<hold, claims>>

-----------------------------------------------------------------------------
(* One session run, as far as ownership goes.                              *)

(* A position of the lane's own leg without a row.                         *)
Orphan(l) == claims[l] = 0 /\ attr[l] > 0

(* retire_claims                                                           *)
AccountFlat == Account <= 0

(* Mutant: a claim another lane's covers is dead, whoever is attributed.   *)
DisownedByClaims(l) == Attributed(l) /\ Total(claims, Others(l)) >= Account

Disowned(l) ==
  /\ Attributed(l)
  /\ attr[l] <= 0
  /\ \/ Total(claims, Others(l)) >= Account
     \/ Total(attr, Others(l)) >= Account

(* other: the account shows positions in other symbols.                    *)
Retired(l, other) == (Shown \/ other) /\ (AccountFlat \/ Disowned(l))

(* Mutant: the claim alone is the cap.                                     *)
OwnCeilingOfClaim(acct, mine, other) == IF mine <= 0 THEN 0 ELSE mine

(* own_ceiling, of a long claim; any other sells nothing.                  *)
OwnCeiling(acct, mine, other) ==
  LET residue == acct - other
  IN  IF mine <= 0 \/ residue <= 0 THEN 0
      ELSE IF mine < residue THEN mine ELSE residue

(* Its claim, narrowed by attribution where there is any.                  *)
Sellable(l, claim) ==
  LET q == OwnCeiling(Account, claim, Total(claims, Others(l)))
  IN  IF ~Attributed(l) THEN q
      ELSE IF attr[l] <= 0 THEN 0
      ELSE IF q < attr[l] THEN q ELSE attr[l]

Concludes(l, claim, size) ==
  /\ claims' = [claims EXCEPT ![l] = claim]
  /\ sized' = [sized EXCEPT ![l] = size]
  /\ UNCHANGED <<hold, attr, book, pending, elsewhere>>

(* An adoption without a quote or that stalls does not happen; a stalled   *)
(* retirement leaves the row and is as good as done for the rest of the    *)
(* run.                                                                    *)
Run(l, stall, other) ==
  LET claim == IF Orphan(l) /\ ~stall THEN attr[l] ELSE claims[l]
  IN  IF claim # 0 /\ Retired(l, other)
      THEN Concludes(l, IF stall THEN claim ELSE 0, 0)
      ELSE Concludes(l, claim, IF claim # 0 /\ Shown THEN Sellable(l, claim) ELSE 0)

(* An account that reads empty before reconciliation has filled the cache: *)
(* nothing is retired, nothing is sized.                                   *)
BlankRun(l) == Restarts /\ Concludes(l, claims[l], 0)

MayStall == IF Stalls THEN BOOLEAN ELSE {FALSE}
Elsewhere == IF elsewhere # {} THEN {TRUE} ELSE BOOLEAN

Session(l) == \E stall \in MayStall, other \in Elsewhere : Run(l, stall, other)

Next ==
  \/ Restart
  \/ \E l \in Lanes :
       \/ Session(l) \/ BlankRun(l) \/ OtherSymbol(l)
       \/ Bought(l) \/ Sold(l) \/ Refused(l) \/ StopUnseen(l) \/ StopReconciled(l)
       \/ Land(l) \/ LoseWrite(l)

Spec == Init /\ [][Next]_vars

(* The scheduler keeps starting sessions and the loop keeps running what   *)
(* was handed to it; a quote or a lock that is missing is not so for ever. *)
FairSpec ==
  /\ Spec
  /\ \A l \in Lanes : WF_vars(\E other \in Elsewhere : Run(l, FALSE, other)) /\ WF_vars(Land(l))

-----------------------------------------------------------------------------
(* What a lane holds is its orders' doing: a leg lost in a restart may     *)
(* leave it short of its holding, never beyond; writes in flight are       *)
(* bounded; nothing is sized below zero.                                   *)
TypeOK ==
  /\ {hold, attr, claims, sized} \subseteq [Lanes -> -MaxQty..MaxQty]
  /\ book \subseteq Lanes /\ elsewhere \subseteq Lanes
  /\ \A l \in Lanes :
       /\ pending[l] \in Seq(-MaxQty..MaxQty) /\ Len(pending[l]) <= MaxPending
       /\ hold[l] >= 0 /\ attr[l] <= hold[l] /\ sized[l] >= 0

(* A lane's session: a run is the only step that adds to what it may sell. *)
Sizes(l) == sized'[l] > sized[l]

(* Attribution or the claims: a lane to which the node attributes any      *)
(* position, or whose neighbours claim all that they hold, never sizes an  *)
(* exit beyond its own shares, however wrong the rest of the record is.    *)
OwnSharesOnly ==
  [][\A l \in Lanes :
       /\ Sizes(l)
       /\ Attributed(l) \/ Total(claims, Others(l)) >= Total(hold, Others(l))
       => sized'[l] <= hold[l]]_vars

(* "A STRATEGY MAY NEVER SELL ANOTHER STRATEGY'S SHARES": what a run sizes *)
(* is the lane's own.                                                      *)
NeverSellsAnothers == [][\A l \in Lanes : Sizes(l) => sized'[l] <= hold[l]]_vars

(* The claim on a position that is still held goes only when a later write *)
(* is under way.                                                           *)
Keeps(l) ==
  claims[l] > 0 /\ hold[l] > 0 /\ hold'[l] > 0 => claims'[l] > 0 \/ pending'[l] # <<>>

(* A claim on shares that are all on the lane's leg is kept while any of   *)
(* them is held, through restarts, stops, refusals and stalled writes.     *)
ClaimKeptWhileAttributed == [][\A l \in Lanes : attr[l] = hold[l] => Keeps(l)]_vars

(* "a live position with no claim, which the next session reads as foreign *)
(* and never exits" does not come about.                                   *)
ClaimKeptWhileHeld == [][\A l \in Lanes : Keeps(l)]_vars

(* "RETIRE ON POSITIVE EVIDENCE OF ABSENCE": a run drops the claim on a    *)
(* position only if the lane has no share of it.                           *)
RetiredOnlyWhenGone ==
  [][\A l \in Lanes :
       claims[l] > 0 /\ claims'[l] = 0 /\ pending' = pending => hold[l] = 0]_vars

(* Once the venue's answers are written down, the claim is what the lane's *)
(* leg says.                                                               *)
ClaimFollowsLeg == \A l \in Lanes : pending[l] = <<>> => claims[l] = attr[l]

(* A position that stays on a lane's leg while nothing is in flight is one *)
(* the lane can get out of: a run sizes an exit for it, time and again.    *)
Settled == \A l \in Lanes : pending[l] = <<>>
CanAlwaysGetOut ==
  \A l \in Lanes : <>[](Settled /\ attr[l] > 0) => []<>(sized[l] > 0)

=============================================================================
