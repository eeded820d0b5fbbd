------------------------------ MODULE Rotation ------------------------------
(***************************************************************************)
(* The decision of the rotation lanes (momentum_rotation/engine.py): from  *)
(* the scores of a session and what is held, what to sell, what to buy,    *)
(* and the weights of the book that results.  It is a pure function, so    *)
(* the machine here only feeds it: a session ranks, its orders are sent,   *)
(* and the next session finds what was bought.                             *)
(*                                                                         *)
(* Tickers are numbers in alphabetical order.  Scores, the intra-session   *)
(* overlay and volatilities are small whole numbers; a correlation either  *)
(* exceeds the one threshold that max_correlation and cluster_corr share   *)
(* here, or does not.                                                      *)
(***************************************************************************)
EXTENDS Integers, Sequences, SequencesExt, FiniteSetsExt

CONSTANTS
  Names,
  Panels,        \* functions from what is eligible and has a score to scores
  Overlays,      \* records: scores of what has intra-session bars, and the order
                 \* in which the sort leaves what their blend ties; or NoOverlay
  Correlations,  \* records: names with an estimate (none: no matrix), and the
                 \* pairs of names above the threshold
  Quiets,        \* names whose overnight gap lies in the dead band
  NHold, Buffer,
  OverlayWeight, \* intraday.weight
  ClusterFloor,  \* cluster_exit_score, or {}
  InverseVol,    \* 1 / volatility, for inverse_vol_sizing
  CapOver, CapUnder  \* max_weight = CapOver / CapUnder

CountsAssumption == NHold \in Nat \ {0} /\ Buffer \in Nat /\ OverlayWeight \in Nat
NoOverlay == [bars |-> <<>>, ties |-> <<>>]
PanelsAssumption ==
  /\ IsFiniteSet(Names) /\ Names \subseteq Int
  /\ \A score \in Panels : DOMAIN score \subseteq Names /\ \A n \in DOMAIN score : score[n] \in Int
  /\ \A overlay \in Overlays \ {NoOverlay} : overlay.ties \in [Names -> Int]
  /\ \A corr \in Correlations : corr.known \subseteq Names
CapAssumption ==
  CapOver \in Nat \ {0} /\ CapUnder \in Nat \ {0} /\ InverseVol \in [Names -> Nat \ {0}]

VARIABLES
  entryOnly,  \* intraday.entry_only
  book,       \* what is held
  session     \* what the session saw and decided, or Between

vars == <<entryOnly, book, session>>

-----------------------------------------------------------------------------
(* The ranking.                                                            *)

(* Value descending, then what breaks its ties, then ticker.               *)
Beats(value, ties, m, n) ==
  \/ value[m] > value[n]
  \/ value[m] = value[n] /\ (ties[m] > ties[n] \/ (ties[m] = ties[n] /\ m < n))

Ahead(value, ties, n) == {m \in DOMAIN ties : Beats(value, ties, m, n)}
Sorted(value, ties) ==
  [i \in 1..Cardinality(DOMAIN ties) |->
     CHOOSE n \in DOMAIN ties : Cardinality(Ahead(value, ties, n)) = i - 1]
Ranked(score) == Sorted(score, score)

(* rank(pct=True), in parts of twice the number ranked: ties share theirs. *)
RankOf(f, n) ==
  2 * Cardinality({m \in DOMAIN f : f[m] < f[n]})
    + Cardinality({m \in DOMAIN f : f[m] = f[n]}) + 1

(* The rank plus the overlay's rank by its weight, in parts of Scale; what *)
(* has no bars is neutral.                                                 *)
Seen(score, overlay) == DOMAIN score \cap DOMAIN overlay.bars
Parts(score, overlay) == Max({1, Cardinality(Seen(score, overlay))})
Scale(score, overlay) == 2 * Cardinality(DOMAIN score) * Parts(score, overlay)
Blend(score, overlay) ==
  LET ov == [n \in Seen(score, overlay) |-> overlay.bars[n]]
      k == Cardinality(DOMAIN score)
      j == Parts(score, overlay)
  IN  [n \in DOMAIN score |->
         RankOf(score, n) * j
           + OverlayWeight * (IF n \in DOMAIN ov THEN RankOf(ov, n) * k ELSE k * j)]

(* decide: the values the ranking, the exits and the entries go by, and    *)
(* the unit they are in.  An overlay none of whose names is ranked blends  *)
(* ranks that are all neutral.                                             *)
Blends(overlay) == OverlayWeight # 0 /\ overlay # NoOverlay
Value(score, overlay, only) ==
  IF Blends(overlay) /\ ~only
  THEN [of |-> Blend(score, overlay), unit |-> Scale(score, overlay)]
  ELSE [of |-> score, unit |-> 1]

(* Scores that are equal go by ticker; blends are sorted by value alone,   *)
(* and the sort is not stable.                                             *)
Ties(score, overlay) ==
  IF Blends(overlay) THEN [n \in DOMAIN score |-> overlay.ties[n]] ELSE score
Order(score, overlay) == Sorted(Value(score, overlay, FALSE).of, Ties(score, overlay))

-----------------------------------------------------------------------------
(* The rules.                                                              *)

Alike(corr, m, n) == {m, n} \subseteq corr.known /\ {m, n} \in corr.alike

(* cluster_exits: what is held and ranked, and whose cluster has on        *)
(* average fallen below the floor.                                         *)
ClusterExits(held, value, corr) ==
  IF corr.known = {} THEN {}
  ELSE {s \in held \cap DOMAIN value.of :
          LET members ==
                {s} \cup {p \in (held \cap DOMAIN value.of) \ {s} : Alike(corr, p, s)}
          IN  \E floor \in ClusterFloor :
                MapThenSumSet(LAMBDA m : value.of[m], members)
                  < floor * value.unit * Cardinality(members)}

(* Mutant: a candidate is compared with what is held, and not with what    *)
(* the same walk has already picked.                                       *)
AgainstHeldOnly(order, allowed, held, room, corr) ==
  FoldLeft(LAMBDA out, t :
             IF \/ t \notin allowed \/ t \in held \/ Len(out) >= room
                \/ \E b \in held : Alike(corr, t, b)
             THEN out ELSE Append(out, t),
           <<>>, order)

(* _diversified: down the order, whatever may be bought and is not alike   *)
(* to the book so far, while there is room.                                *)
Diversified(order, allowed, held, room, corr) ==
  FoldLeft(LAMBDA out, t :
             IF \/ t \notin allowed \/ t \in held \/ Len(out) >= room
                \/ \E b \in held \cup ToSet(out) : Alike(corr, t, b)
             THEN out ELSE Append(out, t),
           <<>>, order)

(* _weights before the cap: inverse volatility if every name has one, else *)
(* equal.                                                                  *)
Proportions(hold, corr) ==
  [n \in hold |-> IF hold \subseteq corr.known THEN InverseVol[n] ELSE 1]

Total(f, names) == SumFunctionOnSet(f, names)

(* What is not capped shares what the capped leave in its own proportions, *)
(* as pro rata redistribution leaves it.                                   *)
OverCap(f, capped) ==
  LET free == DOMAIN f \ capped
  IN  {n \in free :
         f[n] * (CapUnder - CapOver * Cardinality(capped)) > CapOver * Total(f, free)}

(* _apply_max_weight: the names cut to the cap, until none exceeds it.     *)
Capped(f) ==
  FoldLeft(LAMBDA capped, round : capped \cup OverCap(f, capped), {},
           [round \in 1..Cardinality(DOMAIN f) |-> round])

Satisfiable(f) == CapOver * Cardinality(DOMAIN f) > CapUnder
Weights(hold, corr) ==
  LET f == Proportions(hold, corr)
  IN  IF CapOver >= CapUnder \/ hold = {} THEN [of |-> f, capped |-> {}]
      ELSE IF ~Satisfiable(f) THEN [of |-> [n \in hold |-> 1], capped |-> {}]
      ELSE [of |-> f, capped |-> Capped(f)]

(* What is kept: the ranking's head, of the scores if the overlay is for   *)
(* entries only; and what may be bought.                                   *)
Kept(score, overlay, only) ==
  LET ranked == IF only THEN Ranked(score) ELSE Order(score, overlay)
  IN  {ranked[i] : i \in 1..Min({Len(ranked), NHold + Buffer})}
Candidates(score, exits, keep, only) == {t \in DOMAIN score \ exits : only => t \in keep}

(* decide.  A ranking of nothing is no decision to sell.                   *)
Decide(held, score, overlay, corr, only) ==
  LET value == Value(score, overlay, only)
      order == Order(score, overlay)
      keep == Kept(score, overlay, only)
      exits == (held \ keep) \cup ClusterExits(held, value, corr)
      enter == Diversified(order, Candidates(score, exits, keep, only), held \ exits,
                           NHold - Cardinality(held \ exits), corr)
      hold == (held \ exits) \cup ToSet(enter)
  IN  IF DOMAIN score = {} THEN [hold |-> held, enter |-> <<>>, exit |-> {},
                                 weights |-> [of |-> <<>>, capped |-> {}]]
      ELSE [hold |-> hold, enter |-> enter, exit |-> exits, weights |-> Weights(hold, corr)]

(* filter_entries_by_gap                                                   *)
Buys(enter, quiet) == ToSet(enter) \ quiet

-----------------------------------------------------------------------------
Between == [decided |-> FALSE]

Init == entryOnly \in BOOLEAN /\ book \in SUBSET Names /\ session = Between

Session ==
  /\ session = Between
  /\ \E score \in Panels, overlay \in Overlays, corr \in Correlations, quiet \in Quiets :
       LET decision == Decide(book, score, overlay, corr, entryOnly)
       IN  session' = [decided |-> TRUE, score |-> score, overlay |-> overlay, corr |-> corr,
                       decision |-> decision, buys |-> Buys(decision.enter, quiet)]
  /\ UNCHANGED <<entryOnly, book>>

(* Everything bought and sold fills whole; what waits for what, and what   *)
(* comes of a part, is SessionRunner's subject.                            *)
Settle ==
  /\ session # Between /\ session' = Between
  /\ book' = (book \ session.decision.exit) \cup session.buys
  /\ UNCHANGED entryOnly

Next == Session \/ Settle

Spec == Init /\ [][Next]_vars

-----------------------------------------------------------------------------
(* What a decision could have bought and passed over.                      *)
PassedOver(s) ==
  Candidates(s.score, s.decision.exit, Kept(s.score, s.overlay, entryOnly), entryOnly)
    \ s.decision.hold

(* A decision neither overshoots the book nor leaves a slot free that      *)
(* something could take, buys nothing it holds or sells, or twice.         *)
FillsTheBook(s) ==
  LET d == s.decision
      free == NHold - Cardinality(d.hold)
      bought == ToSet(d.enter)
  IN  /\ Len(d.enter) = Cardinality(bought)
      /\ bought \cap (book \cup d.exit) = {}
      /\ bought # {} => free >= 0
      /\ free > 0 => \A n \in PassedOver(s) : \E m \in d.hold : Alike(s.corr, m, n)

(* "The strongest name always gets in, and a weaker one is only displaced  *)
(* if it is too close": what is passed over for a name that ranks below it *)
(* is like something held, or like a purchase that ranks above it.         *)
StrongestFirst(s) ==
  LET value == Value(s.score, s.overlay, FALSE).of
      ties == Ties(s.score, s.overlay)
  IN  \A m \in ToSet(s.decision.enter), n \in PassedOver(s) :
        Beats(value, ties, n, m) =>
          \E b \in s.decision.hold : /\ Alike(s.corr, n, b)
                                     /\ (b \in book \/ Beats(value, ties, b, n))

(* "Skipping any that duplicate a bet already in the book": what is bought *)
(* is like nothing else in the book that results.                          *)
NoBetTwice(s) ==
  \A n \in ToSet(s.decision.enter), m \in s.decision.hold : m # n => ~Alike(s.corr, m, n)

(* "The overlay can never force a sale": entries apart, it changes nothing *)
(* when it is for entries only, and buys nothing outside the daily buffer. *)
OverlayIsForEntries(s) ==
  entryOnly =>
    LET plain == Decide(book, s.score, NoOverlay, s.corr, TRUE)
    IN  /\ s.decision.exit = plain.exit
        /\ Cardinality(s.decision.hold) = Cardinality(plain.hold) \/ s.corr.alike # {}

(* The cap holds for every name at once, and something is left to share    *)
(* what it cuts.                                                           *)
CapHolds(s) ==
  LET w == s.decision.weights
  IN  /\ w.capped # {} => w.capped # DOMAIN w.of
      /\ CapOver < CapUnder /\ DOMAIN w.of # {} /\ Satisfiable(w.of) => OverCap(w.of, w.capped) = {}
      /\ \A n \in w.capped, m \in DOMAIN w.of \ w.capped : w.of[m] <= w.of[n]

(* A session of which nothing could be ranked leaves the book alone.       *)
NothingRankedNothingSold(s) == DOMAIN s.score = {} => s.decision.hold = book /\ s.buys = {}

(* What is decided, bought and sized is what the rules of the engine are   *)
(* for, whatever the panel, the overlay and the estimates.                 *)
RotationIsSound ==
  session # Between =>
    /\ FillsTheBook(session) /\ StrongestFirst(session)
    /\ NoBetTwice(session) /\ OverlayIsForEntries(session)
    /\ CapHolds(session) /\ NothingRankedNothingSold(session)

=============================================================================
