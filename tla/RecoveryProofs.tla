--------------------------- MODULE RecoveryProofs ---------------------------
(***************************************************************************)
(* The components of Recovery for every value of their constants.  Whose   *)
(* shares a lane sells: for any number of lanes, shares and claim writes   *)
(* in flight, whatever stops, refusals, stalls and restarts do.  And the   *)
(* daily-loss check: for every account, limit and window.                  *)
(***************************************************************************)
EXTENDS Recovery, SumTheorems, SequenceTheorems, TLAPS

USE LanesAssumption, BoundsAssumption

Shares == -MaxQty..MaxQty

(* A leg is never beyond what is held, nor further below it than what the  *)
(* account can hold (a restart loses a leg, and later sales go below zero).*)
LegInv == \A l \in Lanes : attr[l] <= hold[l] /\ hold[l] - attr[l] <= MaxQty

(* The last write in flight is no less than the leg: events append what    *)
(* the leg is, and only an unseen stop takes the leg down afterwards.      *)
WritesInv == \A l \in Lanes : pending[l] # <<>> => pending[l][Len(pending[l])] >= attr[l]

Quantities ==
  /\ hold \in [Lanes -> 0..MaxQty] /\ attr \in [Lanes -> Shares]
  /\ claims \in [Lanes -> Shares] /\ sized \in [Lanes -> 0..MaxQty]

Writes ==
  /\ pending \in [Lanes -> Seq(Shares)]
  /\ \A l \in Lanes : Len(pending[l]) <= MaxPending

Names == book \subseteq Lanes /\ elsewhere \subseteq Lanes

IInv == Quantities /\ Writes /\ Names /\ LegInv /\ WritesInv

-----------------------------------------------------------------------------
(* What is held is what the lane holds and what the others hold.           *)
LEMMA AccountSplits ==
  ASSUME IInv, NEW l \in Lanes
  PROVE  /\ Account = hold[l] + Total(hold, Others(l))
         /\ Account \in Nat /\ Total(hold, Others(l)) \in Nat
         /\ hold[l] <= Account
<1>1. \A o \in Lanes : hold[o] \in Nat /\ hold[o] \in Int
  BY DEF IInv, Quantities
<1>2. IsFiniteSet(Others(l)) /\ Others(l) \subseteq Lanes
  BY FS_Subset DEF Others
<1>3. Total(hold, Others(l)) \in Nat
  BY <1>1, <1>2, SumNotNegative DEF Total
<1>4. Account = hold[l] + Total(hold, Others(l))
  BY <1>1, SumSplits DEF Total, Account, Others
<1> QED
  BY <1>1, <1>3, <1>4

LEMMA ClaimsAreWhole ==
  ASSUME IInv, NEW l \in Lanes
  PROVE  Total(claims, Others(l)) \in Int
<1>1. \A o \in Lanes : claims[o] \in Int
  BY DEF IInv, Quantities, Shares
<1>2. IsFiniteSet(Others(l)) /\ Others(l) \subseteq Lanes
  BY FS_Subset DEF Others
<1> QED
  BY <1>1, <1>2, SumInt DEF Total

(* A write that may be handed over leaves room for itself.                 *)
LEMMA RoomForWrite ==
  ASSUME IInv, NEW l \in Lanes,
         Total([o \in Lanes |-> Len(pending[o])], Lanes) < MaxPending
  PROVE  Len(pending[l]) < MaxPending
<1> DEFINE n == [o \in Lanes |-> Len(pending[o])]
<1>1. \A o \in Lanes : n[o] \in Nat
  BY DEF IInv, Writes
<1>2. n[l] <= SumFunctionOnSet(n, Lanes) /\ SumFunctionOnSet(n, Lanes) \in Nat
  <2> HIDE DEF n
  <2> QED
    BY <1>1, PartOfSum, SumNotNegative
<1>3. SumFunctionOnSet(n, Lanes) < MaxPending
  BY DEF Total
<1> QED
  BY <1>1, <1>2, <1>3

(* What a run may sell.                                                    *)
LEMMA SellableBounds ==
  ASSUME IInv, NEW l \in Lanes, NEW claim \in Shares
  PROVE  /\ Sellable(l, claim) \in 0..MaxQty
         /\ Sellable(l, claim) <= (IF claim > 0 THEN claim ELSE 0)
         /\ Attributed(l) /\ Sellable(l, claim) > 0 => Sellable(l, claim) <= attr[l]
         /\ Sellable(l, claim) > 0 =>
              Sellable(l, claim) <= Account - Total(claims, Others(l))
<1>1. Account \in Nat /\ Total(claims, Others(l)) \in Int
  BY AccountSplits, ClaimsAreWhole
<1>2. attr[l] \in Int /\ claim \in Int /\ claim <= MaxQty
  BY DEF IInv, Quantities, Shares
<1> QED
  BY <1>1, <1>2 DEF Sellable, OwnCeiling

-----------------------------------------------------------------------------
LEMMA InitHolds == Init => IInv
  BY DEF Init, IInv, Quantities, Writes, Names, LegInv, WritesInv, Flat, Shares

LEMMA LastIsWhole ==
  ASSUME IInv, NEW l \in Lanes, pending[l] # <<>>
  PROVE  Len(pending[l]) \in 1..Len(pending[l]) /\ pending[l][Len(pending[l])] \in Shares
<1>1. pending[l] \in Seq(Shares) /\ Len(pending[l]) # 0
  BY EmptySeq DEF IInv, Writes
<1>2. Len(pending[l]) \in 1..Len(pending[l])
  BY <1>1
<1> QED
  BY <1>1, <1>2, ElementOfSeq

(* Handing over the write of a leg as it will be.                          *)
LEMMA SyncKeeps ==
  ASSUME IInv, NEW l \in Lanes, NEW q \in Shares, Sync(l, q),
         attr'[l] = q, attr' \in [Lanes -> Shares],
         \A o \in Lanes : o # l => attr'[o] = attr[o]
  PROVE  Writes' /\ WritesInv'
<1>1. pending' = [pending EXCEPT ![l] = Append(@, q)] /\ Len(pending[l]) < MaxPending
  BY RoomForWrite DEF Sync
<1>2. /\ Append(pending[l], q) \in Seq(Shares)
      /\ Len(Append(pending[l], q)) = Len(pending[l]) + 1
      /\ Append(pending[l], q)[Len(pending[l]) + 1] = q
  BY AppendProperties DEF IInv, Writes
<1>3. Len(pending[l]) \in Nat
  BY DEF IInv, Writes
<1>4. Writes'
  BY <1>1, <1>2, <1>3 DEF IInv, Writes
<1>5. WritesInv'
  BY <1>1, <1>2 DEF IInv, WritesInv, Writes, Shares
<1> QED
  BY <1>4, <1>5

(* Taking the oldest write off.                                            *)
LEMMA TailKeeps ==
  ASSUME IInv, NEW l \in Lanes, pending[l] # <<>>,
         pending' = [pending EXCEPT ![l] = Tail(@)], attr' = attr
  PROVE  Writes' /\ WritesInv' /\ Head(pending[l]) \in Shares
<1>1. pending[l] \in Seq(Shares) /\ Len(pending[l]) <= MaxPending
  BY DEF IInv, Writes
<1>2. /\ Tail(pending[l]) \in Seq(Shares) /\ Head(pending[l]) \in Shares
      /\ Len(Tail(pending[l])) = Len(pending[l]) - 1
      /\ \A i \in 1..Len(Tail(pending[l])) : Tail(pending[l])[i] = pending[l][i + 1]
  BY <1>1, HeadTailProperties
<1>3. Writes'
  BY <1>1, <1>2 DEF IInv, Writes
<1>4. WritesInv'
  <2> SUFFICES ASSUME NEW o \in Lanes, pending'[o] # <<>>
               PROVE  pending'[o][Len(pending'[o])] >= attr[o]
    BY DEF WritesInv
  <2>1. CASE o # l
    BY <2>1 DEF IInv, WritesInv, Writes
  <2>2. CASE o = l
    <3>1. pending'[l] = Tail(pending[l])
      BY DEF IInv, Writes
    <3>2. Len(Tail(pending[l])) # 0 /\ Len(Tail(pending[l])) \in Nat /\ Len(pending[l]) \in Nat
      BY <1>1, <1>2, <2>2, <3>1, EmptySeq
    <3>3. Len(Tail(pending[l])) \in 1..Len(Tail(pending[l]))
      <4> DEFINE n == Len(Tail(pending[l]))
      <4>1. n # 0 /\ n \in Nat
        BY <3>2
      <4> HIDE DEF n
      <4>2. n \in 1..n
        BY <4>1
      <4> QED
        BY <4>2 DEF n
    <3>4. Tail(pending[l])[Len(Tail(pending[l]))] = pending[l][Len(pending[l])]
      BY <1>2, <3>2, <3>3
    <3> QED
      BY <2>2, <3>1, <3>4 DEF IInv, WritesInv
  <2> QED
    BY <2>1, <2>2
<1> QED
  BY <1>2, <1>3, <1>4

LEMMA StepKeeps == IInv /\ [Next]_vars => IInv'
<1> SUFFICES ASSUME IInv, [Next]_vars PROVE IInv'
  OBVIOUS
<1> USE DEF Shares
<1>1. CASE UNCHANGED vars
  BY <1>1 DEF vars, IInv, Quantities, Writes, Names, LegInv, WritesInv
<1>2. CASE Restart
  <2>1. PICK lost \in SUBSET {l \in Lanes : attr[l] # 0} :
          attr' = [l \in Lanes |-> IF l \in lost THEN 0 ELSE attr[l]]
    BY <1>2 DEF Restart
  <2>2. UNCHANGED <<hold, claims>> /\ sized' = Flat /\ pending' = [l \in Lanes |-> <<>>]
        /\ book' \subseteq Lanes /\ elsewhere' \subseteq Lanes
    BY <1>2 DEF Restart, IInv, Names
  <2>3. Quantities' /\ LegInv'
    BY <2>1, <2>2 DEF IInv, Quantities, LegInv, Flat
  <2>4. Writes' /\ WritesInv' /\ Names'
    BY <2>2 DEF Writes, WritesInv, Names
  <2> QED
    BY <2>3, <2>4 DEF IInv
<1>3. ASSUME NEW l \in Lanes, Bought(l) PROVE IInv'
  <2>1. hold[l] < MaxQty
    BY <1>3, AccountSplits DEF Bought, IInv, Quantities
  <2>2. /\ hold' = [hold EXCEPT ![l] = @ + 1] /\ attr' = [attr EXCEPT ![l] = @ + 1]
        /\ UNCHANGED <<claims, book, sized, elsewhere>>
    BY <1>3 DEF Bought, Moved
  <2>3. Quantities' /\ LegInv' /\ Names'
    BY <2>1, <2>2 DEF IInv, Quantities, LegInv, Names
  <2>4. Writes' /\ WritesInv'
    <3>1. attr[l] + 1 \in Shares
      BY <2>1 DEF IInv, Quantities, LegInv
    <3> QED
      BY <1>3, <2>2, <2>3, <3>1, SyncKeeps DEF Bought, IInv, Quantities
  <2> QED
    BY <2>3, <2>4 DEF IInv
<1>4. ASSUME NEW l \in Lanes, Moved(l, -1), hold[l] > 0
      PROVE  /\ hold' \in [Lanes -> 0..MaxQty] /\ attr' \in [Lanes -> Shares] /\ LegInv'
             /\ attr[l] - 1 \in Shares /\ attr' = [attr EXCEPT ![l] = attr[l] - 1]
  <2>1. hold' = [hold EXCEPT ![l] = hold[l] - 1] /\ attr' = [attr EXCEPT ![l] = attr[l] - 1]
    BY <1>4 DEF Moved
  <2>2. /\ hold[l] \in 1..MaxQty /\ attr[l] \in Int /\ attr[l] <= hold[l]
        /\ hold[l] - attr[l] <= MaxQty
    BY <1>4 DEF IInv, Quantities, LegInv
  <2>3. attr[l] - 1 \in Shares /\ hold[l] - 1 \in 0..MaxQty
    BY <2>2
  <2> QED
    BY <2>1, <2>2, <2>3 DEF IInv, Quantities, LegInv
<1>5. ASSUME NEW l \in Lanes, Sold(l) PROVE IInv'
  <2>1. Quantities' /\ LegInv' /\ Names'
    BY <1>4, <1>5 DEF Sold, IInv, Quantities, Names
  <2>2. Writes' /\ WritesInv'
    BY <1>4, <1>5, SyncKeeps DEF Sold, IInv, Quantities
  <2> QED
    BY <2>1, <2>2 DEF IInv
<1>6. ASSUME NEW l \in Lanes, Refused(l) PROVE IInv'
  <2>1. Writes' /\ WritesInv'
    BY <1>6, SyncKeeps DEF Refused, IInv, Quantities
  <2> QED
    BY <1>6, <2>1 DEF Refused, IInv, Quantities, LegInv, Names
<1>7. ASSUME NEW l \in Lanes, StopUnseen(l) PROVE IInv'
  <2>1. Quantities' /\ LegInv' /\ Names' /\ Writes'
    BY <1>4, <1>7 DEF StopUnseen, IInv, Quantities, Names, Writes
  <2>2. WritesInv'
    <3> SUFFICES ASSUME NEW o \in Lanes, pending[o] # <<>>
                 PROVE  pending[o][Len(pending[o])] >= attr'[o]
      BY <1>7 DEF StopUnseen, WritesInv
    <3>0. attr' = [attr EXCEPT ![l] = attr[l] - 1]
      BY <1>4, <1>7 DEF StopUnseen
    <3>1. attr'[o] <= attr[o] /\ attr'[o] \in Int /\ attr[o] \in Int
      BY <3>0 DEF IInv, Quantities
    <3>2. pending[o][Len(pending[o])] \in Int /\ pending[o][Len(pending[o])] >= attr[o]
      BY LastIsWhole DEF IInv, WritesInv
    <3> QED
      BY <3>1, <3>2
  <2> QED
    BY <2>1, <2>2 DEF IInv
<1>8. ASSUME NEW l \in Lanes, StopReconciled(l) PROVE IInv'
  <2>1. Quantities' /\ LegInv' /\ Names'
    BY <1>4, <1>8 DEF StopReconciled, IInv, Quantities, Names
  <2>2. Writes' /\ WritesInv'
    BY <1>4, <1>8, SyncKeeps DEF StopReconciled, IInv, Quantities
  <2> QED
    BY <2>1, <2>2 DEF IInv
<1>9. ASSUME NEW l \in Lanes, Land(l) PROVE IInv'
  <2>1. Writes' /\ WritesInv' /\ Head(pending[l]) \in Shares
    BY <1>9, TailKeeps DEF Land
  <2> QED
    BY <1>9, <2>1 DEF Land, IInv, Quantities, LegInv, Names
<1>10. ASSUME NEW l \in Lanes, LoseWrite(l) PROVE IInv'
  <2>1. Writes' /\ WritesInv'
    BY <1>10, TailKeeps DEF LoseWrite
  <2> QED
    BY <1>10, <2>1 DEF LoseWrite, IInv, Quantities, LegInv, Names
<1>11. ASSUME NEW l \in Lanes, OtherSymbol(l) PROVE IInv'
  BY <1>11 DEF OtherSymbol, IInv, Quantities, Writes, WritesInv, LegInv, Names
<1>12. ASSUME NEW l \in Lanes, NEW claim \in Shares, NEW size \in 0..MaxQty,
              Concludes(l, claim, size)
       PROVE  IInv'
  BY <1>12 DEF Concludes, IInv, Quantities, Writes, WritesInv, LegInv, Names
<1>13. ASSUME NEW l \in Lanes, NEW stall \in BOOLEAN, NEW other \in BOOLEAN, Run(l, stall, other)
       PROVE  IInv'
  <2> DEFINE claim == IF Orphan(l) /\ ~stall THEN attr[l] ELSE claims[l]
  <2>1. claim \in Shares
    BY DEF IInv, Quantities
  <2>2. Sellable(l, claim) \in 0..MaxQty /\ 0 \in 0..MaxQty /\ 0 \in Shares
    BY <2>1, SellableBounds
  <2> QED
    BY <1>12, <1>13, <2>1, <2>2 DEF Run
<1>14. ASSUME NEW l \in Lanes, Session(l) PROVE IInv'
  BY <1>13, <1>14 DEF Session, MayStall, Elsewhere
<1>15. ASSUME NEW l \in Lanes, BlankRun(l) PROVE IInv'
  <2>1. claims[l] \in Shares /\ 0 \in 0..MaxQty
    BY DEF IInv, Quantities
  <2> QED
    BY <1>12, <1>15, <2>1 DEF BlankRun
<1> QED
  BY <1>1, <1>2, <1>3, <1>5, <1>6, <1>7, <1>8, <1>9, <1>10, <1>11, <1>14, <1>15 DEF Next

LEMMA Invariant == Spec => []IInv
  BY InitHolds, StepKeeps, PTL DEF Spec

-----------------------------------------------------------------------------
(* The quantities stay within the account and the writes within their      *)
(* bound; a leg is never beyond what its lane holds.                       *)
THEOREM TypeCorrect == Spec => []TypeOK
<1>1. IInv => TypeOK
  BY DEF IInv, Quantities, Writes, Names, LegInv, TypeOK, Shares
<1> QED
  BY <1>1, Invariant, PTL

(* Attribution or the claims: a run never sizes an exit beyond the lane's  *)
(* own shares when the node attributes any position to the lane, or when   *)
(* its neighbours claim all they hold (own_ceiling and the sizing of       *)
(* held_qty), for any number of lanes.                                     *)
LEMMA RunSizesItsOwn ==
  ASSUME IInv, NEW l \in Lanes, NEW claim \in Shares, Sellable(l, claim) > 0,
         Attributed(l) \/ Total(claims, Others(l)) >= Total(hold, Others(l))
  PROVE  Sellable(l, claim) <= hold[l]
<1>1. hold[l] \in Int /\ attr[l] \in Int /\ attr[l] <= hold[l]
  BY DEF IInv, Quantities, LegInv, Shares
<1>2. Sellable(l, claim) \in Int
  BY SellableBounds
<1>3. CASE Attributed(l)
  BY <1>1, <1>2, <1>3, SellableBounds
<1>4. CASE Total(claims, Others(l)) >= Total(hold, Others(l))
  BY <1>1, <1>2, <1>4, SellableBounds, AccountSplits, ClaimsAreWhole
<1> QED
  BY <1>3, <1>4

THEOREM OwnShares == Spec => OwnSharesOnly
<1> DEFINE A == \A l \in Lanes :
                  /\ Sizes(l)
                  /\ Attributed(l) \/ Total(claims, Others(l)) >= Total(hold, Others(l))
                  => sized'[l] <= hold[l]
<1>1. IInv /\ [Next]_vars => [A]_vars
  <2> SUFFICES ASSUME IInv, Next, NEW l \in Lanes, Sizes(l),
                      Attributed(l) \/ Total(claims, Others(l)) >= Total(hold, Others(l))
               PROVE  sized'[l] <= hold[l]
    OBVIOUS
  <2>1. sized \in [Lanes -> 0..MaxQty] /\ sized'[l] > sized[l]
    BY DEF IInv, Quantities, Sizes
  <2>2. ASSUME sized' = sized PROVE FALSE
    BY <2>1, <2>2
  <2>3. ASSUME NEW o \in Lanes, NEW claim \in Shares, NEW size \in 0..MaxQty,
               Concludes(o, claim, size)
        PROVE  o = l /\ sized'[l] = size /\ size > 0
    BY <2>1, <2>3 DEF Concludes
  <2>4. CASE \E o \in Lanes : Session(o)
    <3>1. PICK o \in Lanes, stall \in BOOLEAN, other \in BOOLEAN : Run(o, stall, other)
      BY <2>4 DEF Session, MayStall, Elsewhere
    <3> DEFINE claim == IF Orphan(o) /\ ~stall THEN attr[o] ELSE claims[o]
    <3>2. claim \in Shares /\ 0 \in Shares /\ 0 \in 0..MaxQty
      BY DEF IInv, Quantities, Shares
    <3>3. Sellable(o, claim) \in 0..MaxQty
      BY <3>2, SellableBounds
    <3>4. o = l /\ sized'[l] = Sellable(l, claim) /\ Sellable(l, claim) > 0
      BY <2>3, <3>1, <3>2, <3>3 DEF Run
    <3> QED
      BY <3>2, <3>4, RunSizesItsOwn
  <2>5. CASE \E o \in Lanes : BlankRun(o)
    <3>1. PICK o \in Lanes : Concludes(o, claims[o], 0)
      BY <2>5 DEF BlankRun
    <3>2. claims[o] \in Shares /\ 0 \in 0..MaxQty
      BY DEF IInv, Quantities
    <3> QED
      BY <2>3, <3>1, <3>2
  <2>6. CASE Restart
    BY <2>1, <2>6 DEF Restart, Flat
  <2>7. CASE \E o \in Lanes : Sold(o)
    <3>1. PICK o \in Lanes : sized' = [sized EXCEPT ![o] = @ - 1]
      BY <2>7 DEF Sold
    <3> QED
      BY <2>1, <3>1
  <2>8. CASE \E o \in Lanes : \/ OtherSymbol(o) \/ Bought(o) \/ Refused(o) \/ StopUnseen(o)
                              \/ StopReconciled(o) \/ Land(o) \/ LoseWrite(o)
    BY <2>2, <2>8 DEF OtherSymbol, Bought, Refused, StopUnseen, StopReconciled, Land, LoseWrite
  <2> QED
    BY <2>4, <2>5, <2>6, <2>7, <2>8 DEF Next
<1> QED
  BY <1>1, Invariant, PTL DEF Spec, OwnSharesOnly

(* The claim on shares that are all on the lane's leg goes only when a     *)
(* later write is under way: retire_claims leaves it, and what a terminal  *)
(* answer writes last is not below the leg.                                *)
THEOREM ClaimIsKept == Spec => ClaimKeptWhileAttributed
<1> DEFINE A == \A l \in Lanes : attr[l] = hold[l] => Keeps(l)
<1>1. IInv /\ [Next]_vars => [A]_vars
  <2> SUFFICES ASSUME IInv, Next, NEW l \in Lanes, attr[l] = hold[l],
                      claims[l] > 0, hold[l] > 0
               PROVE  claims'[l] > 0 \/ pending'[l] # <<>>
    BY DEF Keeps
  <2>1. claims \in [Lanes -> Shares] /\ pending \in [Lanes -> Seq(Shares)]
    BY DEF IInv, Quantities, Writes
  <2>2. ASSUME claims' = claims PROVE claims'[l] > 0
    BY <2>2
  <2>3. CASE \E o \in Lanes : Session(o)
    <3>1. PICK o \in Lanes, stall \in BOOLEAN, other \in BOOLEAN : Run(o, stall, other)
      BY <2>3 DEF Session, MayStall, Elsewhere
    <3>2. CASE o # l
      BY <2>1, <3>1, <3>2 DEF Run, Concludes
    <3>3. CASE o = l
      <4>1. ~Orphan(l) /\ ~Disowned(l)
        BY DEF Orphan, Disowned, IInv, Quantities, Shares
      <4>2. ~AccountFlat
        BY AccountSplits DEF AccountFlat, IInv, Quantities
      <4>3. claims'[l] = claims[l]
        BY <2>1, <3>1, <3>3, <4>1, <4>2 DEF Run, Concludes, Retired
      <4> QED
        BY <4>3
    <3> QED
      BY <3>2, <3>3
  <2>4. CASE \E o \in Lanes : BlankRun(o)
    BY <2>1, <2>4 DEF BlankRun, Concludes
  <2>5. CASE \E o \in Lanes : Land(o)
    <3>1. PICK o \in Lanes : Land(o)
      BY <2>5
    <3>2. CASE o # l
      BY <2>1, <3>1, <3>2 DEF Land
    <3>3. CASE o = l
      <4>1. /\ claims'[l] = Head(pending[l]) /\ pending'[l] = Tail(pending[l])
            /\ pending[l] \in Seq(Shares) /\ pending[l] # <<>>
        BY <2>1, <3>1, <3>3 DEF Land
      <4>2. CASE Len(pending[l]) = 1
        <5>1. Head(pending[l]) = pending[l][Len(pending[l])]
          BY <4>1, <4>2, HeadTailProperties
        <5>2. Head(pending[l]) >= attr[l] /\ Head(pending[l]) \in Shares
          BY <4>1, <5>1, LastIsWhole DEF IInv, WritesInv
        <5>3. attr[l] > 0 /\ attr[l] \in Int
          BY DEF IInv, Quantities, Shares
        <5>4. Head(pending[l]) > 0
          BY <5>2, <5>3 DEF Shares
        <5> QED
          BY <4>1, <5>4
      <4>3. CASE Len(pending[l]) # 1
        <5>1. Len(pending[l]) \in Nat \ {0}
          BY <4>1, EmptySeq
        <5>2. Tail(pending[l]) \in Seq(Shares) /\ Len(Tail(pending[l])) = Len(pending[l]) - 1
          BY <4>1, HeadTailProperties
        <5>3. Len(Tail(pending[l])) # 0
          BY <4>3, <5>1, <5>2
        <5> QED
          BY <4>1, <5>3, EmptySeq
      <4> QED
        BY <4>2, <4>3
    <3> QED
      BY <3>2, <3>3
  <2>6. CASE Restart \/ \E o \in Lanes : \/ OtherSymbol(o) \/ Bought(o) \/ Sold(o) \/ Refused(o)
                                         \/ StopUnseen(o) \/ StopReconciled(o) \/ LoseWrite(o)
    BY <2>2, <2>6
       DEF Restart, OtherSymbol, Bought, Sold, Refused, StopUnseen, StopReconciled, LoseWrite
  <2> QED
    BY <2>3, <2>4, <2>5, <2>6 DEF Next
<1> QED
  BY <1>1, Invariant, PTL DEF Spec, ClaimKeptWhileAttributed

-----------------------------------------------------------------------------
(* The daily-loss check.  The scan for a baseline takes the rows of today  *)
(* before all others, so its answer is the newest usable row only because  *)
(* no row of today is older than a row of another day: TodayFirst, which   *)
(* is the strengthening.                                                   *)
USE InstancesAssumption
    DEF Loss!LevelsAssumption, Loss!LossPctAssumption, Loss!WindowAssumption

(* Nothing but the check's own steps touches its state.                    *)
LEMMA LossSteps == (AllInit => Loss!Init) /\ ([AllNext]_allVars => [Loss!Next]_lossVars)
<1>1. AllInit => Loss!Init
  BY DEF AllInit
<1>2. [AllNext]_allVars => [Loss!Next]_lossVars
  BY DEF AllNext, TheLanes, TheLoss, allVars
<1> QED
  BY <1>1, <1>2

TodayFirst == \A i, j \in DOMAIN rows : i < j /\ rows[j].today => rows[i].today

DecisionRow == [today : BOOLEAN, equity : Loss!Recorded]

RowsTyped == rows \in Seq(DecisionRow) /\ equity \in Loss!Readings

LossInv == RowsTyped /\ TodayFirst /\ Loss!MeasuredAgainstNewest

LEMMA RowsAre == ASSUME RowsTyped PROVE \A i \in DOMAIN rows : rows[i] \in DecisionRow
  BY ElementOfSeq DEF RowsTyped

(* The newest usable row is what the scan answers.                         *)
LEMMA ScanAnswers ==
  ASSUME RowsTyped, TodayFirst, NEW k \in DOMAIN rows, Loss!Usable(rows[k].equity),
         \A j \in 1..(k - 1) : ~Loss!Usable(rows[j].equity)
  PROVE  rows[k].equity \in Loss!Baseline
<1>1. DOMAIN rows = 1..Len(rows) /\ Len(rows) \in Nat /\ k \in Int
  BY DEF RowsTyped
<1>2. \A i \in DOMAIN rows : rows[i].today \in BOOLEAN
  BY RowsAre DEF DecisionRow
<1>3. CASE rows[k].today = TRUE
  <2>1. rows[k].equity \in Loss!Newest(TRUE)
    BY <1>3 DEF Loss!Newest
  <2> QED
    BY <2>1 DEF Loss!Baseline
<1>4. CASE rows[k].today = FALSE
  <2>1. rows[k].equity \in Loss!Newest(FALSE)
    BY <1>4 DEF Loss!Newest
  <2>2. ASSUME NEW i \in DOMAIN rows, rows[i].today = TRUE, Loss!Usable(rows[i].equity)
        PROVE  FALSE
    <3>1. i \in Int /\ i >= 1
      BY <1>1
    <3>2. ~(i < k)
      BY <1>1, <2>2, <3>1
    <3>3. i # k
      BY <1>4, <2>2
    <3>4. k < i
      BY <1>1, <3>1, <3>2, <3>3
    <3> QED
      BY <1>4, <2>2, <3>4 DEF TodayFirst
  <2>3. Loss!Newest(TRUE) = {}
    BY <2>2 DEF Loss!Newest
  <2> QED
    BY <2>1, <2>3 DEF Loss!Baseline
<1> QED
  BY <1>2, <1>3, <1>4

LEMMA LossStarts == Loss!Init => LossInv
<1> SUFFICES ASSUME Loss!Init PROVE LossInv
  OBVIOUS
<1>1. PICK n \in 0..Window : rows \in [1..n -> [today : {FALSE}, equity : Loss!Recorded]]
  BY DEF Loss!Init
<1>2. RowsTyped
  <2>1. n \in Nat
    BY InstancesAssumption
  <2>2. rows \in [1..n -> DecisionRow]
    BY <1>1 DEF DecisionRow
  <2>3. rows \in Seq(DecisionRow)
    BY <2>1, <2>2, SeqDef
  <2> QED
    BY <2>3 DEF RowsTyped, Loss!Init
<1>3. TodayFirst
  BY <1>1 DEF TodayFirst
<1>4. Loss!MeasuredAgainstNewest
  BY DEF Loss!Init, Loss!Waiting, Loss!MeasuredAgainstNewest
<1> QED
  BY <1>2, <1>3, <1>4 DEF LossInv

LEMMA LossStep == LossInv /\ [Loss!Next]_lossVars => LossInv'
<1> SUFFICES ASSUME LossInv, [Loss!Next]_lossVars PROVE LossInv'
  OBVIOUS
<1>0. DOMAIN rows = 1..Len(rows) /\ Len(rows) \in Nat
  BY DEF LossInv, RowsTyped
<1> USE DEF LossInv
<1>1. CASE UNCHANGED lossVars
  BY <1>1 DEF lossVars, RowsTyped, TodayFirst, Loss!MeasuredAgainstNewest
<1>2. CASE Loss!Check
  <2>1. UNCHANGED rows
    BY <1>2 DEF Loss!Check
  <2>2. RowsTyped' /\ TodayFirst'
    BY <1>2, <2>1 DEF RowsTyped, TodayFirst, Loss!Check
  <2>3. CASE Loss!Verdict = "proceed"
    <3>1. run' = [step |-> "deciding", now |-> equity]
      BY <1>2, <2>3 DEF Loss!Check, Loss!Proceed
    <3>2. ASSUME NEW k \in DOMAIN rows, LossPct > 0, Loss!Usable(rows[k].equity),
                 \A j \in 1..(k - 1) : ~Loss!Usable(rows[j].equity)
          PROVE  equity # Absent /\ ~Loss!Breach(rows[k].equity, equity)
      <4>1. rows[k].equity \in Loss!Baseline
        BY <3>2, ScanAnswers
      <4>2. LossPct # 0
        BY <3>2, InstancesAssumption
      <4>3. Loss!Baseline # {}
        BY <4>1
      <4>4. equity # Absent
        BY <2>3, <4>2, <4>3 DEF Loss!Verdict
      <4>5. ~\E start \in Loss!Baseline : Loss!Breach(start, equity)
        BY <2>3, <4>2, <4>3, <4>4 DEF Loss!Verdict
      <4> QED
        BY <4>1, <4>4, <4>5
    <3>3. Loss!MeasuredAgainstNewest'
      BY <2>1, <3>1, <3>2 DEF Loss!MeasuredAgainstNewest, Loss!Usable, Loss!Breach
    <3> QED
      BY <2>2, <3>3
  <2>4. CASE Loss!Verdict # "proceed"
    <3>1. UNCHANGED run
      BY <1>2, <2>4 DEF Loss!Check, Loss!Halt
    <3> QED
      BY <2>1, <2>2, <3>1 DEF Loss!MeasuredAgainstNewest
  <2> QED
    BY <2>3, <2>4
<1>3. CASE Loss!Shadow
  <2>1. UNCHANGED <<rows, equity>> /\ run'.step = "shadow"
    BY <1>3 DEF Loss!Shadow
  <2> QED
    BY <2>1 DEF RowsTyped, TodayFirst, Loss!MeasuredAgainstNewest
<1>4. CASE Loss!Decide
  <2> DEFINE row == [today |-> TRUE, equity |-> equity]
             all == <<row>> \o rows
             n == IF Len(all) < Window THEN Len(all) ELSE Window
  <2>1. rows' = SubSeq(all, 1, n) /\ run'.step = "idle" /\ equity' = equity
    BY <1>4 DEF Loss!Decide, Loss!Waiting
  <2>2. row \in DecisionRow
    BY DEF RowsTyped, DecisionRow, Loss!Readings, Loss!Recorded
  <2>3. <<row>> \in Seq(DecisionRow) /\ Len(<<row>>) = 1 /\ <<row>>[1] = row
    BY <2>2
  <2>4. /\ Len(all) = 1 + Len(rows)
        /\ all \in Seq(DecisionRow)
        /\ \A i \in 1..(1 + Len(rows)) : all[i] = IF i <= 1 THEN <<row>>[i] ELSE rows[i - 1]
    BY <2>3, ConcatProperties DEF RowsTyped
  <2>5. n \in Nat /\ n <= 1 + Len(rows)
    BY <1>0, <2>4, InstancesAssumption
  <2>6. \A i \in 1..n : all[i] \in DecisionRow
    <3> HIDE DEF all, n
    <3>1. 1..n \subseteq 1..Len(all)
      BY <1>0, <2>4, <2>5
    <3> QED
      BY <2>4, <3>1, ElementOfSeq
  <2> HIDE DEF all, n
  <2>7. /\ rows' \in Seq(DecisionRow) /\ Len(rows') = n
        /\ \A i \in 1..n : rows'[i] = all[i]
    <3>1. /\ SubSeq(all, 1, n) \in Seq(DecisionRow)
          /\ Len(SubSeq(all, 1, n)) = IF 1 <= n THEN n - 1 + 1 ELSE 0
          /\ \A i \in 1..(n - 1 + 1) : SubSeq(all, 1, n)[i] = all[1 + i - 1]
      BY <2>5, <2>6, SubSeqProperties
    <3> QED
      BY <2>1, <2>5, <3>1
  <2>8. \A i \in 1..n : rows'[i] = IF i = 1 THEN row ELSE rows[i - 1]
    BY <2>3, <2>4, <2>5, <2>7
  <2>9. DOMAIN rows' = 1..n
    BY <2>7
  <2>10. TodayFirst'
    <3> SUFFICES ASSUME NEW i \in 1..n, NEW j \in 1..n, i < j, rows'[j].today
                 PROVE  rows'[i].today
      BY <2>9 DEF TodayFirst
    <3>1. CASE i = 1
      BY <2>8, <3>1
    <3>2. CASE i # 1
      <4>1. i - 1 \in DOMAIN rows /\ j - 1 \in DOMAIN rows /\ i - 1 < j - 1
        BY <1>0, <2>5, <3>2
      <4>2. rows'[i] = rows[i - 1] /\ rows'[j] = rows[j - 1]
        BY <2>8, <3>2
      <4> QED
        BY <4>1, <4>2 DEF TodayFirst
    <3> QED
      BY <3>1, <3>2
  <2> QED
    BY <2>1, <2>7, <2>10 DEF RowsTyped, Loss!MeasuredAgainstNewest
<1>5. CASE Loss!Return
  <2>1. UNCHANGED <<rows, equity>> /\ run'.step = "idle"
    BY <1>5 DEF Loss!Return, Loss!Waiting
  <2> QED
    BY <2>1 DEF RowsTyped, TodayFirst, Loss!MeasuredAgainstNewest
<1>6. CASE Loss!NextSession
  <2>1. run'.step = "idle"
    BY <1>6 DEF Loss!NextSession
  <2>2. rows' = [i \in DOMAIN rows |-> [rows[i] EXCEPT !.today = FALSE]]
    BY <1>6 DEF Loss!NextSession
  <2>3. RowsTyped'
    <3>1. \A i \in 1..Len(rows) : [rows[i] EXCEPT !.today = FALSE] \in DecisionRow
      BY <1>0, RowsAre DEF DecisionRow
    <3>2. rows' \in [1..Len(rows) -> DecisionRow]
      BY <1>0, <2>2, <3>1
    <3>3. rows' \in Seq(DecisionRow)
      BY <1>0, <3>2, SeqDef
    <3> QED
      BY <1>6, <3>3 DEF RowsTyped, Loss!NextSession
  <2>4. TodayFirst'
    BY <1>0, <2>2, RowsAre DEF TodayFirst, DecisionRow
  <2> QED
    BY <2>1, <2>3, <2>4 DEF Loss!MeasuredAgainstNewest
<1>7. CASE Loss!EquityMoves
  BY <1>7 DEF Loss!EquityMoves, RowsTyped, TodayFirst, Loss!MeasuredAgainstNewest
<1>8. CASE \E s \in Loss!LaneStates : Loss!OperatorSets(s)
  BY <1>8 DEF Loss!OperatorSets, RowsTyped, TodayFirst, Loss!MeasuredAgainstNewest
<1> QED
  BY <1>1, <1>2, <1>3, <1>4, <1>5, <1>6, <1>7, <1>8 DEF Loss!Next

(* A run that may trade was checked within the limit of the newest usable  *)
(* equity its lane recorded, for every limit, window and number of slots:  *)
(* no unusable row disarms the limit (enforce, baseline).                  *)
THEOREM Measured == AllSpec => []MeasuredAgainstNewest
<1>1. Loss!Init => LossInv
  BY LossStarts
<1>2. LossInv /\ [Loss!Next]_lossVars => LossInv'
  BY LossStep
<1>3. LossInv => MeasuredAgainstNewest
  BY DEF LossInv, MeasuredAgainstNewest
<1> QED
  BY <1>1, <1>2, <1>3, LossSteps, PTL DEF AllSpec

-----------------------------------------------------------------------------
(* Types.  A decision adds a row and cuts the list to the window.          *)

LEMMA RowsKept ==
  ASSUME Loss!TypeOK, Loss!Decide
  PROVE  Len(rows') <= Window
<1> DEFINE all == <<[today |-> TRUE, equity |-> equity]>> \o rows
           n == IF Len(all) < Window THEN Len(all) ELSE Window
<1>1. rows' = SubSeq(all, 1, n)
  BY DEF Loss!Decide
<1>2. all \in Seq(DecisionRow) /\ Len(all) = 1 + Len(rows) /\ Len(rows) \in Nat
  BY ConcatProperties DEF Loss!TypeOK, DecisionRow, Loss!Readings, Loss!Recorded
<1> HIDE DEF all
<1>3. n \in Nat /\ n <= Window /\ n <= Len(all) /\ Window \in Nat
  BY <1>2, InstancesAssumption
<1>4. \A i \in 1..n : all[i] \in DecisionRow
  <2> SUFFICES ASSUME NEW i \in 1..n PROVE all[i] \in DecisionRow
    OBVIOUS
  <2>1. i \in 1..Len(all)
    BY <1>2, <1>3
  <2> QED
    BY <1>2, <2>1, ElementOfSeq
<1>5. Len(SubSeq(all, 1, n)) = IF 1 <= n THEN n - 1 + 1 ELSE 0
  BY <1>3, <1>4, SubSeqProperties
<1> QED
  BY <1>1, <1>3, <1>5

LEMMA BaselineTyped ==
  ASSUME RowsTyped, NEW e \in Loss!Baseline
  PROVE  e \in Loss!Readings
<1>1. PICK k \in DOMAIN rows : rows[k].equity = e /\ Loss!Usable(e)
  BY DEF Loss!Baseline, Loss!Newest
<1>2. rows[k] \in DecisionRow
  BY RowsAre
<1> QED
  BY <1>1, <1>2 DEF DecisionRow, Loss!Recorded, Loss!Readings, Loss!Usable

LEMMA LossStepTypes == Loss!TypeOK /\ LossInv' /\ [Loss!Next]_lossVars => Loss!TypeOK'
<1> SUFFICES ASSUME Loss!TypeOK, LossInv', [Loss!Next]_lossVars PROVE Loss!TypeOK'
  OBVIOUS
<1>1. RowsTyped'
  BY DEF LossInv
<1>2. Loss!Waiting \in [step : {"idle", "deciding", "shadow"}, now : Loss!Readings]
  BY DEF Loss!Waiting, Loss!Readings
<1>3. Len(rows') <= Window
  <2>1. CASE Loss!Decide
    BY <2>1, RowsKept
  <2>2. CASE Loss!NextSession
    <3>1. DOMAIN rows' = DOMAIN rows
      BY <2>2 DEF Loss!NextSession
    <3>2. Len(rows') = Len(rows)
      BY <1>1, <3>1, LenProperties DEF RowsTyped, Loss!TypeOK
    <3> QED
      BY <3>2 DEF Loss!TypeOK
  <2>3. CASE UNCHANGED rows
    BY <2>3 DEF Loss!TypeOK
  <2> QED
    BY <2>1, <2>2, <2>3
      
          DEF Loss!Next, lossVars, Loss!Check, Loss!Shadow, Loss!Return, Loss!EquityMoves,
              Loss!OperatorSets
<1>7. breached' \in Loss!Readings
  <2>1. CASE Loss!Check
    <3>1. RowsTyped
      BY DEF Loss!TypeOK, RowsTyped, DecisionRow
    <3>2. breached' \in Loss!Baseline \/ breached' = breached
      BY <2>1 DEF Loss!Check, Loss!Proceed, Loss!Halt
    <3> QED
      BY <3>1, <3>2, BaselineTyped DEF Loss!TypeOK
  <2>2. CASE Loss!Decide
    BY <2>2 DEF Loss!Decide, Loss!Readings
  <2>3. CASE UNCHANGED breached
    BY <2>3 DEF Loss!TypeOK
  <2> QED
    BY <2>1, <2>2, <2>3
       DEF Loss!Next, lossVars, Loss!Shadow, Loss!Return, Loss!NextSession, Loss!EquityMoves,
           Loss!OperatorSets
<1>4. lifecycle' \in Loss!LaneStates /\ stored' \in Loss!LaneStates
  BY DEF Loss!TypeOK, Loss!Next, lossVars, Loss!Check, Loss!Proceed, Loss!Halt, Loss!Shadow,
         Loss!Decide, Loss!Return, Loss!NextSession,
         Loss!EquityMoves, Loss!OperatorSets, Loss!LaneStates
<1>5. decided' \in 0..SlotsADay
  BY InstancesAssumption
     DEF Loss!TypeOK, Loss!Next, lossVars, Loss!Check, Loss!Shadow, Loss!Decide, Loss!Return,
         Loss!NextSession,
         Loss!EquityMoves, Loss!OperatorSets
<1>6. run' \in [step : {"idle", "deciding", "shadow"}, now : Loss!Readings]
  BY <1>2
     DEF Loss!TypeOK, Loss!Next, lossVars, Loss!Check, Loss!Proceed, Loss!Halt, Loss!Shadow,
         Loss!Decide, Loss!Return, Loss!NextSession,
              Loss!EquityMoves, Loss!OperatorSets, Loss!Readings
<1> QED
  BY <1>1, <1>3, <1>4, <1>5, <1>6, <1>7 DEF Loss!TypeOK, RowsTyped, DecisionRow

(* The rows stay rows of decisions, as many as tail() returns, and a lane  *)
(* is in one of its states, for every window and number of slots.          *)
THEOREM LossTypes == AllSpec => []Loss!TypeOK
<1>1. Loss!Init => Loss!TypeOK
  <2> SUFFICES ASSUME Loss!Init PROVE Loss!TypeOK
    OBVIOUS
  <2>1. PICK n \in 0..Window : rows \in [1..n -> [today : {FALSE}, equity : Loss!Recorded]]
    BY DEF Loss!Init
  <2>2. RowsTyped
    BY LossStarts DEF LossInv
  <2>3. n \in Nat /\ n <= Window /\ DOMAIN rows = 1..n
    BY <2>1, InstancesAssumption
  <2>4. Len(rows) = n
    BY <2>2, <2>3, LenProperties DEF RowsTyped
  <2>5. run \in [step : {"idle", "deciding", "shadow"},
  now : Loss!Readings] /\ decided \in 0..SlotsADay
    BY InstancesAssumption DEF Loss!Init, Loss!Waiting, Loss!Readings
  <2>6. Len(rows) <= Window /\ rows \in Seq([today : BOOLEAN, equity : Loss!Recorded])
    BY <2>2, <2>3, <2>4 DEF RowsTyped, DecisionRow
  <2> QED
    BY <2>5, <2>6 DEF Loss!Init, Loss!TypeOK, Loss!LaneStates, Loss!Readings
<1> QED
  BY <1>1, LossStarts, LossStep, LossStepTypes, LossSteps, PTL DEF AllSpec

-----------------------------------------------------------------------------
(* A halt that was never saved.  Until a decision is on record the equity  *)
(* it measured against stays the newest usable one, which is what the next *)
(* run is checked against (Measured).                                      *)
StillNewest ==
  breached # Absent => LossPct > 0 /\
    \E k \in DOMAIN rows :
      /\ Loss!Usable(rows[k].equity) /\ rows[k].equity = breached
      /\ \A j \in 1..(k - 1) : ~Loss!Usable(rows[j].equity)

(* A usable row of today means a newest one.                               *)
LEMMA NewestOfToday ==
  ASSUME RowsTyped, NEW i \in DOMAIN rows, rows[i].today = TRUE, Loss!Usable(rows[i].equity)
  PROVE  Loss!Newest(TRUE) # {}
<1> DEFINE good == {k \in DOMAIN rows : rows[k].today = TRUE /\ Loss!Usable(rows[k].equity)}
<1>1. DOMAIN rows = 1..Len(rows) /\ Len(rows) \in Nat
  BY DEF RowsTyped
<1>2. good \subseteq Nat /\ good # {}
  BY <1>1
<1> HIDE DEF good
<1>3. PICK k \in good : \A j \in good : ~(j < k)
  <2>1. PICK k \in good : \A j \in good : ~(<<j, k>> \in OpToRel(<, Nat))
    BY <1>2, NatLessThanWellFounded, WFMin
  <2> QED
    BY <1>2, <2>1 DEF OpToRel
<1>4. \A j \in 1..(k - 1) : ~(rows[j].today = TRUE /\ Loss!Usable(rows[j].equity))
  <2> SUFFICES ASSUME NEW j \in 1..(k - 1), rows[j].today = TRUE, Loss!Usable(rows[j].equity)
               PROVE  FALSE
    OBVIOUS
  <2>1. j \in Int /\ k \in Int /\ j < k /\ j \in DOMAIN rows
    BY <1>1, <1>3 DEF good
  <2>2. j \in good
    BY <2>1 DEF good
  <2> QED
    BY <1>3, <2>1, <2>2
<1>5. rows[k].equity \in Loss!Newest(TRUE)
  BY <1>3, <1>4 DEF Loss!Newest, good
<1> QED
  BY <1>5

(* What the scan answers is the newest usable row of any day.              *)
LEMMA ScanIsNewest ==
  ASSUME RowsTyped, TodayFirst, NEW e \in Loss!Baseline
  PROVE  \E k \in DOMAIN rows :
           /\ Loss!Usable(rows[k].equity) /\ rows[k].equity = e
           /\ \A j \in 1..(k - 1) : ~Loss!Usable(rows[j].equity)
<1>1. DOMAIN rows = 1..Len(rows) /\ Len(rows) \in Nat
  BY DEF RowsTyped
<1>2. \A i \in DOMAIN rows : rows[i].today \in BOOLEAN
  BY RowsAre DEF DecisionRow
<1>3. CASE Loss!Newest(TRUE) # {}
  <2>1. PICK k \in DOMAIN rows :
          /\ rows[k].today = TRUE /\ Loss!Usable(rows[k].equity) /\ rows[k].equity = e
          /\ \A j \in 1..(k - 1) : rows[j].today = TRUE => ~Loss!Usable(rows[j].equity)
    BY <1>3 DEF Loss!Baseline, Loss!Newest
  <2>2. ASSUME NEW j \in 1..(k - 1) PROVE rows[j].today = TRUE
    <3>1. j \in DOMAIN rows /\ j < k
      BY <1>1, <2>2
    <3> QED
      BY <1>2, <2>1, <3>1 DEF TodayFirst
  <2> QED
    BY <2>1, <2>2
<1>4. CASE Loss!Newest(TRUE) = {}
  <2>1. PICK k \in DOMAIN rows :
          /\ Loss!Usable(rows[k].equity) /\ rows[k].equity = e
          /\ \A j \in 1..(k - 1) : rows[j].today = FALSE => ~Loss!Usable(rows[j].equity)
    BY <1>4 DEF Loss!Baseline, Loss!Newest
  <2>2. ASSUME NEW i \in DOMAIN rows, rows[i].today = TRUE, Loss!Usable(rows[i].equity)
        PROVE  Loss!Newest(TRUE) # {}
    BY <2>2, <1>1, NewestOfToday
  <2>3. \A j \in 1..(k - 1) : j \in DOMAIN rows
    BY <1>1
  <2> QED
    BY <1>2, <1>4, <2>1, <2>2, <2>3
<1> QED
  BY <1>3, <1>4

LEMMA Unmoved == StillNewest /\ UNCHANGED <<rows, breached>> => StillNewest'
  BY DEF StillNewest

LEMMA NewestStays == LossInv /\ StillNewest /\ [Loss!Next]_lossVars => StillNewest'
<1> SUFFICES ASSUME LossInv, StillNewest, [Loss!Next]_lossVars PROVE StillNewest'
  OBVIOUS
<1>1. CASE Loss!Check
  <2>1. UNCHANGED rows
    BY <1>1 DEF Loss!Check
  <2>2. CASE Loss!Verdict = "halt"
    <3>1. breached' \in Loss!Baseline
      BY <1>1, <2>2 DEF Loss!Check, Loss!Halt
    <3>2. LossPct > 0
      BY <2>2, InstancesAssumption DEF Loss!Verdict
    <3> QED
      BY <2>1, <3>1, <3>2, ScanIsNewest DEF LossInv, StillNewest
  <2>3. CASE Loss!Verdict # "halt"
    <3>1. UNCHANGED breached
      BY <1>1, <2>3 DEF Loss!Check, Loss!Proceed
    <3> QED
      BY <2>1, <3>1, Unmoved
  <2> QED
    BY <2>2, <2>3
<1>2. CASE Loss!Decide
  BY <1>2 DEF Loss!Decide, StillNewest
<1>3. CASE Loss!NextSession
  <2>1. UNCHANGED breached /\ rows' = [i \in DOMAIN rows |-> [rows[i] EXCEPT !.today = FALSE]]
    BY <1>3 DEF Loss!NextSession
  <2>2. DOMAIN rows = 1..Len(rows) /\ Len(rows) \in Nat
    BY DEF LossInv, RowsTyped
  <2>3. \A i \in DOMAIN rows : rows'[i].equity = rows[i].equity
    BY <2>1, RowsAre DEF LossInv, DecisionRow
  <2>4. \A k \in DOMAIN rows : \A j \in 1..(k - 1) : j \in DOMAIN rows
    BY <2>2
  <2> QED
    BY <2>1, <2>3, <2>4 DEF StillNewest, Loss!Usable
<1>4. CASE UNCHANGED <<rows, breached>>
  BY <1>4, Unmoved
<1> QED
  BY <1>1, <1>2, <1>3, <1>4
     DEF Loss!Next, lossVars, Loss!Shadow, Loss!Return, Loss!EquityMoves, Loss!OperatorSets

LEMMA NewestHolds == LossInv /\ StillNewest => BreachStands
<1> SUFFICES ASSUME LossInv, StillNewest, run.step = "deciding", breached # Absent
             PROVE  run.now # Absent /\ ~Loss!Breach(breached, run.now)
  BY DEF BreachStands, Loss!BreachStands
<1>1. PICK k \in DOMAIN rows :
        /\ Loss!Usable(rows[k].equity) /\ rows[k].equity = breached
        /\ \A j \in 1..(k - 1) : ~Loss!Usable(rows[j].equity)
  BY DEF StillNewest
<1>2. LossPct > 0
  BY DEF StillNewest
<1>3. Loss!MeasuredAgainstNewest
  BY DEF LossInv
<1>4. run.now # Absent /\ ~Loss!Breach(rows[k].equity, run.now)
  BY <1>1, <1>2, <1>3, Zenon DEF Loss!MeasuredAgainstNewest
<1> QED
  BY <1>1, <1>4

(* A breach stands, for any account, limit, window and number of slots:    *)
(* from a halt until a decision is on record, no run trades but within the *)
(* limit of the equity that the halt measured against, whether the halt    *)
(* was saved, said and left alone by the operator, or not (enforce).       *)
THEOREM HaltHolds == AllSpec => []BreachStands
<1>1. Loss!Init => LossInv /\ StillNewest
  BY LossStarts DEF Loss!Init, StillNewest
<1>2. LossInv /\ StillNewest /\ [Loss!Next]_lossVars => (LossInv /\ StillNewest)'
  BY LossStep, NewestStays
<1> QED
  BY <1>1, <1>2, NewestHolds, LossSteps, PTL DEF AllSpec

=============================================================================
