---------------------------- MODULE SumTheorems ----------------------------
(***************************************************************************)
(* Laws of finite sets and of what is computed over them.  The models use  *)
(* SumFunctionOnSet for what several lanes hold together: a fold that      *)
(* takes the elements of a set in an order nobody knows.  SumUnfolds says  *)
(* that the recursion is well defined, SumSplits that the order does not   *)
(* matter.  FoldExists says the first of any fold, Numbered that a strict  *)
(* total order numbers its elements.  The inductions are over the subsets  *)
(* of a finite set, by a smallest set without the property.                *)
(***************************************************************************)
EXTENDS Integers, FiniteSets, Functions, FiniteSetTheorems, TLAPS

(* The element the fold takes first, its step, and what it computes for a  *)
(* set: a function of the subsets.                                         *)
Pick(s) == CHOOSE x \in s : TRUE
Step(q, g, s) == IF s = {} THEN 0 ELSE q[Pick(s)] + g[s \ {Pick(s)}]
Iter(q, S) == CHOOSE g : g = [s \in SUBSET S |-> Step(q, g, s)]

(* Whether there is such a function.                                       *)
Computes(q, T) == Iter(q, T) = [s \in SUBSET T |-> Step(q, Iter(q, T), s)]

-----------------------------------------------------------------------------
(* The sum is the fold, as the community modules define it.                *)
LEMMA SumIs == \A q, S : SumFunctionOnSet(q, S) = Iter(q, S)[S]
  BY DEF SumFunctionOnSet, FoldFunctionOnSet, MapThenFoldSet, Iter, Step, Pick

(* Among subsets of a finite set one is smallest.                          *)
LEMMA Smallest ==
  ASSUME NEW S, IsFiniteSet(S), NEW F, F \subseteq SUBSET S, F # {}
  PROVE  \E T \in F : \A U \in F : U \subseteq T => U = T
<1>1. IsWellFoundedOn(StrictSubsetOrdering(S), SUBSET S)
  BY FS_StrictSubsetOrderingWellFounded, FS_FiniteSubsetsOfFinite
<1>2. PICK T \in F : \A U \in F : <<U, T>> \notin StrictSubsetOrdering(S)
  BY <1>1, WFMin
<1> QED
  BY <1>2 DEF StrictSubsetOrdering

(* A function that is computed obeys its equation.                         *)
LEMMA Unfold ==
  ASSUME NEW q, NEW T, Computes(q, T)
  PROVE  \A s \in SUBSET T :
           Iter(q, T)[s] = IF s = {} THEN 0 ELSE q[Pick(s)] + Iter(q, T)[s \ {Pick(s)}]
  BY DEF Computes, Step

(* What is picked is of the set.                                           *)
LEMMA PickIn == \A s : s # {} => Pick(s) \in s
  BY DEF Pick

(* The folds of a set and of a subset agree on what both are defined for.  *)
LEMMA Agree ==
  ASSUME NEW q, NEW T, IsFiniteSet(T), NEW U \in SUBSET T, Computes(q, T), Computes(q, U)
  PROVE  \A s \in SUBSET U : Iter(q, U)[s] = Iter(q, T)[s]
<1> DEFINE Bad == {s \in SUBSET U : Iter(q, U)[s] # Iter(q, T)[s]}
<1> SUFFICES ASSUME Bad # {} PROVE FALSE
  OBVIOUS
<1>1. Bad \subseteq SUBSET T
  OBVIOUS
<1>2. PICK s \in Bad : \A r \in Bad : r \subseteq s => r = s
  <2> HIDE DEF Bad
  <2> QED
    BY <1>1, Smallest
<1>3. s \in SUBSET U /\ s \in SUBSET T /\ Iter(q, U)[s] # Iter(q, T)[s]
  OBVIOUS
<1>4. s # {}
  BY <1>3, Unfold
<1>5. Pick(s) \in s
  BY <1>4, PickIn
<1>6. s \ {Pick(s)} \notin Bad
  BY <1>2, <1>5
<1>7. Iter(q, U)[s \ {Pick(s)}] = Iter(q, T)[s \ {Pick(s)}]
  BY <1>3, <1>6
<1>8. Iter(q, U)[s] = q[Pick(s)] + Iter(q, U)[s \ {Pick(s)}]
  BY <1>3, <1>4, Unfold
<1>9. Iter(q, T)[s] = q[Pick(s)] + Iter(q, T)[s \ {Pick(s)}]
  BY <1>3, <1>4, Unfold
<1> QED
  BY <1>3, <1>7, <1>8, <1>9

(* A finite set has its fold: that of the smallest set without one would   *)
(* be put together from those of its subsets.                              *)
LEMMA AlwaysComputes ==
  ASSUME NEW q, NEW S, IsFiniteSet(S)
  PROVE  Computes(q, S)
<1> DEFINE Bad == {T \in SUBSET S : ~Computes(q, T)}
<1> SUFFICES ASSUME Bad # {} PROVE FALSE
  OBVIOUS
<1>1. PICK T \in Bad : \A U \in Bad : U \subseteq T => U = T
  <2>1. Bad \subseteq SUBSET S
    OBVIOUS
  <2> HIDE DEF Bad
  <2> QED
    BY <2>1, Smallest
<1>2. \A U \in SUBSET T : U # T => Computes(q, U)
  BY <1>1
<1>3. \A U \in SUBSET T : IsFiniteSet(U)
  BY FS_Subset
<1> DEFINE h == [s \in SUBSET T |-> IF s = {} THEN 0
                                   ELSE q[Pick(s)] + Iter(q, s \ {Pick(s)})[s \ {Pick(s)}]]
<1>4. \A s \in SUBSET T : s # {} => s \ {Pick(s)} \in SUBSET T /\ s \ {Pick(s)} # T
  BY PickIn
<1>5. ASSUME NEW s \in SUBSET T, s # {}
      PROVE  h[s \ {Pick(s)}] = Iter(q, s \ {Pick(s)})[s \ {Pick(s)}]
  <2> DEFINE u == s \ {Pick(s)}
  <2>1. u \in SUBSET T /\ Computes(q, u)
    BY <1>2, <1>4, <1>5
  <2>2. CASE u = {}
    BY <2>1, <2>2, Unfold
  <2>3. CASE u # {}
    <3> DEFINE v == u \ {Pick(u)}
    <3>1. v \in SUBSET u /\ v \in SUBSET T /\ Computes(q, v)
      BY <1>2, <1>4, <2>1, <2>3
    <3>2. Iter(q, v)[v] = Iter(q, u)[v]
      BY <1>3, <2>1, <3>1, Agree
    <3>3. Iter(q, u)[u] = q[Pick(u)] + Iter(q, u)[v]
      <4> HIDE DEF u
      <4>1. u \in SUBSET u /\ Computes(q, u)
        BY <2>1
      <4> QED
        BY <2>3, <4>1, Unfold
    <3>4. h[u] = q[Pick(u)] + Iter(q, v)[v]
      BY <2>1, <2>3
    <3> QED
      BY <3>2, <3>3, <3>4
  <2> QED
    BY <2>2, <2>3
<1>6. h = [s \in SUBSET T |-> Step(q, h, s)]
  <2>1. \A s \in SUBSET T : h[s] = Step(q, h, s)
    BY <1>5 DEF Step
  <2> QED
    BY <2>1
<1>7. Computes(q, T)
  <2> HIDE DEF h
  <2> QED
    BY <1>6 DEF Computes, Iter
<1> QED
  BY <1>7

(* The sum, one element at a time.                                         *)
LEMMA SumUnfolds ==
  ASSUME NEW q, NEW S, IsFiniteSet(S)
  PROVE  SumFunctionOnSet(q, S) =
           IF S = {} THEN 0 ELSE q[Pick(S)] + SumFunctionOnSet(q, S \ {Pick(S)})
<1>1. Computes(q, S)
  BY AlwaysComputes
<1>2. CASE S = {}
  BY <1>1, <1>2, Unfold, SumIs
<1>3. CASE S # {}
  <2> DEFINE U == S \ {Pick(S)}
  <2>1. U \in SUBSET S /\ IsFiniteSet(U) /\ Computes(q, U)
    BY FS_Subset, AlwaysComputes
  <2>2. Iter(q, U)[U] = Iter(q, S)[U]
    BY <1>1, <2>1, Agree
  <2>3. Iter(q, S)[S] = q[Pick(S)] + Iter(q, S)[U]
    <3>1. S \in SUBSET S
      OBVIOUS
    <3> QED
      BY <1>1, <1>3, <3>1, Unfold
  <2> QED
    BY <1>3, <2>2, <2>3, SumIs
<1> QED
  BY <1>2, <1>3

(* Whole numbers have a whole sum.                                         *)
LEMMA SumInt ==
  ASSUME NEW q, NEW S, IsFiniteSet(S), \A x \in S : q[x] \in Int
  PROVE  SumFunctionOnSet(q, S) \in Int
<1> DEFINE Bad == {T \in SUBSET S : SumFunctionOnSet(q, T) \notin Int}
<1> SUFFICES ASSUME Bad # {} PROVE FALSE
  OBVIOUS
<1>1. PICK T \in Bad : \A U \in Bad : U \subseteq T => U = T
  <2>1. Bad \subseteq SUBSET S
    OBVIOUS
  <2> HIDE DEF Bad
  <2> QED
    BY <2>1, Smallest
<1>2. IsFiniteSet(T)
  BY FS_Subset
<1>3. T # {}
  <2> SUFFICES ASSUME T = {} PROVE FALSE
    OBVIOUS
  <2>1. SumFunctionOnSet(q, T) = 0
    BY <1>2, SumUnfolds
  <2> QED
    BY <2>1
<1>4. Pick(T) \in T
  BY <1>3, PickIn
<1>5. SumFunctionOnSet(q, T \ {Pick(T)}) \in Int
  BY <1>1, <1>4
<1> QED
  BY <1>2, <1>3, <1>4, <1>5, SumUnfolds

(* Any element may be taken out first.                                     *)
LEMMA SumSplits ==
  ASSUME NEW q, NEW S, IsFiniteSet(S), \A x \in S : q[x] \in Int, NEW y \in S
  PROVE  SumFunctionOnSet(q, S) = q[y] + SumFunctionOnSet(q, S \ {y})
<1> DEFINE Splits(T) ==
      \A x \in T : SumFunctionOnSet(q, T) = q[x] + SumFunctionOnSet(q, T \ {x})
           Bad == {T \in SUBSET S : ~Splits(T)}
<1> SUFFICES ASSUME Bad # {} PROVE FALSE
  OBVIOUS
<1>1. PICK T \in Bad : \A U \in Bad : U \subseteq T => U = T
  <2>1. Bad \subseteq SUBSET S
    OBVIOUS
  <2> HIDE DEF Bad
  <2> QED
    BY <2>1, Smallest
<1>2. PICK x \in T : SumFunctionOnSet(q, T) # q[x] + SumFunctionOnSet(q, T \ {x})
  OBVIOUS
<1>3. IsFiniteSet(T) /\ T # {}
  BY FS_Subset
<1> DEFINE p == Pick(T)
<1>4. p \in T /\ p \in S /\ x \in S
  BY <1>3, PickIn
<1>5. SumFunctionOnSet(q, T) = q[p] + SumFunctionOnSet(q, T \ {p})
  BY <1>3, SumUnfolds
<1>6. x # p
  BY <1>2, <1>5
<1>7. Splits(T \ {p}) /\ Splits(T \ {x})
  BY <1>1, <1>4
<1>8. SumFunctionOnSet(q, T \ {p}) = q[x] + SumFunctionOnSet(q, (T \ {p}) \ {x})
  BY <1>6, <1>7
<1>9. SumFunctionOnSet(q, T \ {x}) = q[p] + SumFunctionOnSet(q, (T \ {x}) \ {p})
  BY <1>4, <1>6, <1>7
<1>10. (T \ {p}) \ {x} = (T \ {x}) \ {p}
  OBVIOUS
<1>11. /\ q[x] \in Int /\ q[p] \in Int
       /\ IsFiniteSet((T \ {p}) \ {x})
       /\ SumFunctionOnSet(q, (T \ {p}) \ {x}) \in Int
  <2>1. IsFiniteSet((T \ {p}) \ {x}) /\ (T \ {p}) \ {x} \subseteq S
    BY <1>3, FS_Subset
  <2> QED
    BY <1>4, <2>1, SumInt
<1> DEFINE rest == SumFunctionOnSet(q, (T \ {p}) \ {x})
<1>12. q[x] + (q[p] + rest) = q[p] + (q[x] + rest)
  <2>1. q[x] \in Int /\ q[p] \in Int /\ rest \in Int
    BY <1>11
  <2> HIDE DEF rest, p
  <2> QED
    BY <2>1
<1>13. SumFunctionOnSet(q, T \ {x}) = q[p] + rest
  BY <1>9, <1>10
<1> HIDE DEF rest, p
<1> QED
  BY <1>2, <1>5, <1>8, <1>12, <1>13 DEF rest

(* What is not negative has no negative sum, and no part is more than it.  *)
LEMMA SumNotNegative ==
  ASSUME NEW q, NEW S, IsFiniteSet(S), \A x \in S : q[x] \in Nat
  PROVE  SumFunctionOnSet(q, S) \in Nat
<1> DEFINE Bad == {T \in SUBSET S : SumFunctionOnSet(q, T) \notin Nat}
<1> SUFFICES ASSUME Bad # {} PROVE FALSE
  OBVIOUS
<1>1. PICK T \in Bad : \A U \in Bad : U \subseteq T => U = T
  <2>1. Bad \subseteq SUBSET S
    OBVIOUS
  <2> HIDE DEF Bad
  <2> QED
    BY <2>1, Smallest
<1>2. IsFiniteSet(T)
  BY FS_Subset
<1>3. CASE T = {}
  <2>1. SumFunctionOnSet(q, T) = 0
    BY <1>2, <1>3, SumUnfolds
  <2> QED
    BY <2>1
<1>4. CASE T # {}
  <2>1. Pick(T) \in T
    BY <1>4, PickIn
  <2>2. SumFunctionOnSet(q, T \ {Pick(T)}) \in Nat /\ q[Pick(T)] \in Nat
    BY <1>1, <2>1
  <2>3. SumFunctionOnSet(q, T) = q[Pick(T)] + SumFunctionOnSet(q, T \ {Pick(T)})
    BY <1>2, <1>4, SumUnfolds
  <2> QED
    BY <2>2, <2>3
<1> QED
  BY <1>3, <1>4

LEMMA PartOfSum ==
  ASSUME NEW q, NEW S, IsFiniteSet(S), \A x \in S : q[x] \in Nat, NEW y \in S
  PROVE  q[y] <= SumFunctionOnSet(q, S)
<1>1. SumFunctionOnSet(q, S) = q[y] + SumFunctionOnSet(q, S \ {y})
  BY SumSplits
<1>2. SumFunctionOnSet(q, S \ {y}) \in Nat
  BY SumNotNegative, FS_Subset
<1> QED
  BY <1>1, <1>2

(* The sum is linear in what is summed.                                    *)
LEMMA SumCombines ==
  ASSUME NEW S, IsFiniteSet(S), NEW f, NEW g, NEW h, NEW a \in Int, NEW c \in Int,
         \A x \in S : f[x] \in Int /\ g[x] \in Int /\ h[x] = a * f[x] + c * g[x]
  PROVE  SumFunctionOnSet(h, S) = a * SumFunctionOnSet(f, S) + c * SumFunctionOnSet(g, S)
<1> DEFINE Combines(T) ==
      SumFunctionOnSet(h, T) = a * SumFunctionOnSet(f, T) + c * SumFunctionOnSet(g, T)
           Bad == {T \in SUBSET S : ~Combines(T)}
<1> SUFFICES ASSUME Bad # {} PROVE FALSE
  OBVIOUS
<1>1. PICK T \in Bad : \A U \in Bad : U \subseteq T => U = T
  <2>1. Bad \subseteq SUBSET S
    OBVIOUS
  <2> HIDE DEF Bad
  <2> QED
    BY <2>1, Smallest
<1>2. IsFiniteSet(T) /\ T \subseteq S
  BY FS_Subset
<1>3. CASE T = {}
  <2>1. SumFunctionOnSet(f, T) = 0 /\ SumFunctionOnSet(g, T) = 0 /\ SumFunctionOnSet(h, T) = 0
    BY <1>2, <1>3, SumUnfolds
  <2> QED
    BY <2>1
<1>4. CASE T # {}
  <2> DEFINE x == Pick(T)
             U == T \ {x}
             sf == SumFunctionOnSet(f, U)
             sg == SumFunctionOnSet(g, U)
  <2>1. x \in T /\ x \in S
    BY <1>2, <1>4, PickIn
  <2>2. /\ SumFunctionOnSet(f, T) = f[x] + sf
        /\ SumFunctionOnSet(g, T) = g[x] + sg
        /\ SumFunctionOnSet(h, T) = h[x] + SumFunctionOnSet(h, U)
    BY <1>2, <1>4, SumUnfolds
  <2>3. SumFunctionOnSet(h, U) = a * sf + c * sg
    BY <1>1, <2>1
  <2>4. /\ sf \in Int /\ sg \in Int /\ f[x] \in Int /\ g[x] \in Int
        /\ h[x] = a * f[x] + c * g[x]
    <3>1. IsFiniteSet(U) /\ U \subseteq S
      BY <1>2, FS_Subset
    <3> QED
      BY <2>1, <3>1, SumInt
  <2> HIDE DEF sf, sg, x
  <2>5. /\ a * (f[x] + sf) = a * f[x] + a * sf
        /\ c * (g[x] + sg) = c * g[x] + c * sg
        /\ {a * f[x], a * sf, c * g[x], c * sg} \subseteq Int
    BY <2>4
  <2> QED
    BY <2>2, <2>3, <2>4, <2>5
<1> QED
  BY <1>3, <1>4

(* What is nothing outside a part adds nothing.                            *)
LEMMA SumSelected ==
  ASSUME NEW S, IsFiniteSet(S), NEW P \in SUBSET S, NEW f, NEW h,
         \A x \in S : f[x] \in Int /\ h[x] = IF x \in P THEN f[x] ELSE 0
  PROVE  SumFunctionOnSet(h, S) = SumFunctionOnSet(f, P)
<1> DEFINE Selects(T) == SumFunctionOnSet(h, T) = SumFunctionOnSet(f, T \cap P)
           Bad == {T \in SUBSET S : ~Selects(T)}
<1> SUFFICES ASSUME Bad # {} PROVE FALSE
  <2>1. S \cap P = P
    OBVIOUS
  <2> QED
    BY <2>1
<1>1. PICK T \in Bad : \A U \in Bad : U \subseteq T => U = T
  <2>1. Bad \subseteq SUBSET S
    OBVIOUS
  <2> HIDE DEF Bad
  <2> QED
    BY <2>1, Smallest
<1>2. IsFiniteSet(T) /\ T \subseteq S
  BY FS_Subset
<1>3. CASE T = {}
  <2>1. SumFunctionOnSet(h, T) = 0 /\ T \cap P = T
    BY <1>2, <1>3, SumUnfolds
  <2>2. SumFunctionOnSet(f, T) = 0
    BY <1>2, <1>3, SumUnfolds
  <2> QED
    BY <2>1, <2>2
<1>4. CASE T # {}
  <2> DEFINE x == Pick(T)
             U == T \ {x}
  <2>1. x \in T /\ x \in S
    BY <1>2, <1>4, PickIn
  <2>2. SumFunctionOnSet(h, T) = h[x] + SumFunctionOnSet(h, U)
    BY <1>2, <1>4, SumUnfolds
  <2>3. SumFunctionOnSet(h, U) = SumFunctionOnSet(f, U \cap P)
    BY <1>1, <2>1
  <2>4. SumFunctionOnSet(f, U \cap P) \in Int
    <3>1. IsFiniteSet(U \cap P) /\ U \cap P \subseteq S
      BY <1>2, FS_Subset
    <3> QED
      BY <3>1, SumInt
  <2>5. CASE x \in P
    <3>1. (T \cap P) \ {x} = U \cap P /\ x \in T \cap P
      BY <2>1, <2>5
    <3>2. IsFiniteSet(T \cap P) /\ \A y \in T \cap P : f[y] \in Int
      BY <1>2, FS_Subset
    <3>3. SumFunctionOnSet(f, T \cap P) = f[x] + SumFunctionOnSet(f, U \cap P)
      <4> HIDE DEF x, U
      <4> QED
        BY <3>1, <3>2, SumSplits
    <3> QED
      BY <2>1, <2>2, <2>3, <2>5, <3>3
  <2>6. CASE x \notin P
    <3>1. T \cap P = U \cap P
      BY <2>6
    <3>2. h[x] = 0
      BY <2>1, <2>6
    <3> HIDE DEF x, U
    <3>3. SumFunctionOnSet(h, T) = SumFunctionOnSet(f, U \cap P)
      BY <2>2, <2>3, <2>4, <3>2
    <3>4. SumFunctionOnSet(h, T) = SumFunctionOnSet(f, T \cap P)
      BY <3>1, <3>3, Zenon
    <3> QED
      BY <3>4
  <2> QED
    BY <2>5, <2>6
<1> QED
  BY <1>3, <1>4

-----------------------------------------------------------------------------
(* What holds of 0 and, up to n, of the next number, holds up to n: the    *)
(* induction of the library takes an operator, this one a set.             *)
LEMMA UpTo ==
  ASSUME NEW n \in Nat, NEW G, 0 \in G, \A k \in 0..(n - 1) : k \in G => k + 1 \in G
  PROVE  \A k \in 0..n : k \in G
<1> DEFINE Bad == {k \in 0..n : k \notin G}
           Heads == {0..k : k \in Bad}
<1> SUFFICES ASSUME Bad # {} PROVE FALSE
  OBVIOUS
<1>1. PICK T \in Heads : \A U \in Heads : U \subseteq T => U = T
  <2> DEFINE Span == 0..n
  <2>1. Heads \subseteq SUBSET Span /\ Heads # {}
    OBVIOUS
  <2>2. IsFiniteSet(Span)
    BY FS_Interval
  <2> HIDE DEF Heads, Span
  <2> QED
    BY <2>1, <2>2, Smallest
<1>2. PICK k \in Bad : T = 0..k
  OBVIOUS
<1>3. k \in 0..n /\ k # 0 /\ k \notin G
  OBVIOUS
<1>4. k - 1 \in 0..(n - 1) /\ k - 1 \in 0..n /\ (k - 1) + 1 = k
  BY <1>3
<1>5. k - 1 \in Bad
  BY <1>3, <1>4
<1>6. 0..(k - 1) \in Heads /\ 0..(k - 1) \subseteq T
  BY <1>2, <1>3, <1>5
<1>7. 0..(k - 1) = 0..k
  BY <1>1, <1>2, <1>6
<1> QED
  BY <1>3, <1>7

(* Folds that take the elements of a set in some order, from values of Y   *)
(* to values of Y, exist: up to each size of the subsets.                  *)
Combines(q, S, Y) == q \in [S -> [Y -> Y]]
Chooses(c, S) == \A T \in SUBSET S : T # {} => c[T] \in T
IsFold(g, b, q, c, S, Y) ==
  /\ g \in [SUBSET S -> Y]
  /\ \A s \in SUBSET S : g[s] = IF s = {} THEN b ELSE q[c[s]][g[s \ {c[s]}]]

LEMMA FoldExists ==
  ASSUME NEW S, IsFiniteSet(S), NEW Y, NEW b, b \in Y, NEW q, Combines(q, S, Y),
         NEW c, Chooses(c, S)
  PROVE  \E g : IsFold(g, b, q, c, S, Y)
<1> DEFINE n == Cardinality(S)
           Obeys(g, s) == g[s] = IF s = {} THEN b ELSE q[c[s]][g[s \ {c[s]}]]
           Folds(g, k) == \A s \in SUBSET S : Cardinality(s) <= k => Obeys(g, s)
           G == {k \in 0..n : \E g \in [SUBSET S -> Y] : Folds(g, k)}
<1> USE DEF Combines, Chooses
<1>1. n \in Nat /\ \A s \in SUBSET S : IsFiniteSet(s) /\ Cardinality(s) \in 0..n
  BY FS_Subset, FS_CardinalityType
<1>2. \A s \in SUBSET S : s # {} =>
        /\ c[s] \in S /\ s \ {c[s]} \in SUBSET S
        /\ Cardinality(s \ {c[s]}) = Cardinality(s) - 1
  BY <1>1, FS_RemoveElement
<1>3. 0 \in G
  <2> DEFINE g == [s \in SUBSET S |-> b]
  <2>1. g \in [SUBSET S -> Y]
    OBVIOUS
  <2>2. Folds(g, 0)
    BY <1>1, FS_EmptySet
  <2> HIDE DEF g, Folds
  <2> QED
    BY <1>1, <2>1, <2>2
<1>4. ASSUME NEW k \in 0..(n - 1), k \in G PROVE k + 1 \in G
  <2>1. PICK g \in [SUBSET S -> Y] : Folds(g, k)
    BY <1>4
  <2> DEFINE h == [s \in SUBSET S |->
                     IF Cardinality(s) = k + 1 THEN q[c[s]][g[s \ {c[s]}]] ELSE g[s]]
  <2>2. \A s \in SUBSET S : Cardinality(s) = k + 1 => s # {}
    BY <1>1, FS_EmptySet
  <2>3. h \in [SUBSET S -> Y]
    BY <1>2, <2>2
  <2>4. ASSUME NEW s \in SUBSET S, Cardinality(s) <= k + 1 PROVE Obeys(h, s)
    <3>1. Cardinality(s) \in Nat /\ k \in Nat
      BY <1>1
    <3>2. s # {} => h[s \ {c[s]}] = g[s \ {c[s]}]
      BY <1>1, <1>2, <2>4, <3>1
    <3>3. CASE Cardinality(s) = k + 1
      BY <2>2, <3>2, <3>3
    <3>4. CASE Cardinality(s) # k + 1
      <4>1. Cardinality(s) <= k
        BY <2>4, <3>1, <3>4
      <4>2. h[s] = g[s] /\ Obeys(g, s)
        BY <2>1, <3>4, <4>1
      <4> QED
        BY <3>2, <4>2
    <3> QED
      BY <3>3, <3>4
  <2>5. k + 1 \in 0..n
    BY <1>1
  <2>6. Folds(h, k + 1)
    BY <2>4
  <2> HIDE DEF h, Folds
  <2> QED
    BY <2>3, <2>5, <2>6
<1>5. n \in G
  <2> HIDE DEF G
  <2> QED
    BY <1>1, <1>3, <1>4, UpTo
<1>6. PICK g \in [SUBSET S -> Y] : Folds(g, n)
  BY <1>5
<1>7. ASSUME NEW s \in SUBSET S PROVE Obeys(g, s)
  <2>1. Cardinality(s) <= n
    BY <1>1
  <2> QED
    BY <1>6, <2>1
<1> QED
  BY <1>7 DEF IsFold

(* What is before what, in a strict total order of a finite set, given as  *)
(* the set of what is before each: the sizes of those sets number it from  *)
(* 0 without a gap, and along the order.                                   *)
LEMMA Numbered ==
  ASSUME NEW D, IsFiniteSet(D), NEW A \in [D -> SUBSET D],
         \A m \in D : m \notin A[m],
         \A m, n \in D : m \in A[n] => A[m] \subseteq A[n],
         \A m, n \in D : m # n => m \in A[n] \/ n \in A[m]
  PROVE  /\ \A n \in D : Cardinality(A[n]) \in 0..(Cardinality(D) - 1)
         /\ \A m, n \in D : m \in A[n] <=> Cardinality(A[m]) < Cardinality(A[n])
         /\ \A i \in 0..(Cardinality(D) - 1) : \E n \in D : Cardinality(A[n]) = i
<1> DEFINE k == Cardinality(D)
           R == {Cardinality(A[n]) : n \in D}
           F == [n \in D |-> Cardinality(A[n])]
<1>1. k \in Nat /\ \A n \in D : IsFiniteSet(A[n]) /\ Cardinality(A[n]) \in Nat
  BY FS_Subset, FS_CardinalityType
<1>2. ASSUME NEW m \in D, NEW n \in D, m \in A[n]
      PROVE  Cardinality(A[m]) < Cardinality(A[n])
  <2>1. A[m] \subseteq A[n] /\ A[m] # A[n]
    BY <1>2
  <2>2. Cardinality(A[m]) <= Cardinality(A[n]) /\ Cardinality(A[m]) # Cardinality(A[n])
    BY <1>1, <2>1, FS_Subset
  <2> QED
    BY <1>1, <2>2
<1>3. ASSUME NEW n \in D PROVE Cardinality(A[n]) \in 0..(k - 1)
  <2>1. A[n] \subseteq D /\ A[n] # D
    OBVIOUS
  <2>2. Cardinality(A[n]) <= k /\ Cardinality(A[n]) # k
    BY <1>1, <2>1, FS_Subset
  <2> QED
    BY <1>1, <2>2
<1>4. \A m, n \in D : m \in A[n] <=> Cardinality(A[m]) < Cardinality(A[n])
  <2> SUFFICES ASSUME NEW m \in D, NEW n \in D, Cardinality(A[m]) < Cardinality(A[n]) PROVE m \in A[n]
    BY <1>2
  <2>1. m # n
    BY <1>1
  <2>2. n \notin A[m]
    BY <1>1, <1>2
  <2> QED
    BY <2>1, <2>2
<1>5. \A m, n \in D : m # n => F[m] # F[n]
  BY <1>1, <1>2
<1>6. R = 0..(k - 1)
  <2>1. R \subseteq 0..(k - 1) /\ IsFiniteSet(0..(k - 1)) /\ Cardinality(0..(k - 1)) = k
    BY <1>1, <1>3, FS_Interval
  <2>2. F \in Bijection(D, R)
    <3>1. F \in [D -> R] /\ \A y \in R : \E x \in D : F[x] = y
      OBVIOUS
    <3> HIDE DEF F
    <3> QED
      BY <1>5, <3>1 DEF Bijection, Injection, Surjection, IsInjective
  <2>3. IsFiniteSet(R) /\ Cardinality(R) = k
    <3> HIDE DEF R, F
    <3>1. ExistsBijection(D, R)
      BY <2>2 DEF ExistsBijection
    <3>2. IsFiniteSet(R)
      BY <2>1, FS_Subset
    <3> QED
      BY <3>1, <3>2, FS_Bijection
  <2> HIDE DEF R
  <2> QED
    BY <2>1, <2>3, FS_Subset
<1> QED
  BY <1>3, <1>4, <1>6

(* A part of a sum of whole numbers that are not negative is no more.      *)
LEMMA SumOfPart ==
  ASSUME NEW q, NEW S, IsFiniteSet(S), \A x \in S : q[x] \in Nat, NEW P \in SUBSET S
  PROVE  SumFunctionOnSet(q, P) <= SumFunctionOnSet(q, S)
<1> DEFINE Bad == {T \in SUBSET S : P \subseteq T /\ ~(SumFunctionOnSet(q, P) <= SumFunctionOnSet(q, T))}
<1> SUFFICES ASSUME Bad # {} PROVE FALSE
  OBVIOUS
<1>1. PICK T \in Bad : \A U \in Bad : U \subseteq T => U = T
  <2>1. Bad \subseteq SUBSET S
    OBVIOUS
  <2> HIDE DEF Bad
  <2> QED
    BY <2>1, Smallest
<1>2. \A U \in SUBSET S : IsFiniteSet(U) /\ SumFunctionOnSet(q, U) \in Nat
  BY FS_Subset, SumNotNegative
<1>3. T # P
  BY <1>2
<1>4. PICK y \in T : y \notin P
  BY <1>3
<1>5. T \ {y} \in SUBSET S /\ T \ {y} \notin Bad /\ P \subseteq T \ {y}
  BY <1>1, <1>4
<1>6. SumFunctionOnSet(q, P) <= SumFunctionOnSet(q, T \ {y})
  BY <1>5
<1>7. SumFunctionOnSet(q, T) = q[y] + SumFunctionOnSet(q, T \ {y})
  <2>1. IsFiniteSet(T) /\ (\A x \in T : q[x] \in Int)
    BY <1>2
  <2> QED
    BY <2>1, SumSplits
<1>8. q[y] \in Nat /\ ~(SumFunctionOnSet(q, P) <= SumFunctionOnSet(q, T))
  OBVIOUS
<1> QED
  BY <1>2, <1>5, <1>6, <1>7, <1>8

(* If every summand, r times, is above c, so is the sum above as many c.   *)
LEMMA SumExceeds ==
  ASSUME NEW q, NEW S, IsFiniteSet(S), NEW r \in Int, NEW c \in Int,
         \A x \in S : q[x] \in Int /\ q[x] * r > c
  PROVE  S # {} => SumFunctionOnSet(q, S) * r > c * Cardinality(S)
<1> DEFINE Exceeds(T) == SumFunctionOnSet(q, T) * r > c * Cardinality(T)
           Bad == {T \in SUBSET S : T # {} /\ ~Exceeds(T)}
<1> SUFFICES ASSUME Bad # {} PROVE FALSE
  OBVIOUS
<1>1. PICK T \in Bad : \A U \in Bad : U \subseteq T => U = T
  <2>1. Bad \subseteq SUBSET S
    OBVIOUS
  <2> HIDE DEF Bad
  <2> QED
    BY <2>1, Smallest
<1>2. IsFiniteSet(T) /\ T \subseteq S /\ T # {}
  BY FS_Subset
<1> DEFINE x == Pick(T)
           U == T \ {x}
           s == SumFunctionOnSet(q, U)
           k == Cardinality(U)
<1>3. x \in T /\ x \in S /\ IsFiniteSet(U) /\ U \subseteq S
  BY <1>2, PickIn, FS_Subset
<1>4. SumFunctionOnSet(q, T) = q[x] + s
  BY <1>2, SumUnfolds
<1>5. Cardinality(T) = k + 1 /\ k \in Nat
  BY <1>2, <1>3, FS_RemoveElement, FS_CardinalityType
<1>6. s \in Int /\ q[x] \in Int /\ q[x] * r > c
  BY <1>3, SumInt
<1>7. s * r >= c * k
  <2>1. CASE U = {}
    <3>1. s = 0 /\ k = 0
      BY <2>1, <1>3, SumUnfolds, FS_EmptySet
    <3> QED
      BY <3>1
  <2>2. CASE U # {}
    <3>1. U \notin Bad
      <4>1. U \subseteq T /\ U # T
        BY <1>3
      <4> HIDE DEF U, Bad
      <4> QED
        BY <1>1, <4>1
    <3>2. Exceeds(U)
      <4> HIDE DEF U, Exceeds
      <4> QED
        BY <1>3, <2>2, <3>1
    <3> HIDE DEF U, x
    <3> QED
      BY <1>5, <1>6, <3>2
  <2> QED
    BY <2>1, <2>2
<1>8. ~Exceeds(T)
  OBVIOUS
<1> HIDE DEF s, k, U, x
<1>9. (q[x] + s) * r = q[x] * r + s * r /\ c * (k + 1) = c * k + c
  BY <1>5, <1>6
<1>10. q[x] * r \in Int /\ s * r \in Int /\ c * k \in Int
  BY <1>5, <1>6
<1>11. q[x] * r + s * r > c * k + c
  BY <1>6, <1>7, <1>10
<1> QED
  BY <1>4, <1>5, <1>8, <1>9, <1>11

=============================================================================
