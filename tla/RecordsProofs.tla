---------------------------- MODULE RecordsProofs ----------------------------
(***************************************************************************)
(* The components of Records for every value of their constants: a pool's  *)
(* replace (types, what a replacement leaves, and, where none commits      *)
(* between another's guard and its commit, that it leaves nothing else and *)
(* what it may lose), the operator's overrides,                            *)
(* the gate on waiting entries, the trail of a position, and a lane's view *)
(* of its market.                                                          *)
(***************************************************************************)
EXTENDS Records, FiniteSetTheorems, SequenceTheorems, TLAPS

-----------------------------------------------------------------------------
(* Types.                                                                  *)
Jobs == [step : Steps, kind : {"timer", "push", "remove"}, set : SUBSET Symbols,
         reason : BOOLEAN, doomed : SUBSET Symbols, status : Statuses]

LEMMA IdleIsAJob == Idle \in Jobs
  BY DEF Idle, Jobs, Steps, Statuses

(* A set of symbols is finite, and no larger than all of them.             *)
LEMMA SetsAreCounted ==
  ASSUME NEW S \in SUBSET Symbols
  PROVE  IsFiniteSet(S) /\ Cardinality(S) \in 0..Cardinality(Symbols)
<1>1. IsFiniteSet(S) /\ Cardinality(S) <= Cardinality(Symbols)
  BY SymbolsAssumption, FS_Subset
<1>2. Cardinality(S) \in Nat /\ Cardinality(Symbols) \in Nat
  BY <1>1, SymbolsAssumption, FS_CardinalityType
<1> QED
  BY <1>1, <1>2

LEMMA LandedTyped ==
  ASSUME TypeOK, NEW t \in Tasks, NEW step \in Steps, Landed(t, step)
  PROVE  task' \in [Tasks -> Jobs]
<1>1. [Idle EXCEPT !.step = step, !.kind = task[t].kind] \in Jobs
  BY IdleIsAJob DEF TypeOK, Jobs
<1>2. \A u \in Tasks : [task[u] EXCEPT !.doomed = @ \ task[t].doomed] \in Jobs
  BY DEF TypeOK, Jobs
<1> QED
  BY <1>1, <1>2 DEF Landed, TypeOK, Jobs

(* The tables and the tasks stay well-typed, however tasks overlap.        *)
THEOREM TypeCorrect == Spec => []TypeOK
<1>1. Init => TypeOK
  <2>1. 0 \in 0..Cardinality(Symbols)
    BY SymbolsAssumption, FS_CardinalityType
  <2>2. Init => task \in [Tasks -> Jobs]
    BY IdleIsAJob DEF Init
  <2>3. Init => health \in [status : Statuses \cup {"none"}, count : 0..Cardinality(Symbols)]
    BY <2>1 DEF Init, NoHealth
  <2> QED
    BY <2>2, <2>3 DEF Init, TypeOK, Jobs
<1>2. TypeOK /\ [Next]_vars => TypeOK'
  <2> SUFFICES ASSUME TypeOK, [Next]_vars PROVE TypeOK'
    OBVIOUS
  <2>0. task \in [Tasks -> Jobs]
    BY DEF TypeOK, Jobs
  <2>1. ASSUME Add PROVE TypeOK'
    BY <2>1 DEF Add, TypeOK
  <2>2. ASSUME NEW t \in Tasks, Fetch(t) \/ Push(t) \/ Remove(t) PROVE TypeOK'
    <3>1. PICK j \in Jobs : task' = [task EXCEPT ![t] = j]
      <4>1. ASSUME NEW set \in SUBSET Symbols, NEW reason \in BOOLEAN
            PROVE  /\ [Idle EXCEPT !.step = "guard", !.set = set] \in Jobs
                   /\ [Idle EXCEPT !.step = "guard", !.kind = "push", !.set = set,
                                   !.reason = reason] \in Jobs
        BY IdleIsAJob DEF Jobs, Steps
      <4>2. /\ [Idle EXCEPT !.step = "fail"] \in Jobs
            /\ [Idle EXCEPT !.step = "replace", !.kind = "remove"] \in Jobs
        BY IdleIsAJob DEF Jobs, Steps
      <4>3. CASE Fetch(t)
        BY <4>1, <4>2, <4>3 DEF Fetch
      <4>4. CASE Push(t)
        BY <4>1, <4>4 DEF Push
      <4>5. CASE Remove(t)
        BY <4>2, <4>5 DEF Remove
      <4> QED
        BY <2>2, <4>3, <4>4, <4>5
    <3>2. UNCHANGED <<rows, health, spec, last, gone>>
      BY <2>2 DEF Fetch, Push, Remove
    <3> QED
      BY <3>1, <3>2, <2>0 DEF TypeOK, Jobs
  <2>3. ASSUME NEW t \in Tasks, Guard(t) \/ Delete(t) \/ Upsert(t) \/ RollBack(t) \/ StartDelete(t)
        PROVE TypeOK'
    <3>1. task' \in [Tasks -> Jobs]
      <4>1. CASE StartDelete(t)
        <5> DEFINE j == [task[t] EXCEPT !.step = "delete", !.doomed = rows \ task[t].set]
        <5>1. j \in Jobs
          BY <2>0 DEF TypeOK, Jobs, Steps
        <5>2. task' = [task EXCEPT ![t] = j]
          BY <2>0, <4>1 DEF StartDelete, Jobs
        <5> QED
          BY <2>0, <5>1, <5>2
      <4>2. CASE Guard(t) \/ Delete(t) \/ Upsert(t) \/ RollBack(t)
        BY <2>0, <4>2 DEF Guard, Refuse, Delete, Upsert, RollBack, Goto, Jobs, Steps
      <4> QED
        BY <2>3, <4>1, <4>2
    <3> QED
      BY <2>3, <3>1 DEF Guard, Delete, Upsert, RollBack, StartDelete, TypeOK, Jobs
  <2>4. ASSUME NEW t \in Tasks, Commit(t) PROVE TypeOK'
    <3>1. task' \in [Tasks -> Jobs]
      BY <2>4, LandedTyped DEF Commit, Steps
    <3>2. task[t].set \in SUBSET Symbols
      BY <2>0 DEF Jobs
    <3>3. Cardinality(task[t].set) \in 0..Cardinality(Symbols)
      BY <3>2, SetsAreCounted
    <3> QED
      BY <2>4, <3>1, <3>2, <3>3 DEF Commit, TypeOK, Jobs, Statuses
  <2>5. ASSUME NEW t \in Tasks, CommitDrop(t) PROVE TypeOK'
    <3>1. task' \in [Tasks -> Jobs]
      BY <2>5, LandedTyped DEF CommitDrop, Steps
    <3>2. 0 \in 0..Cardinality(Symbols)
      BY SymbolsAssumption, FS_CardinalityType
    <3> QED
      BY <2>5, <3>1, <3>2 DEF CommitDrop, NoHealth, TypeOK, Jobs
  <2>6. ASSUME NEW t \in Tasks, Fail(t) PROVE TypeOK'
    <3>1. [task[t] EXCEPT !.step = "stamp", !.status = "failed"] \in Jobs
      BY <2>0 DEF Jobs, Steps, Statuses
    <3>2. task' = [task EXCEPT ![t] = [task[t] EXCEPT !.step = "stamp", !.status = "failed"]]
      BY <2>0, <2>6 DEF Fail, Jobs
    <3>3. task' \in [Tasks -> Jobs]
      BY <2>0, <3>1, <3>2
    <3> QED
      BY <2>6, <3>3 DEF Fail, TypeOK, Jobs, Statuses
  <2>7. ASSUME NEW t \in Tasks, Stamp(t) \/ RemoveSpec(t) \/ Crash(t) PROVE TypeOK'
    <3>1. task' \in [Tasks -> Jobs]
      BY <2>0, <2>7, IdleIsAJob DEF Stamp, RemoveSpec, Crash
    <3>2. task[t].status \in Statuses
      BY <2>0 DEF Jobs
    <3> QED
      BY <2>7, <3>1, <3>2 DEF Stamp, RemoveSpec, Crash, TypeOK, Jobs
  <2>8. ASSUME UNCHANGED vars PROVE TypeOK'
    BY <2>8 DEF vars, TypeOK
  <2> QED
    BY <2>1, <2>2, <2>3, <2>4, <2>5, <2>6, <2>7, <2>8
    DEF Next, Refresh, Removal, Statement, Tasks
<1> QED
  BY <1>1, <1>2, PTL DEF Spec

-----------------------------------------------------------------------------
(* However refreshes and removals overlap, nothing of what the last one    *)
(* returned is missing: a commit takes away rows only of what others held  *)
(* before it.                                                              *)
NothingIsMissing == last \subseteq rows /\ health.count = Cardinality(last)

(* However many refreshes and removals overlap, fail or die, a source      *)
(* holds all its last refresh returned, and the count the next guard       *)
(* reads is of it.                                                         *)
THEOREM NothingMissing == Spec => []NothingIsMissing
<1>1. Init => NothingIsMissing
  BY FS_EmptySet DEF Init, NoHealth, NothingIsMissing
<1>2. NothingIsMissing /\ [Next]_vars => NothingIsMissing'
  <2> SUFFICES ASSUME NothingIsMissing, [Next]_vars PROVE NothingIsMissing'
    OBVIOUS
  <2>1. ASSUME NEW t \in Tasks, Commit(t) PROVE NothingIsMissing'
    BY <2>1 DEF Commit, NothingIsMissing
  <2>2. ASSUME NEW t \in Tasks, CommitDrop(t) PROVE NothingIsMissing'
    BY <2>2, FS_EmptySet DEF CommitDrop, NoHealth, NothingIsMissing
  <2>3. ASSUME NEW t \in Tasks, Fail(t) PROVE NothingIsMissing'
    BY <2>3 DEF Fail, NothingIsMissing
  <2>4. ASSUME NEW t \in Tasks, ~Commit(t), ~CommitDrop(t), ~Fail(t),
               Refresh(t) \/ Removal(t) \/ Statement(t)
        PROVE  NothingIsMissing'
    <3>1. UNCHANGED <<rows, health, last>>
      BY <2>4 DEF Refresh, Removal, Statement, Fetch, Push, Guard, Stamp, Remove, RemoveSpec,
                  StartDelete, Delete, Upsert, RollBack, Crash
    <3> QED
      BY <3>1 DEF NothingIsMissing
  <2>5. ASSUME Add \/ UNCHANGED vars PROVE NothingIsMissing'
    BY <2>5 DEF Add, vars, NothingIsMissing
  <2> QED
    BY <2>1, <2>2, <2>3, <2>4, <2>5 DEF Next, Tasks
<1> QED
  BY <1>1, <1>2, PTL DEF Spec

-----------------------------------------------------------------------------
(* Any number of refreshes.  No refresh commits while another is past its  *)
(* guard: the code has nothing that sees to it.  Then what a refresh is    *)
(* about to commit replaces all that is there (Covers) and was let through *)
(* against the set it replaces, or against one a removal has emptied since *)
(* (Passed).                                                               *)
Working(t) == task[t].step \in {"replace", "delete", "upsert", "commit"}

Apart == \A t, u \in Refreshers : At(t, "commit") /\ Working(u) => t = u

Covers(t) == task[t].step \in {"delete", "upsert", "commit"} => rows \subseteq task[t].doomed \cup task[t].set

Passed(t) ==
  Working(t) /\ ~task[t].reason
    => ~Shrinks(health.count, Cardinality(task[t].set))

ReplaceInv ==
  /\ WholeSet
  /\ health.count = Cardinality(last)
  /\ \A t \in Refreshers : Covers(t) /\ Passed(t)

LEMMA OneOfTheTasks ==
  ASSUME TypeOK, ReplaceInv, NEW t \in Refreshers, Covers(t)', Passed(t)',
         UNCHANGED <<rows, last>>, health'.count = health.count,
         health' = health \/ health'.status = "failed",
         \A u \in Tasks : u # t => task'[u] = task[u]
  PROVE  ReplaceInv'
<1>1. ASSUME NEW u \in Refreshers, u # t PROVE Covers(u)' /\ Passed(u)'
  <2>1. task'[u] = task[u] /\ Covers(u) /\ Passed(u)
    BY <1>1 DEF Tasks, ReplaceInv
  <2> QED
    BY <2>1 DEF Covers, Passed, Working
<1> QED
  BY <1>1 DEF ReplaceInv, WholeSet

(* A step of a remover that writes no row leaves the refresher where it is.*)
LEMMA OfARemover ==
  ASSUME TypeOK, ReplaceInv, NEW t \in Removers, UNCHANGED <<rows, health, last>>,
         \A u \in Tasks : u # t => task'[u] = task[u]
  PROVE  ReplaceInv'
<1>1. ASSUME NEW u \in Refreshers PROVE task'[u] = task[u]
  BY TasksAssumption DEF Tasks
<1> QED
  BY <1>1 DEF ReplaceInv, WholeSet, Covers, Passed, Working

THEOREM ReplaceInvariant == Spec /\ []Apart => []ReplaceInv
<1>1. Init => ReplaceInv
  BY FS_EmptySet DEF Init, ReplaceInv, WholeSet, NoHealth, Idle, Covers, Passed, Working, Tasks
<1>2. TypeOK /\ Apart /\ ReplaceInv /\ [Next]_vars => ReplaceInv'
  <2> SUFFICES ASSUME TypeOK, Apart, ReplaceInv, [Next]_vars PROVE ReplaceInv'
    OBVIOUS
  <2>0. task \in [Tasks -> Jobs] /\ Refreshers \subseteq Tasks /\ Removers \subseteq Tasks
    BY DEF TypeOK, Jobs, Tasks
  <2>1. ASSUME Add \/ UNCHANGED vars PROVE ReplaceInv'
    BY <2>1 DEF Add, vars, ReplaceInv, WholeSet, Covers, Passed, Working
  <2>2. ASSUME NEW t \in Refreshers, Fetch(t) \/ Push(t) \/ Crash(t) PROVE ReplaceInv'
    <3>1. /\ UNCHANGED <<rows, health, last>>
          /\ task'[t].step \notin {"replace", "delete", "upsert", "commit"}
          /\ \A u \in Tasks : u # t => task'[u] = task[u]
      <4>1. CASE Fetch(t)
        BY <2>0, <4>1 DEF Fetch, Idle
      <4>2. CASE Push(t)
        BY <2>0, <4>2 DEF Push, Idle
      <4>3. CASE Crash(t)
        BY <2>0, <4>3 DEF Crash, Idle
      <4> QED
        BY <2>2, <4>1, <4>2, <4>3
    <3> QED
      BY <3>1, OneOfTheTasks DEF Covers, Passed, Working
  <2>3. ASSUME NEW t \in Refreshers, Guard(t) PROVE ReplaceInv'
    <3>1. /\ UNCHANGED <<rows, health, last>>
          /\ task'[t].set = task[t].set /\ task'[t].reason = task[t].reason
          /\ task'[t].step \notin {"delete", "upsert", "commit"}
          /\ task'[t].step = "replace" => ~Refused(t)
          /\ \A u \in Tasks : u # t => task'[u] = task[u]
      BY <2>0, <2>3 DEF Guard, Refuse, Goto, Jobs
    <3> QED
      BY <3>1, OneOfTheTasks DEF Covers, Passed, Working, Refused
  <2>4. ASSUME NEW t \in Refreshers, StartDelete(t) PROVE ReplaceInv'
    <3>1. /\ UNCHANGED <<rows, health, last>> /\ task[t].step = "replace"
          /\ task'[t].set = task[t].set /\ task'[t].reason = task[t].reason
          /\ task'[t].doomed = rows \ task[t].set
          /\ \A u \in Tasks : u # t => task'[u] = task[u]
      BY <2>0, <2>4 DEF StartDelete, At, Jobs
    <3> QED
      BY <3>1, OneOfTheTasks DEF Covers, Passed, Working, ReplaceInv
  <2>5. ASSUME NEW t \in Refreshers, Delete(t) \/ Upsert(t) PROVE ReplaceInv'
    <3>1. /\ UNCHANGED <<rows, health, last>> /\ task[t].step \in {"delete", "upsert"}
          /\ task'[t].set = task[t].set /\ task'[t].reason = task[t].reason
          /\ task'[t].doomed = task[t].doomed
          /\ \A u \in Tasks : u # t => task'[u] = task[u]
      BY <2>0, <2>5 DEF Delete, Upsert, Goto, At, Jobs
    <3> QED
      BY <3>1, OneOfTheTasks DEF Covers, Passed, Working, ReplaceInv
  <2>6. ASSUME NEW t \in Refreshers, RollBack(t) PROVE ReplaceInv'
    <3>1. /\ UNCHANGED <<rows, health, last>> /\ task'[t].step \in {"fail", "idle"}
          /\ \A u \in Tasks : u # t => task'[u] = task[u]
      BY <2>0, <2>6 DEF RollBack, Goto, Jobs
    <3> QED
      BY <3>1, OneOfTheTasks DEF Covers, Passed, Working
  <2>7. ASSUME NEW t \in Refreshers, Commit(t) PROVE ReplaceInv'
    <3>1. /\ rows' = task[t].set /\ last' = task[t].set
          /\ health'.count = Cardinality(task[t].set)
      BY <2>7 DEF Commit, At, ReplaceInv, Covers
    <3>2. task'[t].step \in {"stamp", "idle"}
      BY <2>0, <2>7 DEF Commit, Landed, Idle
    <3>3. ASSUME NEW u \in Refreshers, u # t PROVE task'[u].step \notin {"replace", "upsert", "commit", "delete"}
      <4>1. ~Working(u)
        BY <2>7, <3>3 DEF Apart, Commit
      <4>2. u \in Tasks /\ task'[u] = task[u]
        BY <2>0, <2>7, <3>3, <4>1 DEF Commit, Landed, At, Working
      <4> QED
        BY <4>1, <4>2 DEF Working
    <3> QED
      BY <3>1, <3>2, <3>3 DEF ReplaceInv, WholeSet, Covers, Passed, Working
  <2>8. ASSUME NEW t \in Refreshers, Fail(t) PROVE ReplaceInv'
    <3>1. UNCHANGED <<rows, last>> /\ health'.count = health.count /\ health'.status = "failed"
      BY <2>8 DEF Fail
    <3>2. task'[t].step = "stamp" /\ \A u \in Tasks : u # t => task'[u] = task[u]
      BY <2>0, <2>8 DEF Fail, Jobs
    <3> QED
      BY <3>1, <3>2, OneOfTheTasks DEF Covers, Passed, Working
  <2>9. ASSUME NEW t \in Refreshers, Stamp(t) PROVE ReplaceInv'
    <3>1. /\ UNCHANGED <<rows, health, last>> /\ task'[t].step = "idle"
          /\ \A u \in Tasks : u # t => task'[u] = task[u]
      BY <2>0, <2>9 DEF Stamp, Idle
    <3> QED
      BY <3>1, OneOfTheTasks DEF Covers, Passed, Working
  <2>10. ASSUME NEW t \in Removers, CommitDrop(t) PROVE ReplaceInv'
    <3>1. /\ rows' = rows \ task[t].doomed /\ last' = {} /\ health' = NoHealth
      BY <2>10 DEF CommitDrop
    <3>2. ASSUME NEW u \in Refreshers PROVE Covers(u)'
      <4>1. \/ task'[u] = task[u]
            \/ /\ task[u].step = "delete" /\ task'[u].set = task[u].set
               /\ task'[u].doomed = task[u].doomed \ task[t].doomed
        BY <2>0, <2>10, TasksAssumption DEF CommitDrop, Landed, At, Jobs
      <4> QED
        BY <3>1, <4>1 DEF Covers, ReplaceInv
    <3>3. ASSUME NEW u \in Refreshers PROVE Passed(u)'
      BY <3>1 DEF Passed, Shrinks, NoHealth
    <3> QED
      BY <3>1, <3>2, <3>3, FS_EmptySet DEF ReplaceInv, WholeSet, NoHealth
  <2>11. ASSUME NEW t \in Removers, Removal(t) \/ Statement(t), ~CommitDrop(t) PROVE ReplaceInv'
    <3>1. UNCHANGED <<rows, health, last>> /\ \A u \in Tasks : u # t => task'[u] = task[u]
      BY <2>0, <2>11 DEF Removal, Statement, Remove, RemoveSpec, StartDelete, Delete, Upsert,
                         RollBack, Crash, Goto
    <3> QED
      BY <3>1, OfARemover
  <2> QED
    BY <2>1, <2>2, <2>3, <2>4, <2>5, <2>6, <2>7, <2>8, <2>9, <2>10, <2>11
    DEF Next, Refresh, Removal, Statement, Tasks
<1> QED
  BY <1>1, <1>2, TypeCorrect, PTL DEF Spec

(* Where no refresh of a source commits between another's guard and its    *)
(* commit, a healthy source holds what its last refresh returned and       *)
(* nothing else, whatever failed, died or was removed beside it.           *)
THEOREM Whole == Spec /\ []Apart => []WholeSet
  BY ReplaceInvariant, PTL DEF ReplaceInv

(* ... and no refresh loses more than max_shrink unless it says why.       *)
THEOREM Deliberate == Spec /\ []Apart => ShrinkIsDeliberate
<1>1. TypeOK /\ ReplaceInv /\ [Next]_vars =>
        [last' # last /\ health'.status = "ok"
           => \/ ~Shrinks(Cardinality(last), Cardinality(last'))
              \/ \E t \in Refreshers : At(t, "commit") /\ task[t].reason]_vars
  <2> SUFFICES ASSUME TypeOK, ReplaceInv, Next, last' # last, health'.status = "ok"
               PROVE  \/ ~Shrinks(Cardinality(last), Cardinality(last'))
                      \/ \E t \in Refreshers : At(t, "commit") /\ task[t].reason
    BY DEF vars
  <2>1. PICK t \in Refreshers : Commit(t)
    <3>1. ~Add
      BY DEF Add
    <3>2. ASSUME NEW t \in Tasks PROVE ~Statement(t)
      BY DEF Statement, StartDelete, Delete, Upsert, RollBack, Crash
    <3>3. ASSUME NEW t \in Removers PROVE ~Removal(t)
      BY DEF Removal, Remove, CommitDrop, RemoveSpec, NoHealth
    <3>4. ASSUME NEW t \in Refreshers, Refresh(t) PROVE Commit(t)
      BY <3>4 DEF Refresh, Fetch, Push, Guard, Fail, Stamp
    <3> QED
      BY <3>1, <3>2, <3>3, <3>4 DEF Next
  <2>2. last' = task[t].set /\ task[t].step = "commit"
    BY <2>1 DEF Commit, At
  <2> QED
    BY <2>2 DEF ReplaceInv, Passed, Working, At
<1> QED
  BY <1>1, TypeCorrect, ReplaceInvariant, PTL DEF Spec, ShrinkIsDeliberate

-----------------------------------------------------------------------------
(* The operator's overrides (PoolOverrides).                               *)
LEMMA OverridesTyped ==
  ASSUME Overrides!TypeOK, [Overrides!Next]_overrideVars
  PROVE  Overrides!TypeOK'
<1> USE DEF Overrides!TypeOK, Overrides!Kinds, Overrides!PIN, Overrides!EXCLUDE
<1>1. ASSUME NEW o \in Operators, NEW kind \in Overrides!Kinds, Overrides!Delete(o, kind)
      PROVE  Overrides!TypeOK'
  BY <1>1 DEF Overrides!Delete
<1>2. ASSUME NEW o \in Operators, Overrides!Upsert(o) PROVE Overrides!TypeOK'
  BY <1>2 DEF Overrides!Upsert
<1>3. ASSUME NEW o \in Operators, Overrides!Commit(o) PROVE Overrides!TypeOK'
  BY <1>3 DEF Overrides!Commit, Overrides!Idle
<1>4. ASSUME NEW o \in Operators, Overrides!RollBack(o) PROVE Overrides!TypeOK'
  BY <1>4 DEF Overrides!RollBack, Overrides!Idle
<1>5. ASSUME NEW kind \in Overrides!Kinds, Overrides!Clear(kind) \/ Overrides!Expire(kind)
      PROVE  Overrides!TypeOK'
  BY <1>5 DEF Overrides!Clear, Overrides!Expire
<1>6. CASE Overrides!Feed
  BY <1>6 DEF Overrides!Feed
<1>7. CASE UNCHANGED overrideVars
  BY <1>7 DEF overrideVars
<1> QED
  BY <1>1, <1>2, <1>3, <1>4, <1>5, <1>6, <1>7 DEF Overrides!Next

(* Only a commit makes an exclusion the last word, and it leaves the row   *)
(* live; what ends the row takes the word back.                            *)
LEMMA ExcludeStep ==
  ASSUME Overrides!TypeOK, Overrides!ExcludeHolds, [Overrides!Next]_overrideVars
  PROVE  Overrides!ExcludeHolds'
<1> USE DEF Overrides!ExcludeHolds, Overrides!MustLiquidate, Overrides!Buyable, Overrides!TypeOK,
            Overrides!Kinds, Overrides!PIN, Overrides!EXCLUDE
<1>1. ASSUME NEW o \in Operators, Overrides!Commit(o) PROVE Overrides!ExcludeHolds'
  <2>1. sessions[o].kind \in Overrides!Kinds
    OBVIOUS
  <2> QED
    BY <1>1, <2>1 DEF Overrides!Commit
<1>2. ASSUME NEW kind \in Overrides!Kinds, Overrides!Clear(kind) \/ Overrides!Expire(kind)
      PROVE  Overrides!ExcludeHolds'
  BY <1>2 DEF Overrides!Clear, Overrides!Expire
<1>3. ASSUME NEW o \in Operators,
             \/ \E kind \in Overrides!Kinds : Overrides!Delete(o, kind)
             \/ Overrides!Upsert(o) \/ Overrides!RollBack(o)
      PROVE  Overrides!ExcludeHolds'
  BY <1>3 DEF Overrides!Delete, Overrides!Upsert, Overrides!RollBack
<1>4. CASE Overrides!Feed
  BY <1>4 DEF Overrides!Feed
<1>5. CASE UNCHANGED overrideVars
  BY <1>5 DEF overrideVars
<1> QED
  BY <1>1, <1>2, <1>3, <1>4, <1>5 DEF Overrides!Next

-----------------------------------------------------------------------------
(* The gate on waiting entries (HeldStreak).  The rows as a sequence:      *)
(* its type invariant speaks of each row.                                  *)
RiskRows == [session : Nat, kind : Held!Kinds, refused : Refusals \cup {{}}]

HeldInv ==
  /\ riskRows \in Seq(RiskRows)
  /\ Held!TypeOK /\ Held!HeldOnTime

(* A row is put before the others: what a session did grows by that row.   *)
LEMMA RowIsAdded ==
  ASSUME riskRows \in Seq(RiskRows), NEW row \in RiskRows, riskRows' = <<row>> \o riskRows
  PROVE  /\ riskRows' \in Seq(RiskRows)
         /\ {riskRows'[i] : i \in DOMAIN riskRows'}
              = {row} \cup {riskRows[i] : i \in DOMAIN riskRows}
<1>1. <<row>> \in Seq(RiskRows) /\ Len(<<row>>) = 1 /\ <<row>>[1] = row
  OBVIOUS
<1>2. /\ riskRows' \in Seq(RiskRows) /\ Len(riskRows') = 1 + Len(riskRows)
      /\ \A i \in 1..Len(riskRows') :
           riskRows'[i] = IF i <= 1 THEN <<row>>[i] ELSE riskRows[i - 1]
  BY <1>1, ConcatProperties
<1>3. DOMAIN riskRows = 1..Len(riskRows) /\ DOMAIN riskRows' = 1..Len(riskRows')
      /\ Len(riskRows) \in Nat
  BY <1>2
<1>4. ASSUME NEW i \in DOMAIN riskRows'
      PROVE  riskRows'[i] \in {row} \cup {riskRows[j] : j \in DOMAIN riskRows}
  <2>1. CASE i = 1
    BY <1>1, <1>2, <1>3, <2>1
  <2>2. CASE i # 1
    BY <1>2, <1>3, <2>2
  <2> QED
    BY <2>1, <2>2
<1>5. row = riskRows'[1] /\ 1 \in DOMAIN riskRows'
  BY <1>1, <1>2, <1>3
<1>6. ASSUME NEW i \in DOMAIN riskRows
      PROVE  riskRows[i] = riskRows'[i + 1] /\ i + 1 \in DOMAIN riskRows'
  BY <1>2, <1>3
<1>7. {riskRows'[i] : i \in DOMAIN riskRows'} = {row} \cup {riskRows[i] : i \in DOMAIN riskRows}
  <2>1. {riskRows'[i] : i \in DOMAIN riskRows'} \subseteq {row} \cup {riskRows[i] : i \in DOMAIN riskRows}
    BY <1>4
  <2>2. \A i \in DOMAIN riskRows : riskRows[i] \in {riskRows'[j] : j \in DOMAIN riskRows'}
    BY <1>6
  <2>3. row \in {riskRows'[j] : j \in DOMAIN riskRows'}
    BY <1>5
  <2> QED
    BY <2>1, <2>2, <2>3
<1> QED
  BY <1>2, <1>7

(* The count of a set is the component's own instance of it.               *)
LEMMA HeldCounts ==
  ASSUME NEW S
  PROVE  Held!Cardinality(S) = Cardinality(S)
BY DEF Held!Cardinality, Cardinality

(* What the gate reads of an earlier session only grows with it, and a     *)
(* session that waited and never released counts as held.                  *)
LEMMA StreakCounts ==
  ASSUME InstancesAssumption, riskRows \in Seq(RiskRows), Held!TypeOK, NEW R \in Refusals
  PROVE  /\ Cardinality({t \in 1..(session - 1) : Held!Covered(t, R)}) >= Held!Streak(R)
         /\ Held!Streak(R) \in Nat
         /\ Cardinality({t \in 1..(session - 1) : Held!Covered(t, R)}) \in Nat
         /\ session > MaxHeldSessions
            /\ (\A t \in (session - MaxHeldSessions)..(session - 1) :
                  Held!Covered(t, R) /\ ~Held!Released(t))
            => Held!Streak(R) >= MaxHeldSessions
<1> DEFINE Seen == {s \in Held!SessionsBefore :
                      \A t \in Held!SessionsBefore : t >= s => Held!Held(t, R)}
           Cov == {t \in 1..(session - 1) : Held!Covered(t, R)}
           Last == (session - MaxHeldSessions)..(session - 1)
<1>0. /\ session \in Nat /\ MaxHeldSessions \in Nat \ {0}
      /\ DOMAIN riskRows = 1..Len(riskRows) /\ Len(riskRows) \in Nat
      /\ \A i \in DOMAIN riskRows : riskRows[i].session \in 1..session
  BY DEF InstancesAssumption, Held!BoundsAssumption, Held!TypeOK
<1>1. Held!SessionsBefore \subseteq 1..(session - 1)
  <2>1. ASSUME NEW i \in DOMAIN riskRows, riskRows[i].session # session
        PROVE  riskRows[i].session \in 1..(session - 1)
    <3>1. riskRows[i].session \in 1..session
      BY <1>0
    <3> QED
      BY <1>0, <2>1, <3>1
  <2> QED
    BY <2>1 DEF Held!SessionsBefore
<1>2. Seen \subseteq Cov
  <2>1. ASSUME NEW s \in Seen PROVE Held!Held(s, R) /\ s \in 1..(session - 1) /\ s >= s
    BY <1>0, <1>1
  <2> QED
    BY <2>1 DEF Held!Held, Held!Covered
<1>3. IsFiniteSet(Cov)
  <2>1. IsFiniteSet(1..(session - 1))
    BY <1>0, FS_Interval
  <2>2. Cov \in SUBSET (1..(session - 1))
    OBVIOUS
  <2> QED
    BY <2>1, <2>2, FS_Subset
<1>4. IsFiniteSet(Seen) /\ Cardinality(Seen) <= Cardinality(Cov)
  <2>1. Seen \in SUBSET Cov
    BY <1>2
  <2> HIDE DEF Seen, Cov
  <2> QED
    BY <1>3, <2>1, FS_Subset
<1>5. Held!Streak(R) = Cardinality(Seen)
  BY HeldCounts DEF Held!Streak
<1>6. ASSUME session > MaxHeldSessions,
             \A t \in Last : Held!Covered(t, R) /\ ~Held!Released(t)
      PROVE  Cardinality(Seen) >= MaxHeldSessions
  <2>1. ASSUME NEW t \in Last PROVE Held!Held(t, R) /\ t \in Held!SessionsBefore
    <3>1. PICK i \in DOMAIN riskRows :
            riskRows[i].session = t /\ riskRows[i].kind = "held" /\ R \subseteq riskRows[i].refused
      BY <1>6, <2>1 DEF Held!Covered
    <3>2. t # session
      BY <1>0
    <3>3. ASSUME NEW j \in (i + 1)..Len(riskRows)
          PROVE ~(riskRows[j].session = t /\ riskRows[j].kind = "released")
      <4>1. j \in DOMAIN riskRows
        BY <1>0
      <4> QED
        BY <1>6, <4>1 DEF Held!Released
    <3> QED
      BY <3>1, <3>2, <3>3 DEF Held!Held, Held!SessionsBefore
  <2>2. ASSUME NEW s \in Last, NEW t \in Held!SessionsBefore, t >= s PROVE t \in Last
    BY <1>0, <1>1, <2>2
  <2>3. Last \subseteq Seen
    BY <2>1, <2>2
  <2>4. Cardinality(Last) <= Cardinality(Seen)
    BY <1>4, <2>3, FS_Subset
  <2>5. Cardinality(Last) = MaxHeldSessions
    <3> DEFINE a == session - MaxHeldSessions
               b == session - 1
    <3>1. a \in Int /\ b \in Int /\ a <= b /\ b - a + 1 = MaxHeldSessions /\ Last = a..b
      BY <1>0, <1>6
    <3> HIDE DEF a, b, Last
    <3> QED
      BY <3>1, FS_Interval
  <2>6. Cardinality(Seen) \in Nat
    BY <1>4, FS_CardinalityType
  <2> QED
    BY <1>0, <2>4, <2>5, <2>6
<1>7. Cardinality(Seen) \in Nat /\ Cardinality(Cov) \in Nat
  BY <1>3, <1>4, FS_CardinalityType
<1> QED
  BY <1>4, <1>5, <1>6, <1>7

LEMMA HeldStep ==
  ASSUME InstancesAssumption, HeldInv, [Held!Next]_heldVars
  PROVE  HeldInv'
<1> USE DEF HeldInv
<1> DEFINE Rows == {riskRows[i] : i \in DOMAIN riskRows}
<1>0. /\ session \in Nat /\ session >= 1 /\ MaxHeldSessions \in Nat \ {0} /\ MaxSession \in Nat
      /\ \A R \in Refusals : R # {}
  BY DEF InstancesAssumption, Held!BoundsAssumption, Held!RefusalsAssumption, Held!TypeOK
<1>1. ASSUME NEW row \in RiskRows, row.session = session, row.refused # {} => row.refused \in Refusals,
             riskRows' = <<row>> \o riskRows, UNCHANGED session,
             \A R \in Refusals :
               /\ row.kind = "held" /\ row.refused = R => Held!Streak(R) < MaxHeldSessions
               /\ row.kind = "released" /\ row.refused = R => Held!Streak(R) >= MaxHeldSessions
      PROVE  HeldInv'
  <2>1. /\ riskRows' \in Seq(RiskRows)
        /\ {riskRows'[i] : i \in DOMAIN riskRows'} = {row} \cup {riskRows[i] : i \in DOMAIN riskRows}
    BY <1>1, RowIsAdded
  <2>2. /\ \A i \in DOMAIN riskRows' : 
             riskRows'[i] = row \/ \E j \in DOMAIN riskRows : riskRows'[i] = riskRows[j]
        /\ \A j \in DOMAIN riskRows : \E i \in DOMAIN riskRows' : riskRows'[i] = riskRows[j]
        /\ \E i \in DOMAIN riskRows' : riskRows'[i] = row
    BY <2>1
  <2>3. Held!TypeOK'
    BY <1>0, <1>1, <2>2 DEF Held!TypeOK, RiskRows
  <2>4. ASSUME NEW t \in 1..(session - 1), NEW R
        PROVE  /\ Held!Covered(t, R)' <=> Held!Covered(t, R)
               /\ Held!Released(t)' <=> Held!Released(t)
    <3>1. t # row.session
      BY <1>0, <1>1
    <3> QED
      BY <2>2, <3>1 DEF Held!Covered, Held!Released
  <2>5. ASSUME NEW s \in 1..session, NEW R, NEW kind \in {"held", "released"}, Held!Did(kind, s, R)'
        PROVE  \/ Held!Did(kind, s, R)
               \/ s = session /\ row.kind = kind /\ row.refused = R
    BY <1>1, <2>2, <2>5 DEF Held!Did
  <2>6. Held!HeldNoLonger'
    <3> SUFFICES ASSUME NEW R \in Refusals, NEW s \in (MaxHeldSessions + 1)..session,
                        Held!Did("held", s, R)',
                        \A t \in (s - MaxHeldSessions)..(s - 1) : Held!Covered(t, R)'
                 PROVE  \E t \in (s - MaxHeldSessions)..(s - 1) : Held!Released(t)'
      BY <1>1 DEF Held!HeldNoLonger
    <3>1. s \in 1..session /\ \A t \in (s - MaxHeldSessions)..(s - 1) : t \in 1..(session - 1)
      BY <1>0
    <3>2. \A t \in (s - MaxHeldSessions)..(s - 1) : Held!Covered(t, R)
      BY <2>4, <3>1
    <3>3. CASE Held!Did("held", s, R)
      BY <2>4, <3>1, <3>2, <3>3 DEF Held!HeldOnTime, Held!HeldNoLonger
    <3>4. CASE s = session /\ row.kind = "held" /\ row.refused = R
      <4>1. Held!Streak(R) < MaxHeldSessions /\ session > MaxHeldSessions
        BY <1>0, <1>1, <3>4
      <4>2. ~\A t \in (session - MaxHeldSessions)..(session - 1) :
                Held!Covered(t, R) /\ ~Held!Released(t)
        <5>1. /\ Held!Streak(R) \in Nat
              /\ session > MaxHeldSessions
                 /\ (\A t \in (session - MaxHeldSessions)..(session - 1) :
                       Held!Covered(t, R) /\ ~Held!Released(t))
                 => Held!Streak(R) >= MaxHeldSessions
          BY StreakCounts
        <5> QED
          BY <1>0, <4>1, <5>1
      <4> QED
        BY <2>4, <3>1, <3>2, <3>4, <4>2
    <3> QED
      BY <2>5, <3>1, <3>3, <3>4
  <2>7. Held!ReleasedNoSooner'
    <3> SUFFICES ASSUME NEW R \in Refusals, NEW s \in 1..session, Held!Did("released", s, R)'
                 PROVE  Held!Cardinality({t \in 1..(s - 1) : Held!Covered(t, R)'}) >= MaxHeldSessions
      BY <1>1 DEF Held!ReleasedNoSooner
    <3>1. {t \in 1..(s - 1) : Held!Covered(t, R)'} = {t \in 1..(s - 1) : Held!Covered(t, R)}
      BY <1>0, <2>4
    <3>2. CASE Held!Did("released", s, R)
      BY <3>1, <3>2 DEF Held!HeldOnTime, Held!ReleasedNoSooner
    <3>3. CASE s = session /\ row.kind = "released" /\ row.refused = R
      <4>1. Held!Streak(R) >= MaxHeldSessions
        BY <1>1, <3>3
      <4> DEFINE n == Cardinality({t \in 1..(session - 1) : Held!Covered(t, R)})
      <4>2. n >= Held!Streak(R) /\ Held!Streak(R) \in Nat /\ n \in Nat
        BY StreakCounts
      <4>3. n >= MaxHeldSessions
        BY <1>0, <4>1, <4>2
      <4> QED
        BY <3>1, <3>3, <4>3, HeldCounts
    <3> QED
      BY <2>5, <3>2, <3>3
  <2> QED
    BY <2>1, <2>3, <2>6, <2>7 DEF Held!HeldOnTime
<1>2. ASSUME NEW R \in Refusals, Held!Gate(R) PROVE HeldInv'
  <2> DEFINE row == Held!Row(IF Held!Streak(R) < MaxHeldSessions THEN "held" ELSE "released", R)
  <2>1. /\ row \in RiskRows /\ row.session = session /\ row.refused = R
        /\ row.kind = "held" => Held!Streak(R) < MaxHeldSessions
        /\ row.kind = "released" => ~(Held!Streak(R) < MaxHeldSessions)
        /\ row.kind \in {"held", "released"}
    BY <1>0 DEF Held!Row, RiskRows, Held!Kinds
  <2>2. Held!Streak(R) \in Nat
    BY StreakCounts
  <2>3. riskRows' = <<row>> \o riskRows /\ UNCHANGED session
    BY <1>2 DEF Held!Gate, Held!Write
  <2> HIDE DEF row
  <2>4. ~(Held!Streak(R) < MaxHeldSessions) => Held!Streak(R) >= MaxHeldSessions
    BY <1>0, <2>2
  <2> QED
    BY <1>1, <2>1, <2>3, <2>4
<1>3. CASE Held!OtherRisk
  <2> DEFINE row == Held!Row("other", {})
  <2>1. row \in RiskRows /\ row.session = session /\ row.refused = {} /\ row.kind = "other"
    BY <1>0 DEF Held!Row, RiskRows, Held!Kinds
  <2>2. riskRows' = <<row>> \o riskRows /\ UNCHANGED session
    BY <1>3 DEF Held!OtherRisk, Held!Write
  <2> HIDE DEF row
  <2> QED
    BY <1>1, <2>1, <2>2
<1>4. CASE Held!NextSession
  <2>1. riskRows' = riskRows /\ session' = session + 1 /\ session < MaxSession
    BY <1>4 DEF Held!NextSession
  <2>2. Held!TypeOK' /\ session' \in Nat
    BY <1>0, <2>1 DEF Held!TypeOK
  <2>3. ASSUME NEW R, NEW kind PROVE ~Held!Did(kind, session + 1, R)
    BY <1>0 DEF Held!Did, Held!TypeOK
  <2>4. Held!HeldNoLonger'
    <3> SUFFICES ASSUME NEW R \in Refusals, NEW s \in (MaxHeldSessions + 1)..(session + 1),
                        Held!Did("held", s, R),
                        \A t \in (s - MaxHeldSessions)..(s - 1) : Held!Covered(t, R)
                 PROVE  \E t \in (s - MaxHeldSessions)..(s - 1) : Held!Released(t)
      BY <2>1 DEF Held!HeldNoLonger, Held!Did, Held!Covered, Held!Released
    <3>1. s \in (MaxHeldSessions + 1)..session
      BY <1>0, <2>3
    <3> QED
      BY <3>1 DEF Held!HeldOnTime, Held!HeldNoLonger
  <2>5. Held!ReleasedNoSooner'
    <3> SUFFICES ASSUME NEW R \in Refusals, NEW s \in 1..(session + 1), Held!Did("released", s, R)
                 PROVE  Held!Cardinality({t \in 1..(s - 1) : Held!Covered(t, R)}) >= MaxHeldSessions
      BY <2>1 DEF Held!ReleasedNoSooner, Held!Did, Held!Covered
    <3>1. s \in 1..session
      BY <1>0, <2>3
    <3> QED
      BY <3>1 DEF Held!HeldOnTime, Held!ReleasedNoSooner
  <2> QED
    BY <2>1, <2>2, <2>4, <2>5 DEF Held!HeldOnTime
<1>5. CASE UNCHANGED heldVars
  <2>1. riskRows' = riskRows /\ session' = session
    BY <1>5 DEF heldVars
  <2>2. /\ riskRows' \in Seq(RiskRows) /\ Held!TypeOK'
    BY <2>1 DEF Held!TypeOK
  <2>3. Held!HeldOnTime'
    BY <2>1 DEF Held!HeldOnTime, Held!HeldNoLonger, Held!ReleasedNoSooner, Held!Did, Held!Covered,
                Held!Released
  <2> QED
    BY <2>2, <2>3
<1> QED
  BY <1>2, <1>3, <1>4, <1>5 DEF Held!Next

-----------------------------------------------------------------------------
(* The life of a position's trail (Trail).                                 *)

(* One run of the slot has its decision row; the others still evaluate.    *)
OneWins ==
  /\ \A t \in Runs : runs[t].step \in {"won", "saved"} => decided
  /\ \A t, u \in Runs :
       runs[t].step \in {"won", "saved"} /\ runs[u].step \in {"won", "saved"} => t = u

(* Without protective stops a position closes only by the run that won,    *)
(* which drops its trail.                                                  *)
FlatIsClean ==
  ~Stops /\ ~position.held =>
    /\ trail = Trails!None
    /\ \A t \in Runs : /\ runs[t].step \notin {"won", "saved"}
                       /\ runs[t].step = "evaluated" => decided

(* What a run holds back is of the position it evaluated, if that is still *)
(* held.                                                                   *)
RunsAreOfPosition ==
  \A t \in Runs :
    position.held /\ runs[t].step # "idle" =>
      runs[t].trail.entry = position.entry /\ runs[t].trail.peak <= position.top

(* A peak that may be trusted was seen by a decision that counted, or is   *)
(* about to be.                                                            *)
TrustIsEarned ==
  /\ trail.quality = "live" => rose
  /\ trail # Trails!None => trail.quality \in {"adopted", "live"}
  /\ \A t \in Runs :
       /\ runs[t].step # "idle" => runs[t].trail.quality \in {"adopted", "live"}
       /\ runs[t].step = "evaluated" =>
            (runs[t].trail.quality = "live" \/ runs[t].exit = "peak" => rose \/ runs[t].up)
       /\ runs[t].step = "won" => (runs[t].trail.quality = "live" => rose)

(* A run adds one decision to what the record counts, and one that found   *)
(* no record adds the first.                                               *)
AgesByDecisions ==
  \A t \in Runs :
    /\ runs[t].step # "idle" => runs[t].trail.since <= runs[t].trail.held
    /\ runs[t].step = "evaluated" /\ ~decided =>
         IF runs[t].new THEN runs[t].trail.held <= 1 /\ trail = Trails!None
         ELSE runs[t].trail.held <= wins + 1
    /\ runs[t].step = "won" => runs[t].trail.held <= wins

TrailInv ==
  /\ OneWins /\ FlatIsClean /\ RunsAreOfPosition /\ TrustIsEarned /\ AgesByDecisions
  /\ Trails!TrailIsEarned
(* A trail keeps its entry, its peak and its ages through one evaluation,  *)
(* and a rule measured from the peak speaks only of a peak it may trust.   *)
LEMMA AdvanceIs ==
  ASSUME Trails!PricesAssumption, Trails!RulesAssumption,
         NEW st \in Trails!Trails, NEW px \in Prices, NEW hi \in Prices
  PROVE  LET a == Trails!Advance(st, px, hi)
         IN  /\ a \in Trails!Trails
             /\ a.entry = st.entry /\ a.peak = Trails!Best(st.peak, px) /\ a.held = st.held + 1
             /\ a.since = (IF px > st.peak THEN 0 ELSE st.since + 1)
             /\ a.quality = (IF px > st.peak /\ st.quality = "adopted" THEN "live" ELSE st.quality)
<1> DEFINE high == Trails!Best(IF st.high > 0 THEN st.high ELSE st.peak, hi)
           off == Rules.fadeOff > 0 /\ 10 * px <= high * (10 - Rules.fadeOff)
           new == px > st.peak
           a == [st EXCEPT !.peak = Trails!Best(st.peak, px), !.held = @ + 1,
                           !.since = IF new THEN 0 ELSE @ + 1,
                           !.high = high, !.last = hi,
                           !.lower = IF st.last > 0 /\ hi < st.last THEN @ + 1 ELSE 0,
                           !.off = IF off THEN @ + 1 ELSE 0,
                           !.quality = IF new /\ ~Trails!Trustworthy(st) THEN "live" ELSE @]
<1>1. /\ st.entry \in Trails!Known /\ st.peak \in Trails!Known /\ st.high \in Trails!Known
      /\ st.last \in Trails!Known
      /\ st.held \in Nat /\ st.since \in Nat /\ st.lower \in Nat /\ st.off \in Nat
      /\ st.back \in Nat
      /\ st.quality \in Trails!Qualities /\ px \in Trails!Known /\ hi \in Trails!Known
  BY DEF Trails!Trails, Trails!Known
<1>2. high \in Trails!Known /\ Trails!Best(st.peak, px) \in Trails!Known
  BY <1>1 DEF Trails!Best
<1> HIDE DEF high, off, new
<1>3. a \in Trails!Trails
  <2>1. /\ (IF new THEN 0 ELSE st.since + 1) \in Nat /\ st.held + 1 \in Nat
        /\ (IF st.last > 0 /\ hi < st.last THEN st.lower + 1 ELSE 0) \in Nat
        /\ (IF off THEN st.off + 1 ELSE 0) \in Nat
        /\ (IF new /\ ~Trails!Trustworthy(st) THEN "live" ELSE st.quality) \in Trails!Qualities
    BY <1>1 DEF Trails!Qualities
  <2> QED
    BY <1>1, <1>2, <2>1 DEF Trails!Trails
<1>4. /\ a.entry = st.entry /\ a.peak = Trails!Best(st.peak, px) /\ a.held = st.held + 1
      /\ a.since = (IF new THEN 0 ELSE st.since + 1)
      /\ a.quality = (IF new /\ ~Trails!Trustworthy(st) THEN "live" ELSE st.quality)
  BY DEF Trails!Trails
<1>5. a = Trails!Advance(st, px, hi)
  BY DEF Trails!Advance, high, off, new
<1> QED
  BY <1>3, <1>4, <1>5 DEF new, Trails!Trustworthy

LEMMA CountedIs ==
  ASSUME NEW st \in Trails!Trails, NEW px \in Prices
  PROVE  LET c == Trails!Counted(st, px)
         IN  /\ c \in Trails!Trails /\ c.entry = st.entry /\ c.peak = st.peak /\ c.held = st.held
             /\ c.since = st.since /\ c.quality = st.quality
BY DEF Trails!Counted, Trails!Trails

LEMMA EvaluatedIs ==
  ASSUME Trails!PricesAssumption, Trails!RulesAssumption,
         NEW st \in Trails!Trails, NEW px \in Prices, NEW hi \in Prices
  PROVE  LET e == Trails!Evaluated(st, px, hi)
         IN  /\ e.trail \in Trails!Trails /\ e.exit \in Trails!Exits /\ e.breached \in BOOLEAN
             /\ e.trail.entry = st.entry /\ e.trail.peak = Trails!Best(st.peak, px)
             /\ e.trail.held = st.held + 1
             /\ e.trail.since = (IF px > st.peak THEN 0 ELSE st.since + 1)
             /\ e.trail.quality =
                  (IF px > st.peak /\ st.quality = "adopted" THEN "live" ELSE st.quality)
             /\ e.exit = "peak" => e.trail.quality # "adopted"
<1> DEFINE adv == Trails!Advance(st, px, hi)
           st1 == Trails!Counted(adv, px)
           e == Trails!Evaluated(st, px, hi)
<1>1. /\ adv \in Trails!Trails
      /\ adv.entry = st.entry /\ adv.peak = Trails!Best(st.peak, px) /\ adv.held = st.held + 1
      /\ adv.since = (IF px > st.peak THEN 0 ELSE st.since + 1)
      /\ adv.quality = (IF px > st.peak /\ st.quality = "adopted" THEN "live" ELSE st.quality)
  BY AdvanceIs
<1> HIDE DEF adv
<1>2. /\ st1 \in Trails!Trails /\ st1.entry = adv.entry /\ st1.peak = adv.peak
      /\ st1.held = adv.held
      /\ st1.since = adv.since /\ st1.quality = adv.quality
  BY <1>1, CountedIs
<1> HIDE DEF st1
<1>3. Trails!Earlier(st1, px) \in Trails!Exits /\ (Trails!Earlier(st1, px) = "peak" => Trails!Trustworthy(st1))
  BY DEF Trails!Earlier, Trails!Exits
<1>4. /\ e.trail = st1 /\ e.breached \in BOOLEAN
      /\ (e.exit = "peak" /\ Trails!AsksGiveBack(st1, px)) \/ e.exit = Trails!Earlier(st1, px)
  BY DEF Trails!Evaluated, st1, adv, Trails!AsksGiveBack, Trails!GaveBack
<1>5. e.exit \in Trails!Exits /\ (e.exit = "peak" => st1.quality # "adopted")
  BY <1>3, <1>4 DEF Trails!AsksGiveBack, Trails!Trustworthy, Trails!Exits
<1> QED
  BY <1>1, <1>2, <1>4, <1>5

LEMMA FreshIs ==
  ASSUME NEW entry \in Trails!Known, NEW peak \in Trails!Known, NEW quality \in Trails!Qualities
  PROVE  Trails!Fresh(entry, peak, quality) \in Trails!Trails
BY DEF Trails!Fresh, Trails!Trails, Trails!Known

LEMMA SavedIs ==
  ASSUME NEW old \in Trails!Trails, NEW st \in Trails!Trails
  PROVE  LET s == Trails!Saved(old, st)
         IN  /\ s \in Trails!Trails /\ s.entry = (IF old = Trails!None THEN st.entry ELSE old.entry)
             /\ s.peak = st.peak /\ s.held = st.held /\ s.since = st.since
             /\ s.quality = st.quality
BY DEF Trails!Saved, Trails!Fresh, Trails!Trails, Trails!Known

Places == [step : {"idle", "evaluated", "won", "saved"}, trail : Trails!Trails, exit : Trails!Exits,
           breached : BOOLEAN, new : BOOLEAN, up : BOOLEAN]

LEMMA IdleIs == Trails!None \in Trails!Trails /\ Trails!Idle \in Places
BY DEF Trails!None, Trails!Fresh, Trails!Trails, Trails!Known, Trails!Idle, Places, Trails!Exits,
       Trails!Qualities

LEMMA GoesTo ==
  ASSUME Trails!TypeOK, NEW t \in Runs, NEW r \in Places, Trails!Goto(t, r)
  PROVE  /\ runs' \in [Runs -> Places] /\ runs'[t] = r
         /\ \A u \in Runs : u # t => runs'[u] = runs[u]
BY DEF Trails!TypeOK, Trails!Goto, Places

(* What a run evaluates from.                                              *)
LEMMA StartIs ==
  ASSUME Trails!PricesAssumption, Trails!TypeOK, NEW px \in Prices
  PROVE  /\ Trails!Start(px) \in Trails!Trails
         /\ trail = Trails!None => /\ Trails!Start(px).entry = position.entry
                                   /\ Trails!Start(px).peak = px
                                   /\ Trails!Start(px).held = 0 /\ Trails!Start(px).since = 0
                                   /\ Trails!Start(px).quality = "adopted"
         /\ trail # Trails!None => Trails!Start(px) = trail
<1>1. position.entry \in Trails!Known /\ px \in Trails!Known
  BY DEF Trails!TypeOK, Trails!Known
<1> QED
  BY <1>1, FreshIs DEF Trails!Start, Trails!Adopted, Trails!Fresh, Trails!TypeOK, Trails!Qualities

LEMMA EvaluateIs ==
  ASSUME Trails!PricesAssumption, Trails!RulesAssumption, Trails!TypeOK,
         NEW t \in Runs, NEW px \in Prices,
         NEW hi \in Prices, Trails!Evaluate(t, px, hi)
  PROVE  LET r == runs'[t]
         IN  /\ runs' \in [Runs -> Places] /\ \A u \in Runs : u # t => runs'[u] = runs[u]
             /\ r.step = "evaluated" /\ (r.new <=> trail = Trails!None)
             /\ r.trail.entry = Trails!Start(px).entry
             /\ r.trail.peak = Trails!Best(Trails!Start(px).peak, px)
             /\ r.trail.held = Trails!Start(px).held + 1
             /\ r.trail.since = (IF px > Trails!Start(px).peak THEN 0 ELSE Trails!Start(px).since + 1)
             /\ r.up <=> px > Trails!Start(px).peak
             /\ r.trail.quality = (IF r.up /\ Trails!Start(px).quality = "adopted" THEN "live"
                                   ELSE Trails!Start(px).quality)
             /\ r.exit = "peak" => r.trail.quality # "adopted"
<1> DEFINE e == Trails!Evaluated(Trails!Start(px), px, hi)
           r == [step |-> "evaluated", trail |-> e.trail, exit |-> e.exit, breached |-> e.breached,
                 new |-> trail = Trails!None, up |-> px > Trails!Start(px).peak]
<1>1. Trails!Start(px) \in Trails!Trails
  BY StartIs
<1>2. /\ e.trail \in Trails!Trails /\ e.exit \in Trails!Exits /\ e.breached \in BOOLEAN
      /\ e.trail.entry = Trails!Start(px).entry
      /\ e.trail.peak = Trails!Best(Trails!Start(px).peak, px)
      /\ e.trail.held = Trails!Start(px).held + 1
      /\ e.trail.since = (IF px > Trails!Start(px).peak THEN 0 ELSE Trails!Start(px).since + 1)
      /\ e.trail.quality = (IF px > Trails!Start(px).peak /\ Trails!Start(px).quality = "adopted"
                            THEN "live" ELSE Trails!Start(px).quality)
      /\ e.exit = "peak" => e.trail.quality # "adopted"
  BY <1>1, EvaluatedIs
<1> HIDE DEF e
<1>3. r \in Places
  BY <1>2 DEF Places
<1>4. Trails!Goto(t, r)
  BY DEF Trails!Evaluate, e
<1>5. /\ runs' \in [Runs -> Places] /\ runs'[t] = r
      /\ \A u \in Runs : u # t => runs'[u] = runs[u]
  BY <1>3, <1>4, GoesTo
<1>6. /\ r.step = "evaluated" /\ (r.new <=> trail = Trails!None) /\ r.trail = e.trail /\ r.exit = e.exit
      /\ r.up <=> px > Trails!Start(px).peak
  OBVIOUS
<1> HIDE DEF r
<1> QED
  BY <1>2, <1>5, <1>6
LEMMA TypeStep ==
  ASSUME Trails!PricesAssumption, Trails!RulesAssumption, Trails!SlotsAssumption,
         Trails!TypeOK, [Trails!Next]_trailVars
  PROVE  Trails!TypeOK'
<1> USE DEF Trails!TypeOK
<1>0. /\ 0 \in Trails!Known /\ Prices \subseteq Trails!Known
      /\ Trails!Flat \in [held : BOOLEAN, entry : Trails!Known, top : Trails!Known]
      /\ Trails!None \in Trails!Trails /\ Trails!Idle \in Places
  BY IdleIs DEF Trails!Known, Trails!Flat
<1>1. ASSUME NEW px \in Prices,
             Trails!BuyUnrecorded(px) \/ \E empty \in BOOLEAN : Trails!Buy(px, empty)
      PROVE  Trails!TypeOK'
  <2>1. [held |-> TRUE, entry |-> px, top |-> px] \in
          [held : BOOLEAN, entry : Trails!Known, top : Trails!Known]
    BY <1>0
  <2>2. Trails!Fresh(px, px, "adopted") \in Trails!Trails
    BY <1>0, FreshIs DEF Trails!Qualities
  <2>3. /\ trail' \in {Trails!None, trail, Trails!Fresh(px, px, "adopted")} /\ wins' \in {0, wins}
        /\ position' = [held |-> TRUE, entry |-> px, top |-> px]
        /\ rose' = FALSE /\ breaches' = 0 /\ verdict' = "hold"
        /\ UNCHANGED <<runs, slot, decided>>
    BY <1>1 DEF Trails!BuyUnrecorded, Trails!Buy, Trails!Reconciled
  <2>4. trail' \in Trails!Trails /\ wins' \in Nat /\ breaches' \in Nat
    BY <1>0, <2>2, <2>3
  <2>5. rose' \in BOOLEAN /\ verdict' \in Trails!Exits
    BY <2>3 DEF Trails!Exits
  <2> QED
    BY <2>1, <2>3, <2>4, <2>5
<1>2. ASSUME NEW t \in Runs, NEW px \in Prices, NEW hi \in Prices, Trails!Evaluate(t, px, hi)
      PROVE  Trails!TypeOK'
  <2>1. [position EXCEPT !.top = Trails!Best(@, px)] \in
          [held : BOOLEAN, entry : Trails!Known, top : Trails!Known]
    BY <1>0 DEF Trails!Best
  <2> QED
    BY <1>2, <2>1, EvaluateIs DEF Trails!Evaluate, Places
<1>3. ASSUME NEW t \in Runs, Trails!EvaluateUnpriced(t) PROVE Trails!TypeOK'
  <2>1. [Trails!Idle EXCEPT !.step = "evaluated", !.trail = trail] \in Places
    BY <1>0 DEF Places, Trails!Idle
  <2> QED
    BY <1>3, <2>1, GoesTo DEF Trails!EvaluateUnpriced, Places
<1>4. ASSUME NEW t \in Runs, Trails!Win(t) PROVE Trails!TypeOK'
  <2>1. [runs[t] EXCEPT !.step = "won"] \in Places
    BY DEF Places
  <2> QED
    BY <1>4, <2>1, GoesTo DEF Trails!Win, Places
<1>5. ASSUME NEW t \in Runs, Trails!Lose(t) \/ Trails!Die(t) PROVE Trails!TypeOK'
  BY <1>0, <1>5, GoesTo DEF Trails!Lose, Trails!Die, Places
<1>6. ASSUME NEW t \in Runs, Trails!Persist(t) PROVE Trails!TypeOK'
  <2>1. [runs[t] EXCEPT !.step = "saved"] \in Places
    BY DEF Places
  <2> QED
    BY <1>6, <2>1, GoesTo, SavedIs DEF Trails!Persist, Places
<1>7. ASSUME NEW t \in Runs, NEW sold \in BOOLEAN, Trails!Submit(t, sold) PROVE Trails!TypeOK'
  BY <1>0, <1>7, GoesTo DEF Trails!Submit, Places
<1>8. CASE Trails!StopFills
  BY <1>0, <1>8 DEF Trails!StopFills
<1>9. CASE Trails!NextSlot
  <2>1. slot' \in 1..MaxSlots
    BY <1>9 DEF Trails!NextSlot, Trails!SlotsAssumption
  <2> QED
    BY <1>9, <2>1 DEF Trails!NextSlot
<1>10. CASE UNCHANGED trailVars
  BY <1>10 DEF trailVars
<1> QED
  BY <1>1, <1>2, <1>3, <1>4, <1>5, <1>6, <1>7, <1>8, <1>9, <1>10 DEF Trails!Next

(* A stop may close a position behind a run's back, or an account may be   *)
(* read as empty; both, and a trail outlives its position unseen.          *)
NothingOutlives == ~(Stops /\ EmptyReads)

LEMMA TrailStep ==
  ASSUME Trails!PricesAssumption, Trails!RulesAssumption, NothingOutlives,
         Trails!TypeOK, TrailInv, [Trails!Next]_trailVars
  PROVE  TrailInv'
<1> USE DEF TrailInv, Trails!TrailIsEarned
<1>0. /\ Trails!None.quality = "none" /\ Trails!None.entry = 0 /\ Trails!None \in Trails!Trails
      /\ Trails!Idle \in Places
      /\ Trails!Idle.step = "idle" /\ Trails!Flat.held = FALSE
  BY IdleIs DEF Trails!None, Trails!Fresh, Trails!Idle, Trails!Flat
<1>1. ASSUME NEW px \in Prices,
             Trails!BuyUnrecorded(px) \/ \E empty \in BOOLEAN : Trails!Buy(px, empty)
      PROVE  TrailInv'
  <2>1. /\ ~position.held /\ \A t \in Runs : runs[t].step = "idle"
        /\ position' = [held |-> TRUE, entry |-> px, top |-> px]
        /\ rose' = FALSE /\ verdict' = "hold" /\ UNCHANGED <<runs, decided>>
    BY <1>1 DEF Trails!BuyUnrecorded, Trails!Buy
  <2>2. wins' = 0 /\ (trail' = Trails!None \/ trail' = Trails!Fresh(px, px, "adopted"))
    <3>1. CASE Trails!BuyUnrecorded(px)
      BY <3>1 DEF Trails!BuyUnrecorded
    <3>2. ASSUME NEW empty \in BOOLEAN, Trails!Buy(px, empty)
          PROVE  wins' = 0 /\ trail' = Trails!Fresh(px, px, "adopted")
      <4>1. Trails!Reconciled(empty) = Trails!None
        BY <2>1, <3>2 DEF Trails!Reconciled, Trails!Buy, NothingOutlives, FlatIsClean
      <4> QED
        BY <3>2, <4>1 DEF Trails!Buy
    <3> QED
      BY <1>1, <3>1, <3>2
  <2>3. /\ Trails!Fresh(px, px, "adopted").entry = px /\ Trails!Fresh(px, px, "adopted").peak = px
        /\ Trails!Fresh(px, px, "adopted").held = 0 /\ Trails!Fresh(px, px, "adopted").since = 0
        /\ Trails!Fresh(px, px, "adopted").quality = "adopted"
    BY DEF Trails!Fresh
  <2>4. px <= px /\ px \in Int
    BY DEF Trails!PricesAssumption
  <2> HIDE DEF Trails!None
  <2> QED
    BY <1>0, <2>1, <2>2, <2>3, <2>4
       DEF OneWins, FlatIsClean, RunsAreOfPosition, TrustIsEarned, AgesByDecisions,
           Trails!TrailIsThisPosition, Trails!PeakIsEarned, Trails!DecisionsAreCounted
<1>2. ASSUME NEW t \in Runs, NEW px \in Prices, NEW hi \in Prices, Trails!Evaluate(t, px, hi)
      PROVE  TrailInv'
  <2>1. /\ position.held /\ ~decided /\ runs[t].step = "idle"
        /\ position' = [position EXCEPT !.top = Trails!Best(@, px)]
        /\ UNCHANGED <<trail, slot, decided, wins, rose, breaches, verdict>>
    BY <1>2 DEF Trails!Evaluate
  <2>0. /\ px \in Nat /\ position.top \in Nat /\ trail \in Trails!Trails /\ trail.peak \in Nat
        /\ \A u \in Runs : runs[u].trail.peak \in Nat
    <3>1. Trails!Known \subseteq Nat /\ px \in Trails!Known
      BY DEF Trails!Known, Trails!PricesAssumption
    <3>2. position.top \in Trails!Known /\ trail \in Trails!Trails /\ \A u \in Runs : runs[u].trail \in Trails!Trails
      BY DEF Trails!TypeOK
    <3>3. \A st \in Trails!Trails : st.peak \in Trails!Known
      BY DEF Trails!Trails
    <3> QED
      BY <3>1, <3>2, <3>3
  <2>2. /\ position'.held = position.held /\ position'.entry = position.entry
        /\ position'.top = Trails!Best(position.top, px)
    BY <2>1 DEF Trails!TypeOK
  <2> DEFINE r == runs'[t]
  <2>3. /\ \A u \in Runs : u # t => runs'[u] = runs[u]
        /\ r.step = "evaluated" /\ (r.new <=> trail = Trails!None)
        /\ r.trail.entry = Trails!Start(px).entry
        /\ r.trail.peak = Trails!Best(Trails!Start(px).peak, px)
        /\ r.trail.held = Trails!Start(px).held + 1
        /\ r.trail.since = (IF px > Trails!Start(px).peak THEN 0 ELSE Trails!Start(px).since + 1)
        /\ r.up <=> px > Trails!Start(px).peak
        /\ r.trail.quality = (IF r.up /\ Trails!Start(px).quality = "adopted" THEN "live"
                              ELSE Trails!Start(px).quality)
        /\ r.exit = "peak" => r.trail.quality # "adopted"
    BY <1>2, EvaluateIs
  <2>4. /\ trail = Trails!None => /\ Trails!Start(px).entry = position.entry
                                  /\ Trails!Start(px).peak = px
                                  /\ Trails!Start(px).held = 0 /\ Trails!Start(px).since = 0
                                  /\ Trails!Start(px).quality = "adopted"
        /\ trail # Trails!None => Trails!Start(px) = trail
        /\ Trails!Start(px).held \in Nat /\ Trails!Start(px).since \in Nat
    BY StartIs DEF Trails!Trails
  <2> HIDE DEF r
  <2>5. \A u \in Runs : u # t => runs'[u] = runs[u] /\ runs[u].trail.peak \in Nat
    BY <2>0, <2>3
  <2>6. RunsAreOfPosition'
    <3>1. r.trail.entry = position.entry /\ r.trail.peak <= Trails!Best(position.top, px)
      BY <2>0, <2>1, <2>2, <2>3, <2>4 DEF Trails!TrailIsThisPosition, Trails!Best
    <3>2. \A n \in Nat : n <= position.top => n <= Trails!Best(position.top, px)
      BY <2>0 DEF Trails!Best
    <3> QED
      BY <2>1, <2>2, <2>5, <3>1, <3>2 DEF RunsAreOfPosition, r
  <2>7. TrustIsEarned'
    <3>1. r.trail.quality \in {"adopted", "live"}
      BY <2>3, <2>4 DEF TrustIsEarned
    <3>2. r.trail.quality = "live" \/ r.exit = "peak" => rose \/ r.up
      BY <2>3, <2>4, <3>1 DEF TrustIsEarned
    <3> QED
      BY <2>1, <2>3, <3>1, <3>2 DEF TrustIsEarned, r
  <2>8. AgesByDecisions'
    <3>1. r.trail.since <= r.trail.held
      BY <2>3, <2>4 DEF Trails!DecisionsAreCounted
    <3>2. IF r.new THEN r.trail.held <= 1 /\ trail = Trails!None ELSE r.trail.held <= wins + 1
      BY <2>3, <2>4 DEF Trails!DecisionsAreCounted, Trails!TypeOK
    <3> QED
      BY <2>1, <2>3, <3>1, <3>2 DEF AgesByDecisions, r
  <2>9. Trails!TrailIsThisPosition'
    BY <2>0, <2>1, <2>2 DEF Trails!TrailIsThisPosition, Trails!Best
  <2> QED
    BY <2>1, <2>2, <2>3, <2>6, <2>7, <2>8, <2>9
       DEF OneWins, FlatIsClean, Trails!PeakIsEarned, Trails!DecisionsAreCounted, r
<1>3. ASSUME NEW t \in Runs, Trails!EvaluateUnpriced(t) PROVE TrailInv'
  <2> DEFINE r == [Trails!Idle EXCEPT !.step = "evaluated", !.trail = trail]
  <2>1. /\ r \in Places /\ r.step = "evaluated" /\ r.trail = trail /\ r.exit = "hold" /\ ~r.new
    BY <1>0 DEF Places, Trails!Idle, Trails!TypeOK
  <2> HIDE DEF r
  <2>2. /\ position.held /\ trail # Trails!None /\ ~decided /\ runs[t].step = "idle"
        /\ UNCHANGED <<position, trail, slot, decided, wins, rose, breaches, verdict>>
        /\ runs'[t] = r /\ \A u \in Runs : u # t => runs'[u] = runs[u]
    BY <1>3, <2>1, GoesTo DEF Trails!EvaluateUnpriced, r
  <2>3. trail.held \in Nat /\ wins \in Nat
    BY DEF Trails!TypeOK, Trails!Trails
  <2> QED
    BY <2>1, <2>2, <2>3
       DEF OneWins, FlatIsClean, RunsAreOfPosition, TrustIsEarned, AgesByDecisions,
           Trails!TrailIsThisPosition, Trails!PeakIsEarned, Trails!DecisionsAreCounted
<1>4. ASSUME NEW t \in Runs, Trails!Win(t) PROVE TrailInv'
  <2> DEFINE r == [runs[t] EXCEPT !.step = "won"]
  <2>1. /\ r \in Places /\ r.step = "won" /\ r.trail = runs[t].trail /\ r.trail.held \in Nat
    BY DEF Places, Trails!TypeOK, Trails!Trails
  <2> HIDE DEF r
  <2>2. /\ runs[t].step = "evaluated" /\ ~decided /\ decided'
        /\ wins' = (IF runs[t].new THEN 1 ELSE wins + 1)
        /\ rose' = (rose \/ runs[t].up) /\ verdict' = runs[t].exit
        /\ UNCHANGED <<position, trail, slot>>
        /\ runs'[t] = r /\ \A u \in Runs : u # t => runs'[u] = runs[u]
    BY <1>4, <2>1, GoesTo DEF Trails!Win, r
  <2>3. \A u \in Runs : runs[u].step \notin {"won", "saved"}
    BY <2>2 DEF OneWins
  <2>4. wins \in Nat /\ trail.held \in Nat /\ rose \in BOOLEAN /\ runs[t].up \in BOOLEAN
    BY DEF Trails!TypeOK, Trails!Trails
  <2>5. FlatIsClean'
    BY <2>2 DEF FlatIsClean
  <2>6. OneWins' /\ RunsAreOfPosition' /\ Trails!TrailIsThisPosition'
    BY <2>1, <2>2, <2>3 DEF OneWins, RunsAreOfPosition, Trails!TrailIsThisPosition
  <2>7. rose => rose'
    BY <2>2
  <2>8. TrustIsEarned' /\ Trails!PeakIsEarned'
    BY <2>1, <2>2, <2>3, <2>7 DEF TrustIsEarned, Trails!PeakIsEarned
  <2>9. AgesByDecisions' /\ Trails!DecisionsAreCounted'
    BY <2>1, <2>2, <2>3, <2>4 DEF AgesByDecisions, Trails!DecisionsAreCounted
  <2> QED
    BY <2>5, <2>6, <2>8, <2>9
<1>5. ASSUME NEW t \in Runs, Trails!Lose(t) \/ Trails!Die(t) PROVE TrailInv'
  <2>1. /\ runs'[t].step = "idle" /\ \A u \in Runs : u # t => runs'[u] = runs[u]
        /\ UNCHANGED <<position, trail, slot, decided, wins, rose, breaches, verdict>>
    BY <1>0, <1>5, GoesTo DEF Trails!Lose, Trails!Die
  <2> QED
    BY <2>1
       DEF OneWins, FlatIsClean, RunsAreOfPosition, TrustIsEarned, AgesByDecisions,
           Trails!TrailIsThisPosition, Trails!PeakIsEarned, Trails!DecisionsAreCounted
<1>6. ASSUME NEW t \in Runs, Trails!Persist(t) PROVE TrailInv'
  <2> DEFINE r == [runs[t] EXCEPT !.step = "saved"]
  <2>1. /\ r \in Places /\ r.step = "saved" /\ r.trail = runs[t].trail /\ r.trail \in Trails!Trails
    BY DEF Places, Trails!TypeOK
  <2> HIDE DEF r
  <2>2. /\ runs[t].step = "won" /\ trail' = Trails!Saved(trail, runs[t].trail)
        /\ UNCHANGED <<position, slot, decided, wins, rose, breaches, verdict>>
        /\ runs'[t] = r /\ \A u \in Runs : u # t => runs'[u] = runs[u]
    BY <1>6, <2>1, GoesTo DEF Trails!Persist, r
  <2>3. /\ trail'.entry = (IF trail = Trails!None THEN r.trail.entry ELSE trail.entry)
        /\ trail'.peak = r.trail.peak /\ trail'.held = r.trail.held /\ trail'.since = r.trail.since
        /\ trail'.quality = r.trail.quality
    BY <2>1, <2>2, SavedIs DEF Trails!TypeOK
  <2>4. decided /\ \A u \in Runs : u # t => runs[u].step \notin {"won", "saved"}
    BY <2>2 DEF OneWins
  <2>5. position.held \/ Stops
    BY <2>2 DEF FlatIsClean
  <2>6. OneWins' /\ FlatIsClean' /\ RunsAreOfPosition'
    <3>1. OneWins'
      BY <2>1, <2>2 DEF OneWins
    <3>2. FlatIsClean'
      BY <2>2, <2>5 DEF OneWins, FlatIsClean
    <3>3. RunsAreOfPosition'
      BY <2>1, <2>2 DEF RunsAreOfPosition
    <3> QED
      BY <3>1, <3>2, <3>3
  <2>7. TrustIsEarned' /\ Trails!PeakIsEarned'
    BY <2>1, <2>2, <2>3 DEF TrustIsEarned, Trails!PeakIsEarned
  <2>8. AgesByDecisions'
    BY <2>1, <2>2, <2>4 DEF AgesByDecisions
  <2>9. Trails!DecisionsAreCounted'
    BY <2>1, <2>2, <2>3 DEF AgesByDecisions, Trails!DecisionsAreCounted
  <2>10. Trails!TrailIsThisPosition'
    BY <2>1, <2>2, <2>3 DEF Trails!TrailIsThisPosition, RunsAreOfPosition
  <2> QED
    BY <2>6, <2>7, <2>8, <2>9, <2>10
<1>7. ASSUME NEW t \in Runs, NEW sold \in BOOLEAN, Trails!Submit(t, sold) PROVE TrailInv'
  <2>1. /\ runs[t].step = "saved" /\ runs'[t].step = "idle"
        /\ \A u \in Runs : u # t => runs'[u] = runs[u]
        /\ position' = (IF sold THEN Trails!Flat ELSE position)
        /\ trail' = (IF sold THEN Trails!None ELSE trail)
        /\ UNCHANGED <<slot, decided, wins, rose, breaches, verdict>>
    BY <1>0, <1>7, GoesTo DEF Trails!Submit
  <2>2. decided /\ \A u \in Runs : u # t => runs[u].step \notin {"won", "saved"}
    BY <2>1 DEF OneWins
  <2> QED
    BY <1>0, <2>1, <2>2
       DEF OneWins, FlatIsClean, RunsAreOfPosition, TrustIsEarned, AgesByDecisions,
           Trails!TrailIsThisPosition, Trails!PeakIsEarned, Trails!DecisionsAreCounted
<1>8. CASE Trails!StopFills
  <2>1. Stops /\ position' = Trails!Flat /\ trail' = Trails!None
        /\ UNCHANGED <<runs, slot, decided, wins, rose, breaches, verdict>>
    BY <1>8 DEF Trails!StopFills
  <2> QED
    BY <1>0, <2>1
       DEF OneWins, FlatIsClean, RunsAreOfPosition, TrustIsEarned, AgesByDecisions,
           Trails!TrailIsThisPosition, Trails!PeakIsEarned, Trails!DecisionsAreCounted
<1>9. CASE Trails!NextSlot
  <2>1. /\ \A t \in Runs : runs[t].step = "idle"
        /\ UNCHANGED <<position, trail, runs, wins, rose, breaches, verdict>>
    BY <1>9 DEF Trails!NextSlot
  <2> QED
    BY <2>1
       DEF OneWins, FlatIsClean, RunsAreOfPosition, TrustIsEarned, AgesByDecisions,
           Trails!TrailIsThisPosition, Trails!PeakIsEarned, Trails!DecisionsAreCounted
<1>10. CASE UNCHANGED trailVars
  BY <1>10
     DEF trailVars, OneWins, FlatIsClean, RunsAreOfPosition, TrustIsEarned, AgesByDecisions,
         Trails!TrailIsThisPosition, Trails!PeakIsEarned, Trails!DecisionsAreCounted
<1> QED
  BY <1>1, <1>2, <1>3, <1>4, <1>5, <1>6, <1>7, <1>8, <1>9, <1>10 DEF Trails!Next

LEMMA TrailInit ==
  ASSUME Trails!PricesAssumption, Trails!SlotsAssumption, Trails!Init
  PROVE  Trails!TypeOK /\ TrailInv
<1>1. /\ Trails!None.quality = "none" /\ Trails!None \in Trails!Trails /\ Trails!Idle \in Places
      /\ Trails!Idle.step = "idle"
      /\ Trails!Flat.held = FALSE
      /\ Trails!Flat \in [held : BOOLEAN, entry : Trails!Known, top : Trails!Known]
  BY IdleIs DEF Trails!None, Trails!Fresh, Trails!Idle, Trails!Flat, Trails!Known
<1>2. Trails!TypeOK
  <2>1. runs \in [Runs -> Places] /\ slot \in 1..MaxSlots
    BY <1>1 DEF Trails!Init, Trails!SlotsAssumption
  <2> QED
    BY <1>1, <2>1 DEF Trails!Init, Trails!TypeOK, Places, Trails!Exits
<1>3. \A t \in Runs : runs[t].step = "idle"
  BY <1>1 DEF Trails!Init
<1> QED
  BY <1>1, <1>2, <1>3
     DEF Trails!Init, TrailInv, Trails!TrailIsEarned, OneWins, FlatIsClean, RunsAreOfPosition,
         TrustIsEarned, AgesByDecisions, Trails!TrailIsThisPosition, Trails!PeakIsEarned,
         Trails!DecisionsAreCounted
-----------------------------------------------------------------------------
(* A lane's view of its market (MarketView).  The bars kept of a name are  *)
(* of the days up to now; of a session that is within the cap some name's  *)
(* bar is kept; and if every two sessions running have a name that printed *)
(* in both, both bars of one are.                                          *)
Bars == [day : Nat, level : Int]
DaysOf(s) == {s[i].day : i \in DOMAIN s}

Kept(s, today) ==
  /\ s \in Seq(Bars) /\ Len(s) <= Market!BarsToKeep
  /\ \A i \in DOMAIN s : s[i].day \in 1..(today - Len(s) + i)

Within(d, today) == d \in 1..today /\ d > today - Market!BarsToKeep

BarsAreKept ==
  /\ bars \in [Names -> Seq(Bars)] /\ day \in Nat
  /\ \A n \in Names : Kept(bars[n], day)
  /\ \A d \in Nat : Within(d, day) => \E n \in Names : d \in DaysOf(bars[n])
BarsAreJoined ==
  \A d \in Nat : Within(d, day) /\ Within(d + 1, day)
    => \E n \in Names : {d, d + 1} \subseteq DaysOf(bars[n])
BarsInv == BarsAreKept /\ (Bridged => BarsAreJoined)

LEMMA MarketConstants ==
  ASSUME InstancesAssumption
  PROVE  /\ Names # {} /\ \A n \in Names : Levels[n] \subseteq Int
         /\ Window \in Nat \ {0} /\ Dwell \in Nat \ {0}
         /\ Market!BarsToKeep \in Nat /\ Market!BarsToKeep >= Window + Dwell
<1>1. Window \in Nat \ {0} /\ Dwell \in Nat \ {0} /\ Need \in Nat /\ Slack \in Nat
  BY DEF InstancesAssumption, Market!WindowAssumption, Market!KeepAssumption
<1> QED
  BY <1>1 DEF Market!BarsToKeep, InstancesAssumption, Market!NamesAssumption

(* Dates with the k days up to d among them: the latest k of them are      *)
(* those.                                                                  *)
LEMMA LatestAre ==
  ASSUME NEW m \in Nat, NEW dates \in SUBSET (1..m), NEW d \in Int, NEW k \in Nat,
         (d - k + 1)..d \subseteq dates
  PROVE  Market!Latest(dates, d, k) \subseteq (d - k + 1)..d
<1> SUFFICES ASSUME NEW e \in Market!Latest(dates, d, k), e < d - k + 1 PROVE FALSE
  <2>1. \A e \in Market!Latest(dates, d, k) : e \in Int /\ e <= d
    BY DEF Market!Latest, Market!Upto
  <2> QED
    BY <2>1
<1> DEFINE span == (d - k + 1)..d
           from == {f \in Market!Upto(dates, d) : e <= f}
<1>1. e \in dates /\ e \in Int /\ e <= d
  BY DEF Market!Latest, Market!Upto
<1>2. Cardinality(from) <= k
  <2>1. Market!Cardinality(from) = Cardinality(from)
    BY DEF Market!Cardinality, Cardinality
  <2> QED
    BY <2>1 DEF Market!Latest
<1>3. IsFiniteSet(from)
  <2>1. from \subseteq 1..m
    BY DEF Market!Upto
  <2>2. IsFiniteSet(1..m)
    BY FS_Interval
  <2> HIDE DEF from
  <2> QED
    BY <2>1, <2>2, FS_Subset
<1>4. span \cup {e} \subseteq from
  BY <1>1 DEF Market!Upto
<1>5. IsFiniteSet(span) /\ Cardinality(span) = k
  <2>1. d - k + 1 \in Int /\ d \in Int
    OBVIOUS
  <2> QED
    BY <2>1, FS_Interval
<1>6. Cardinality(span \cup {e}) = k + 1
  <2>1. e \notin span
    OBVIOUS
  <2> QED
    BY <1>5, <2>1, FS_AddElement
<1> HIDE DEF span, from
<1>7. Cardinality(span \cup {e}) <= Cardinality(from)
  BY <1>3, <1>4, FS_Subset
<1>8. Cardinality(from) \in Nat
  BY <1>3, FS_CardinalityType
<1> QED
  BY <1>2, <1>6, <1>7, <1>8

(* The dates of the view: none but sessions, and all that are within.      *)
LEMMA DatesAre ==
  ASSUME InstancesAssumption, BarsAreKept
  PROVE  /\ Market!Dates \in SUBSET (1..day)
         /\ \A n \in Names : Market!Days(n) = DaysOf(bars[n])
         /\ \A d \in Nat : Within(d, day) => d \in Market!Dates
<1>1. \A n \in Names : Market!Days(n) = DaysOf(bars[n])
  BY DEF Market!Days, DaysOf
<1>2. ASSUME NEW n \in Names PROVE DaysOf(bars[n]) \subseteq 1..day
  <2> DEFINE s == bars[n]
  <2>1. s \in Seq(Bars) /\ day \in Nat /\ \A i \in DOMAIN s : s[i].day \in 1..(day - Len(s) + i)
    BY DEF BarsAreKept, Kept
  <2> HIDE DEF s
  <2>2. ASSUME NEW i \in DOMAIN s PROVE s[i].day \in 1..day
    <3>1. i \in 1..Len(s) /\ Len(s) \in Nat
      BY <2>1
    <3> QED
      BY <2>1, <3>1
  <2> QED
    BY <2>2 DEF DaysOf, s
<1> QED
  BY <1>1, <1>2 DEF Market!Dates, BarsAreKept

LEMMA ViewIs ==
  ASSUME InstancesAssumption, BarsInv
  PROVE  /\ day >= Window + Dwell => Market!View.state # "unknown"
         /\ Bridged => Market!ViewIsComputed
<1> DEFINE span == Window + Dwell
           dates == Market!Dates
           closes == Market!Closes
           recent == Market!Latest(dates, Market!Max(dates), Dwell)
           low == \A d \in recent : Market!AtOrBelow(dates, closes, d)
           all == \A d \in recent : Market!Averaged(dates, closes, d)
<1>0. /\ Window \in Nat \ {0} /\ Dwell \in Nat \ {0} /\ day \in Nat /\ span \in Nat
      /\ Market!BarsToKeep \in Nat /\ Market!BarsToKeep >= span
  BY MarketConstants DEF BarsInv, BarsAreKept
<1>1. /\ dates \in SUBSET (1..day) /\ \A n \in Names : Market!Days(n) = DaysOf(bars[n])
      /\ \A d \in Nat : Within(d, day) => d \in dates
  BY DatesAre DEF BarsInv
<1>2. IsFiniteSet(dates) /\ Cardinality(dates) \in Nat /\ Cardinality(dates) <= day
      /\ Market!Cardinality(dates) = Cardinality(dates)
  <2>1. IsFiniteSet(1..day) /\ Cardinality(1..day) = day
    BY <1>0, FS_Interval
  <2>2. IsFiniteSet(dates) /\ Cardinality(dates) <= day
    BY <1>1, <2>1, FS_Subset
  <2> QED
    BY <2>2, FS_CardinalityType DEF Market!Cardinality, Cardinality
<1>3. Market!View = IF Cardinality(dates) < span THEN [state |-> "unknown", computed |-> FALSE]
                    ELSE [state |-> IF low THEN "risk_off" ELSE "risk_on", computed |-> all]
  BY <1>2 DEF Market!View, Market!Needed
<1> HIDE DEF low, all, dates, closes
<1>4. CASE day < span
  <2>1. Market!View = [state |-> "unknown", computed |-> FALSE]
    BY <1>0, <1>2, <1>3, <1>4
  <2> QED
    BY <1>0, <1>4, <2>1 DEF Market!ViewIsComputed
<1>5. CASE day >= span
  <2>1. (day - span + 1)..day \subseteq dates
    <3> SUFFICES ASSUME NEW d \in (day - span + 1)..day PROVE d \in dates
      OBVIOUS
    <3>1. d \in Nat /\ Within(d, day)
      BY <1>0, <1>5 DEF Within
    <3> QED
      BY <1>1, <3>1
  <2>2. Cardinality(dates) >= span
    <3> DEFINE newest == (day - span + 1)..day
    <3>1. Cardinality(newest) = span
      <4>1. day - span + 1 \in Int /\ day \in Int
        BY <1>0
      <4> QED
        BY <1>0, <4>1, FS_Interval
    <3> HIDE DEF newest
    <3>2. Cardinality(newest) <= Cardinality(dates)
      <4>1. newest \subseteq dates
        BY <2>1 DEF newest
      <4> QED
        BY <1>2, <4>1, FS_Subset
    <3> QED
      BY <1>0, <1>2, <3>1, <3>2
  <2>3. Market!View = [state |-> IF low THEN "risk_off" ELSE "risk_on", computed |-> all]
    BY <1>0, <1>2, <1>3, <2>2
  <2>4. Market!View.state # "unknown" /\ Market!View.computed = all
    BY <2>3
  <2>5. ASSUME Bridged PROVE all
    <3>1. BarsAreJoined
      BY <2>5 DEF BarsInv
    <3>2. Market!Max(dates) = day
      <4>1. day \in dates /\ \A e \in dates : day >= e
        BY <1>0, <1>1, <1>5, <2>1
      <4>2. \A x : (x \in dates /\ \A e \in dates : x >= e) => x = day
        BY <1>0, <1>1, <4>1
      <4> QED
        BY <4>1, <4>2 DEF Market!Max
    <3>3. recent \subseteq (day - Dwell + 1)..day
      <4>1. (day - Dwell + 1)..day \subseteq dates
        BY <1>0, <2>1
      <4> QED
        BY <1>0, <1>1, <3>2, <4>1, LatestAre
    <3> HIDE DEF recent
    <3>4. ASSUME NEW d \in recent PROVE Market!Averaged(dates, closes, d)
      <4>1. d \in Int /\ d <= day /\ d >= day - Dwell + 1
        BY <1>0, <3>3
      <4>2. (d - Window + 1)..d \subseteq dates
        BY <1>0, <2>1, <4>1
      <4>3. Market!Latest(dates, d, Window) \subseteq (d - Window + 1)..d
        BY <1>0, <1>1, <4>1, <4>2, LatestAre
      <4>4. Market!Cardinality(Market!Upto(dates, d)) >= Window
        <5> DEFINE upto == Market!Upto(dates, d)
                   newest == (d - Window + 1)..d
        <5>1. upto \subseteq dates /\ newest \subseteq upto
          BY <4>1, <4>2 DEF Market!Upto
        <5>2. Cardinality(newest) = Window
          <6>1. d - Window + 1 \in Int
            BY <1>0, <4>1
          <6> QED
            BY <1>0, <4>1, <6>1, FS_Interval
        <5> HIDE DEF upto, newest
        <5>3. IsFiniteSet(upto)
          BY <1>2, <5>1, FS_Subset
        <5>4. Cardinality(newest) <= Cardinality(upto)
          BY <5>1, <5>3, FS_Subset
        <5>5. Cardinality(upto) \in Nat
          BY <5>3, FS_CardinalityType
        <5>6. Cardinality(upto) >= Window
          BY <1>0, <5>2, <5>4, <5>5
        <5> QED
          BY <5>6 DEF upto, Market!Cardinality, Cardinality
      <4>5. ASSUME NEW e \in Market!Latest(dates, d, Window)
            PROVE  Market!Returning(dates, closes, e) # {}
        <5>1. e \in Int /\ e - 1 \in Nat /\ Within(e - 1, day) /\ Within(e, day) /\ e \in dates
          BY <1>0, <1>5, <4>1, <4>2, <4>3 DEF Within
        <5>2. e - 1 \in dates
          BY <1>1, <5>1
        <5>3. PICK n \in Names : {e - 1, e} \subseteq Market!Days(n)
          <6>1. (e - 1) + 1 = e
            BY <5>1
          <6> QED
            BY <1>1, <3>1, <5>1, <6>1 DEF BarsAreJoined
        <5>4. Market!Max(Market!Before(dates, e)) = e - 1 /\ Market!Before(dates, e) # {}
          <6> DEFINE before == Market!Before(dates, e)
          <6>1. before = {f \in dates : f < e}
            BY DEF Market!Before
          <6>5. \A f \in dates : f \in Int
            BY <1>1
          <6>6. e - 1 \in before
            BY <5>1, <5>2, <6>1
          <6>7. \A f \in before : f \in Int /\ f < e
            BY <6>1, <6>5
          <6> HIDE DEF before
          <6>2. e - 1 \in before /\ \A f \in before : e - 1 >= f /\ f \in Int
            BY <5>1, <6>6, <6>7
          <6>3. \A x : (x \in before /\ \A f \in before : x >= f) => x = e - 1
            BY <5>1, <6>2
          <6>4. Market!Max(before) = e - 1
            BY <6>2, <6>3 DEF Market!Max
          <6> QED
            BY <6>2, <6>4 DEF before
        <5>5. DOMAIN closes[n] = Market!Days(n)
          BY DEF Market!Closes, closes
        <5> QED
          BY <5>3, <5>4, <5>5 DEF Market!Returning
      <4> QED
        BY <4>4, <4>5 DEF Market!Averaged
    <3> QED
      BY <3>4 DEF all, recent
  <2> QED
    BY <2>4, <2>5 DEF Market!ViewIsComputed
<1> QED
  BY <1>0, <1>4, <1>5

LEMMA PushedOut ==
  ASSUME NEW today \in Nat, Market!BarsToKeep \in Nat, NEW count, count = Market!BarsToKeep + 1,
         NEW d \in 1..(today + 1 - count + 1)
  PROVE  ~Within(d, today + 1)
  BY DEF Within

(* A session's bar is the newest, and pushes out none that is within.      *)
LEMMA SessionKeeps ==
  ASSUME InstancesAssumption, NEW s, NEW today \in Nat, Kept(s, today), NEW level \in Int
  PROVE  LET t == Market!Ingested(s, [day |-> today + 1, level |-> level])
         IN  /\ Kept(t, today + 1) /\ today + 1 \in DaysOf(t)
             /\ \A d \in DaysOf(s) : Within(d, today + 1) => d \in DaysOf(t)
<1> DEFINE bar == [day |-> today + 1, level |-> level]
           all == Append(s, bar)
<1>0. /\ s \in Seq(Bars) /\ Len(s) \in Nat /\ DOMAIN s = 1..Len(s)
      /\ \A i \in 1..Len(s) : s[i].day \in 1..(today - Len(s) + i)
      /\ Len(s) <= Market!BarsToKeep /\ Market!BarsToKeep \in Nat /\ Market!BarsToKeep > 0
      /\ bar \in Bars /\ bar.day = today + 1
  <2>1. Market!BarsToKeep \in Nat /\ Market!BarsToKeep > 0
    BY MarketConstants
  <2>2. bar \in Bars /\ bar.day = today + 1
    BY DEF Bars
  <2> HIDE DEF bar
  <2> QED
    BY <2>1, <2>2 DEF Kept
<1> HIDE DEF bar
<1>1. ~(s # << >> /\ Market!Last(s).day = bar.day)
  <2> SUFFICES ASSUME s # << >> PROVE Market!Last(s).day # bar.day
    OBVIOUS
  <2>1. Len(s) \in 1..Len(s)
    BY <1>0
  <2>2. s[Len(s)].day \in 1..today
    BY <1>0, <2>1
  <2> QED
    BY <1>0, <2>2 DEF Market!Last
<1>2. /\ all \in Seq(Bars) /\ Len(all) = Len(s) + 1
      /\ \A i \in 1..Len(s) : all[i] = s[i]
      /\ all[Len(s) + 1] = bar
  BY <1>0
<1> HIDE DEF all
<1>3. \A i \in 1..Len(all) : all[i].day \in 1..(today + 1 - Len(all) + i)
  <2> SUFFICES ASSUME NEW i \in 1..Len(all) PROVE all[i].day \in 1..(today + 1 - Len(all) + i)
    OBVIOUS
  <2>1. CASE i \in 1..Len(s)
    <3>1. all[i].day \in 1..(today - Len(s) + i)
      BY <1>0, <1>2, <2>1
    <3> QED
      BY <1>0, <1>2, <3>1
  <2>2. CASE i = Len(s) + 1
    BY <1>0, <1>2, <2>2
  <2> QED
    BY <1>0, <1>2, <2>1, <2>2
<1>4. today + 1 \in DaysOf(all) /\ \A d \in DaysOf(s) : d \in DaysOf(all)
  <2>1. DOMAIN all = 1..Len(all) /\ Len(s) + 1 \in 1..Len(all) /\ 1..Len(s) \subseteq 1..Len(all)
    BY <1>0, <1>2
  <2>2. today + 1 \in DaysOf(all)
    BY <1>0, <1>2, <2>1 DEF DaysOf
  <2>3. ASSUME NEW i \in DOMAIN s PROVE s[i].day \in DaysOf(all)
    <3>1. i \in DOMAIN all /\ all[i] = s[i]
      BY <1>0, <1>2, <2>1, <2>3
    <3> QED
      BY <3>1 DEF DaysOf
  <2> QED
    BY <2>2, <2>3 DEF DaysOf
<1>5. Market!Ingested(s, bar) = IF Len(all) > Market!BarsToKeep THEN Tail(all) ELSE all
  BY <1>1 DEF Market!Ingested, all
<1> DEFINE rest == Tail(all)
<1>6. /\ rest \in Seq(Bars) /\ Len(rest) = Len(s) /\ DOMAIN rest = 1..Len(s)
      /\ \A i \in 1..Len(s) : rest[i] = all[i + 1]
  BY <1>0, <1>2
<1> HIDE DEF rest
<1>7. CASE Len(all) > Market!BarsToKeep
  <2>1. Market!Ingested(s, bar) = rest /\ Len(s) = Market!BarsToKeep
    BY <1>0, <1>2, <1>5, <1>7 DEF rest
  <2>2. Kept(rest, today + 1)
    <3>1. ASSUME NEW i \in 1..Len(s) PROVE rest[i].day \in 1..(today + 1 - Len(s) + i)
      <4>1. i + 1 \in 1..Len(all) /\ rest[i] = all[i + 1]
        BY <1>0, <1>2, <1>6
      <4>2. all[i + 1].day \in 1..(today + 1 - Len(all) + (i + 1))
        BY <1>3, <4>1
      <4>3. today + 1 - Len(all) + (i + 1) = today + 1 - Len(s) + i
        BY <1>0, <1>2
      <4> QED
        BY <4>1, <4>2, <4>3
    <3> QED
      BY <1>0, <1>6, <3>1 DEF Kept
  <2>3. ASSUME NEW i \in 1..Len(all), Within(all[i].day, today + 1) PROVE all[i].day \in DaysOf(rest)
    <3>1. i # 1
      <4> DEFINE oldest == all[1].day
      <4>1. oldest \in 1..(today + 1 - Len(all) + 1)
        BY <1>0, <1>2, <1>3
      <4>2. Len(all) = Market!BarsToKeep + 1
        BY <1>2, <2>1
      <4> HIDE DEF oldest
      <4>3. ~Within(oldest, today + 1)
        BY <1>0, <4>1, <4>2, PushedOut
      <4> QED
        BY <2>3, <4>3 DEF oldest
    <3>2. i - 1 \in 1..Len(s) /\ (i - 1) + 1 = i
      BY <1>0, <1>2, <3>1
    <3>3. i - 1 \in DOMAIN rest /\ rest[i - 1] = all[i]
      BY <1>6, <3>2
    <3> QED
      BY <3>3 DEF DaysOf
  <2>4. \A d \in DaysOf(all) : Within(d, today + 1) => d \in DaysOf(rest)
    <3>1. DOMAIN all = 1..Len(all)
      BY <1>2
    <3> QED
      BY <2>3, <3>1 DEF DaysOf
  <2>5. Within(today + 1, today + 1)
    BY <1>0 DEF Within
  <2> QED
    BY <1>4, <2>1, <2>2, <2>4, <2>5 DEF bar
<1>8. CASE ~(Len(all) > Market!BarsToKeep)
  <2>1. Market!Ingested(s, bar) = all
    BY <1>5, <1>8
  <2>2. DOMAIN all = 1..Len(all) /\ Len(all) <= Market!BarsToKeep
    BY <1>0, <1>2, <1>8
  <2>3. Kept(all, today + 1)
    BY <1>2, <1>3, <2>2 DEF Kept
  <2> QED
    BY <1>4, <2>1, <2>3 DEF bar
<1> QED
  BY <1>7, <1>8

(* A bar published again takes the place of the one of its day.            *)
LEMMA RepublishKeeps ==
  ASSUME NEW s, NEW today \in Nat, Kept(s, today), NEW level \in Int,
         s # << >>, Market!Last(s).day = today
  PROVE  LET t == Market!Ingested(s, [day |-> today, level |-> level])
         IN  Kept(t, today) /\ DaysOf(s) \subseteq DaysOf(t)
<1> DEFINE bar == [day |-> today, level |-> level]
           front == Market!Front(s)
           kept == front \o <<bar>>
<1>0. /\ s \in Seq(Bars) /\ Len(s) \in Nat /\ Len(s) > 0 /\ DOMAIN s = 1..Len(s)
      /\ \A i \in 1..Len(s) : s[i].day \in 1..(today - Len(s) + i)
      /\ Len(s) <= Market!BarsToKeep
      /\ bar \in Bars /\ bar.day = today /\ s[Len(s)].day = today
  <2>1. bar \in Bars /\ bar.day = today
    BY DEF Bars
  <2> HIDE DEF bar
  <2>2. s[Len(s)].day = today
    BY DEF Market!Last
  <2>3. s \in Seq(Bars) /\ Len(s) <= Market!BarsToKeep
        /\ \A i \in DOMAIN s : s[i].day \in 1..(today - Len(s) + i)
    BY DEF Kept
  <2>4. Len(s) \in Nat /\ Len(s) > 0 /\ DOMAIN s = 1..Len(s)
    BY <2>3
  <2> QED
    BY <2>1, <2>2, <2>3, <2>4
<1>1. Market!Ingested(s, bar) = kept
  BY DEF Market!Ingested
<1> HIDE DEF bar
<1>2. front \in Seq(Bars) /\ Len(front) = Len(s) - 1 /\ \A i \in 1..(Len(s) - 1) : front[i] = s[i]
  BY <1>0 DEF Market!Front
<1> HIDE DEF front
<1>3. /\ kept \in Seq(Bars) /\ Len(kept) = Len(s) /\ DOMAIN kept = 1..Len(s)
      /\ \A i \in 1..Len(s) : kept[i].day = s[i].day
  <2>1. <<bar>> \in Seq(Bars) /\ Len(<<bar>>) = 1 /\ <<bar>>[1] = bar
    BY <1>0
  <2>2. /\ kept \in Seq(Bars) /\ Len(kept) = Len(front) + Len(<<bar>>)
        /\ \A i \in 1..Len(kept) :
             kept[i] = IF i <= Len(front) THEN front[i] ELSE <<bar>>[i - Len(front)]
    BY <1>2, <2>1, ConcatProperties
  <2> HIDE DEF kept
  <2>3. Len(kept) = Len(s) /\ DOMAIN kept = 1..Len(s)
    BY <1>0, <1>2, <2>1, <2>2
  <2>4. ASSUME NEW i \in 1..Len(s) PROVE kept[i].day = s[i].day
    <3> DEFINE l == Len(s)
    <3>0. l \in Nat /\ Len(front) = l - 1 /\ i \in 1..l
      BY <1>0, <1>2
    <3>3. kept[i] = IF i <= Len(front) THEN front[i] ELSE <<bar>>[i - Len(front)]
      BY <2>2, <2>3
    <3>1. CASE i <= l - 1
      <4>1. i \in 1..(l - 1)
        <5> HIDE DEF l
        <5> QED
          BY <3>0, <3>1
      <4>2. front[i] = s[i]
        BY <1>2, <4>1
      <4> HIDE DEF l
      <4> QED
        BY <3>0, <3>1, <3>3, <4>2
    <3>2. CASE i = l
      <4>1. ~(i <= Len(front)) /\ i - Len(front) = 1
        <5> HIDE DEF l
        <5> QED
          BY <3>0, <3>2
      <4>2. kept[i] = bar
        BY <2>1, <3>3, <4>1
      <4> QED
        BY <1>0, <3>2, <4>2
    <3>4. i <= l - 1 \/ i = l
      <4> HIDE DEF l
      <4> QED
        BY <3>0
    <3> QED
      BY <3>1, <3>2, <3>4
  <2> QED
    BY <2>2, <2>3, <2>4
<1> HIDE DEF kept
<1>4. Kept(kept, today)
  BY <1>0, <1>3 DEF Kept
<1>5. DaysOf(s) \subseteq DaysOf(kept)
  BY <1>0, <1>3 DEF DaysOf
<1> QED
  BY <1>1, <1>4, <1>5 DEF bar

(* What these are of, in the next state.                                   *)
LEMMA PrimesAre ==
  /\ \A n \in Names : Kept(bars[n], day)' <=> Kept(bars'[n], day')
  /\ \A n \in Names : DaysOf(bars[n])' = DaysOf(bars'[n])
  /\ \A d \in Nat : Within(d, day)' <=> Within(d, day')
  BY DEF Kept, DaysOf, Within

LEMMA SessionStep ==
  ASSUME InstancesAssumption, BarsInv, NEW prints \in (SUBSET Names) \ {{}}, NEW close,
         Market!Session(prints, close)
  PROVE  BarsInv'
<1>0. /\ day \in Nat /\ day' = day + 1 /\ bars \in [Names -> Seq(Bars)]
      /\ \A n \in Names : Kept(bars[n], day)
      /\ bars' = [n \in Names |->
           IF n \in prints THEN Market!Ingested(bars[n], [day |-> day + 1, level |-> close[n]])
           ELSE bars[n]]
      /\ Market!BarsToKeep \in Nat /\ Market!BarsToKeep > 0
  BY MarketConstants DEF BarsInv, BarsAreKept, Market!Session
<1>1. ASSUME NEW n \in prints
      PROVE  /\ Kept(bars'[n], day') /\ day' \in DaysOf(bars'[n])
             /\ \A d \in DaysOf(bars[n]) : Within(d, day') => d \in DaysOf(bars'[n])
  <2>1. n \in Names /\ close[n] \in Int
    BY MarketConstants DEF Market!Session
  <2>2. bars'[n] = Market!Ingested(bars[n], [day |-> day + 1, level |-> close[n]])
    BY <1>0, <1>1, <2>1
  <2> QED
    BY <1>0, <2>1, <2>2, SessionKeeps
<1>2. ASSUME NEW n \in Names \ prints
      PROVE  Kept(bars'[n], day') /\ DaysOf(bars'[n]) = DaysOf(bars[n])
  <2> DEFINE s == bars[n]
  <2>1. bars'[n] = s
    BY <1>0, <1>2
  <2>2. Kept(s, day)
    BY <1>0
  <2> HIDE DEF s
  <2>3. Kept(s, day + 1)
    <3>1. s \in Seq(Bars) /\ Len(s) \in Nat /\ DOMAIN s = 1..Len(s)
      BY <2>2 DEF Kept
    <3> QED
      BY <1>0, <2>2, <3>1 DEF Kept
  <2> QED
    BY <1>0, <2>1, <2>3 DEF s
<1>3. ASSUME NEW n \in Names, NEW d \in DaysOf(bars[n]), Within(d, day')
      PROVE  d \in DaysOf(bars'[n])
  BY <1>1, <1>2, <1>3
<1>4. bars' \in [Names -> Seq(Bars)]
  <2>1. \A n \in Names : bars'[n] \in Seq(Bars)
    BY <1>1, <1>2 DEF Kept
  <2> QED
    BY <1>0, <2>1
<1>5. ASSUME NEW d \in Nat, Within(d, day'), d # day' PROVE Within(d, day)
  BY <1>0, <1>5 DEF Within
<1>6. BarsAreKept'
  <2>1. ASSUME NEW d \in Nat, Within(d, day') PROVE \E n \in Names : d \in DaysOf(bars'[n])
    <3>1. CASE d = day'
      <4>1. PICK n \in prints : TRUE
        OBVIOUS
      <4> QED
        BY <1>1, <3>1, <4>1
    <3>2. CASE d # day'
      <4>1. PICK n \in Names : d \in DaysOf(bars[n])
        BY <1>5, <2>1, <3>2 DEF BarsInv, BarsAreKept
      <4> QED
        BY <1>3, <2>1, <4>1
    <3> QED
      BY <3>1, <3>2
  <2>2. \A n \in Names : Kept(bars'[n], day')
    BY <1>1, <1>2
  <2> QED
    BY <1>0, <1>4, <2>1, <2>2 DEF BarsAreKept
<1>7. ASSUME Bridged PROVE BarsAreJoined'
  <2> SUFFICES ASSUME NEW d \in Nat, Within(d, day'), Within(d + 1, day')
               PROVE  \E n \in Names : {d, d + 1} \subseteq DaysOf(bars'[n])
    BY PrimesAre DEF BarsAreJoined
  <2>1. CASE d + 1 = day'
    <3>1. d = day /\ day > 0
      BY <1>0, <2>1 DEF Within
    <3>2. PICK n \in prints : Market!Printed(n)
      BY <1>7, <3>1 DEF Market!Session
    <3>3. day \in DaysOf(bars[n])
      <4>1. bars[n] \in Seq(Bars) /\ bars[n] # << >> /\ Market!Last(bars[n]).day = day
        BY <1>0, <3>2 DEF Market!Printed
      <4>2. Len(bars[n]) \in DOMAIN bars[n] /\ bars[n][Len(bars[n])].day = day
        BY <4>1 DEF Market!Last
      <4> QED
        BY <4>2 DEF DaysOf
    <3>4. {d, d + 1} \subseteq DaysOf(bars'[n])
      BY <1>1, <2>1, <3>1, <3>3
    <3> QED
      BY <3>4
  <2>2. CASE d + 1 # day'
    <3>1. d # day' /\ d + 1 \in Nat
      BY <1>0, <2>2 DEF Within
    <3>2. Within(d, day) /\ Within(d + 1, day)
      BY <1>5, <2>2, <3>1
    <3>3. PICK n \in Names : {d, d + 1} \subseteq DaysOf(bars[n])
      BY <1>7, <3>2 DEF BarsInv, BarsAreJoined
    <3> QED
      BY <1>3, <3>3
  <2> QED
    BY <2>1, <2>2
<1> QED
  BY <1>6, <1>7 DEF BarsInv

LEMMA RepublishStep ==
  ASSUME InstancesAssumption, BarsInv, NEW n \in Names, NEW level \in Levels[n],
         Market!Republish(n, level)
  PROVE  BarsInv'
<1>0. /\ day \in Nat /\ day' = day /\ bars \in [Names -> Seq(Bars)] /\ level \in Int
      /\ Kept(bars[n], day) /\ bars[n] # << >> /\ Market!Last(bars[n]).day = day
      /\ bars' = [bars EXCEPT ![n] = Market!Ingested(bars[n], [day |-> day, level |-> level])]
  BY MarketConstants DEF BarsInv, BarsAreKept, Market!Republish, Market!Printed
<1>1. /\ Kept(bars'[n], day) /\ DaysOf(bars[n]) \subseteq DaysOf(bars'[n])
      /\ \A m \in Names \ {n} : bars'[m] = bars[m]
  BY <1>0, RepublishKeeps
<1>2. ASSUME NEW m \in Names PROVE Kept(bars'[m], day) /\ DaysOf(bars[m]) \subseteq DaysOf(bars'[m])
  <2>1. CASE m = n
    BY <1>1, <2>1
  <2>2. CASE m # n
    BY <1>1, <2>2 DEF BarsInv, BarsAreKept
  <2> QED
    BY <2>1, <2>2
<1>3. bars' \in [Names -> Seq(Bars)]
  <2>1. \A m \in Names : bars'[m] \in Seq(Bars)
    BY <1>2 DEF Kept
  <2> QED
    BY <1>0, <2>1
<1>4. BarsAreKept'
  <2>1. ASSUME NEW d \in Nat, Within(d, day) PROVE \E m \in Names : d \in DaysOf(bars'[m])
    BY <1>2, <2>1 DEF BarsInv, BarsAreKept
  <2> QED
    BY <1>0, <1>2, <1>3, <2>1, PrimesAre DEF BarsAreKept
<1>5. Bridged => BarsAreJoined'
  <2> SUFFICES ASSUME Bridged, NEW d \in Nat, Within(d, day), Within(d + 1, day)
               PROVE  \E m \in Names : {d, d + 1} \subseteq DaysOf(bars'[m])
    BY <1>0, PrimesAre DEF BarsAreJoined
  <2>1. PICK m \in Names : {d, d + 1} \subseteq DaysOf(bars[m])
    BY DEF BarsInv, BarsAreJoined
  <2> QED
    BY <1>2, <2>1
<1> QED
  BY <1>4, <1>5 DEF BarsInv

(* A lane that starts has no bars.                                         *)
LEMMA StartsEmpty ==
  ASSUME InstancesAssumption, bars = [n \in Names |-> << >>], day = 0
  PROVE  BarsInv
<1>1. Market!BarsToKeep \in Nat /\ << >> \in Seq(Bars) /\ Len(<< >>) = 0 /\ DOMAIN << >> = {}
  BY MarketConstants
<1>2. \A d : ~Within(d, day)
  BY DEF Within
<1>3. \A n \in Names : Kept(bars[n], day)
  BY <1>1 DEF Kept
<1> QED
  BY <1>1, <1>2, <1>3 DEF BarsInv, BarsAreKept, BarsAreJoined

LEMMA BarsStep ==
  ASSUME InstancesAssumption, BarsInv, [Market!Next]_marketVars
  PROVE  BarsInv'
<1>1. ASSUME NEW prints \in (SUBSET Names) \ {{}},
             NEW close \in [prints -> UNION {Levels[n] : n \in prints}],
             Market!Session(prints, close)
      PROVE  BarsInv'
  BY <1>1, SessionStep
<1>2. ASSUME NEW n \in Names, NEW level \in Levels[n], Market!Republish(n, level)
      PROVE  BarsInv'
  BY <1>2, RepublishStep
<1>3. CASE Market!Restart
  <2>1. bars' = [n \in Names |-> << >>] /\ day' = 0
    BY <1>3 DEF Market!Restart
  <2>2. Market!BarsToKeep \in Nat /\ << >> \in Seq(Bars) /\ Len(<< >>) = 0 /\ DOMAIN << >> = {}
    BY MarketConstants
  <2>3. \A d : ~Within(d, 0)
    BY DEF Within
  <2>4. \A n \in Names : Kept(bars'[n], 0)
    BY <2>1, <2>2 DEF Kept
  <2> QED
    BY <2>1, <2>2, <2>3, <2>4 DEF BarsInv, BarsAreKept, BarsAreJoined, Kept, Within, DaysOf
<1>4. ASSUME (\E tail \in Market!Tails : Market!Place(tail)) \/ Market!Poll \/ UNCHANGED marketVars
      PROVE  BarsInv'
  <2>1. UNCHANGED <<bars, day>>
    BY <1>4 DEF Market!Place, Market!Poll, marketVars
  <2> QED
    BY <2>1 DEF BarsInv, BarsAreKept, BarsAreJoined, Kept, Within, DaysOf
<1> QED
  BY <1>1, <1>2, <1>3, <1>4 DEF Market!Next

(* Whatever the bars, the view is one of three states.                     *)
LEMMA ViewSays == Market!View.state \in Market!States
<1> DEFINE recent == Market!Latest(Market!Dates, Market!Max(Market!Dates), Dwell)
           short == Market!Cardinality(Market!Dates) < Market!Needed
           low == \A d \in recent : Market!AtOrBelow(Market!Dates, Market!Closes, d)
           all == \A d \in recent : Market!Averaged(Market!Dates, Market!Closes, d)
<1>1. Market!View = IF short THEN [state |-> "unknown", computed |-> FALSE]
                    ELSE [state |-> IF low THEN "risk_off" ELSE "risk_on", computed |-> all]
  BY DEF Market!View
<1> HIDE DEF short, low, all
<1>2. Market!View.state = IF short THEN "unknown" ELSE IF low THEN "risk_off" ELSE "risk_on"
  BY <1>1
<1> QED
  BY <1>2 DEF Market!States

(* What the platform saw last, and what its events said of it.             *)
Heard ==
  /\ polled.market \in Market!States
  /\ Market!EventsSayItAll

LEMMA HeardStep ==
  ASSUME Heard, [Market!Next]_marketVars
  PROVE  Heard'
<1>1. CASE Market!Poll
  <2> DEFINE was == polled.market
             now == Market!View.state
             m == Market!MarketKind(was, now)
             k == Market!SelfKind(polled.self, Market!Assessed(place), Market!Acts(place))
  <2>1. now \in Market!States /\ was \in Market!States /\ Market!Says(event.market) = was
    BY ViewSays DEF Heard, Market!EventsSayItAll
  <2>2. /\ polled'.market = now /\ polled'.acts = Market!Acts(place)
        /\ event'.market = (IF m = "none" THEN event.market ELSE m)
        /\ event'.self = (IF k = "none" THEN event.self ELSE k)
    BY <1>1 DEF Market!Poll
  <2>3. Market!Acts(place) => k = "confirmed"
    BY DEF Market!Acts, Market!Assessed, Market!SelfKind
  <2> HIDE DEF now, was, k
  <2>4. m = "none" => was = now
    BY <2>1 DEF Market!MarketKind, Market!States
  <2>5. m # "none" => Market!Says(m) = now
    BY <2>1 DEF Market!MarketKind, Market!Says, Market!States
  <2> HIDE DEF m
  <2>6. Market!Says(event'.market) = now
    BY <2>1, <2>2, <2>4, <2>5
  <2>7. polled'.acts => event'.self = "confirmed"
    BY <2>2, <2>3
  <2> QED
    BY <2>1, <2>2, <2>6, <2>7 DEF Heard, Market!EventsSayItAll, Market!Says, Market!States
<1>2. ASSUME ~Market!Poll PROVE UNCHANGED <<polled, event>>
  BY <1>2 DEF Market!Next, Market!Session, Market!Republish, Market!Place, Market!Restart,
              marketVars
<1> QED
  BY <1>1, <1>2 DEF Heard, Market!EventsSayItAll, Market!Says, Market!States

-----------------------------------------------------------------------------
(* Side by side: a step of one component leaves the others where they are, *)
(* so that each invariant is one of all of them.                           *)
LEMMA StepOfOne ==
  ASSUME [AllNext]_allVars
  PROVE  /\ [Held!Next]_heldVars /\ [Overrides!Next]_overrideVars
         /\ [Trails!Next]_trailVars /\ [Market!Next]_marketVars
<1>1. CASE ThePool
  BY <1>1 DEF ThePool
<1>2. CASE TheGate
  BY <1>2 DEF TheGate
<1>3. CASE TheOperators
  BY <1>3 DEF TheOperators
<1>4. CASE TheTrail
  BY <1>4 DEF TheTrail
<1>5. CASE TheMarket
  BY <1>5 DEF TheMarket
<1>6. CASE UNCHANGED allVars
  BY <1>6 DEF allVars
<1> QED
  BY <1>1, <1>2, <1>3, <1>4, <1>5, <1>6 DEF AllNext

(* An exclusion holds whatever pin is set beside it: no interleaving of    *)
(* set_override, clear_override and expiry leaves a symbol buyable whose   *)
(* exclusion is the last word of the operators.                            *)
THEOREM ExclusionHolds == AllSpec => []ExcludeHolds
<1>1. AllInit => Overrides!TypeOK /\ Overrides!ExcludeHolds
  BY DEF AllInit, Overrides!Init, Overrides!TypeOK, Overrides!ExcludeHolds, Overrides!Idle,
         Overrides!Kinds, Overrides!PIN, Overrides!EXCLUDE
<1>2. Overrides!TypeOK /\ Overrides!ExcludeHolds /\ [AllNext]_allVars
        => (Overrides!TypeOK /\ Overrides!ExcludeHolds)'
  BY StepOfOne, OverridesTyped, ExcludeStep
<1> QED
  BY <1>1, <1>2, PTL DEF AllSpec, ExcludeHolds

(* Entries wait for refused exits for the cap of sessions, no longer and   *)
(* no less, whatever the sets of refusals and the cap.                     *)
THEOREM EntriesHeldOnTime == AllSpec => []HeldOnTime
<1>1. AllInit => HeldInv
  <2> SUFFICES ASSUME AllInit PROVE HeldInv
    OBVIOUS
  <2>1. riskRows = << >> /\ session = 1
    BY DEF AllInit, Held!Init
  <2>2. riskRows \in Seq(RiskRows) /\ DOMAIN riskRows = {}
    BY <2>1
  <2>3. Held!TypeOK
    BY <2>1, <2>2, InstancesAssumption DEF InstancesAssumption, Held!BoundsAssumption, Held!TypeOK
  <2>4. Held!HeldOnTime
    BY <2>2 DEF Held!HeldOnTime, Held!HeldNoLonger, Held!ReleasedNoSooner, Held!Did
  <2> QED
    BY <2>2, <2>3, <2>4 DEF HeldInv
<1>2. HeldInv /\ [AllNext]_allVars => HeldInv'
  BY InstancesAssumption, StepOfOne, HeldStep
<1>3. HeldInv => HeldOnTime
  BY DEF HeldInv, HeldOnTime
<1> QED
  BY <1>1, <1>2, <1>3, PTL DEF AllSpec

(* The trail on record is one the position that is held has earned, and    *)
(* ages by decisions that counted: for any rules and any runs of a slot    *)
(* that lose it, stall or die, unless a protective stop may close the      *)
(* position and the account may also be read as holding nothing.           *)
THEOREM TrailEarned == NothingOutlives => (AllSpec => []TrailIsEarned)
<1> SUFFICES ASSUME NothingOutlives PROVE AllSpec => []TrailIsEarned
  OBVIOUS
<1>0. Trails!PricesAssumption /\ Trails!RulesAssumption /\ Trails!SlotsAssumption
  BY InstancesAssumption DEF InstancesAssumption
<1>1. AllInit => Trails!TypeOK /\ TrailInv
  BY <1>0, TrailInit DEF AllInit
<1>2. Trails!TypeOK /\ TrailInv /\ [AllNext]_allVars => (Trails!TypeOK /\ TrailInv)'
  BY <1>0, StepOfOne, TypeStep, TrailStep
<1>3. TrailInv => TrailIsEarned
  BY DEF TrailInv, TrailIsEarned
<1> QED
  BY <1>1, <1>2, <1>3, PTL DEF AllSpec

(* Who hears only the events knows what the lane last said of its market,  *)
(* and that it asked to stand down, whether or not its names all print.    *)
THEOREM EventsSayIt == AllSpec => []Market!EventsSayItAll
<1>1. AllInit => Heard
  BY DEF AllInit, Market!Init, Heard, Market!EventsSayItAll, Market!Says, Market!States
<1>2. Heard /\ [AllNext]_allVars => Heard'
  BY StepOfOne, HeardStep
<1>3. Heard => Market!EventsSayItAll
  BY DEF Heard
<1> QED
  BY <1>1, <1>2, <1>3, PTL DEF AllSpec

THEOREM BarsInvariant == AllSpec => []BarsInv
<1>1. AllInit => BarsInv
  <2> SUFFICES ASSUME AllInit PROVE BarsInv
    OBVIOUS
  <2>1. bars = [n \in Names |-> << >>] /\ day = 0
    BY DEF AllInit, Market!Init
  <2> QED
    BY <2>1, InstancesAssumption, StartsEmpty
<1>2. BarsInv /\ [AllNext]_allVars => BarsInv'
  BY InstancesAssumption, StepOfOne, BarsStep
<1> QED
  BY <1>1, <1>2, PTL DEF AllSpec

(* A lane that has had the sessions its view spans has a view: for any     *)
(* names, however many, and whichever of them print nothing in a session.  *)
THEOREM ViewIsGiven == AllSpec => [](day >= Window + Dwell => Market!View.state # "unknown")
<1>1. BarsInv => (day >= Window + Dwell => Market!View.state # "unknown")
  BY InstancesAssumption, ViewIs
<1> QED
  BY <1>1, BarsInvariant, PTL

(* And what it answers rests on averages that are defined, for any number  *)
(* of names with gaps in their bars, if of two sessions running some name  *)
(* printed in both.                                                        *)
THEOREM MarketKnown == Bridged => (AllSpec => []MarketIsKnown)
<1> SUFFICES ASSUME Bridged PROVE AllSpec => []MarketIsKnown
  OBVIOUS
<1>1. BarsInv /\ Market!EventsSayItAll => MarketIsKnown
  BY InstancesAssumption, ViewIs DEF MarketIsKnown
<1> QED
  BY <1>1, BarsInvariant, EventsSayIt, PTL

=============================================================================
