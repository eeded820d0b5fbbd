-------------------------- MODULE ClaimWriterProofs --------------------------
(***************************************************************************)
(* Proofs about ClaimWriter, for any number of event loops and calls.      *)
(*                                                                         *)
(* NeverOvertaken is not inductive alone.  What carries it: a transaction  *)
(* starts only when every earlier call of its loop has been answered       *)
(* (StartedInOrder), an answered call can only land by a COMMIT already    *)
(* sent (AnsweredIsDoomed), and a COMMIT in flight holds the advisory      *)
(* lock (CommitHoldsLock), so it lands before any transaction behind it.   *)
(***************************************************************************)
EXTENDS ClaimWriter, TLAPS

CommitHoldsLock ==
  \A w \in Writes : tx[w] \in {"open", "commit"} => adv = w

StartedInOrder ==
  \A w, v \in Writes :
    loop[v] = loop[w] /\ w < v /\ tx[v] # "none" => ctl[w] \in Answered

NotStarted ==
  \A w \in Writes :
    /\ ctl[w] \in {"idle", "waiting", "gave_up"} => tx[w] = "none"
    /\ ctl[w] \in Holding => tx[w] # "none"

CalledInOrder ==
  \A w, v \in Writes :
    loop[v] = loop[w] /\ w < v /\ ctl[w] = "idle" => ctl[v] = "idle"

AnsweredIsDoomed ==
  \A w \in Writes :
    /\ ctl[w] \in Answered \cup {"grace", "cgrace"} =>
         tx[w] \in {"none", "undo", "commit"} \cup Ended
    /\ ctl[w] = "ok" => tx[w] = "landed"

IInv ==
  /\ TypeOK
  /\ CommitHoldsLock
  /\ ReadIsCurrent
  /\ NotStarted
  /\ CalledInOrder
  /\ StartedInOrder
  /\ AnsweredIsDoomed
  /\ NeverOvertaken

-----------------------------------------------------------------------------
(* The row after any statement callers issue is again a row.               *)
LEMMA EffectType ==
  ASSUME NEW r \in Rows, NEW s \in Asks
  PROVE  Effect(r, s) \in Rows
<1>1. s \in Statements
  BY AsksAssumption
<1>2. NoRow \in Rows
  BY AgesAssumption DEF NoRow, Rows
<1>3. \A q \in Quantities \cup {0}, a \in Ages : RowOf(q, a) \in Rows
  BY DEF RowOf, Rows
<1>4. 0 \in Ages
  BY AgesAssumption
<1>5. CASE s.kind = "record"
  <2>1. s.qty \in Quantities
    BY <1>1, <1>5 DEF Statements
  <2>2. Record(r, s) \in Rows
    BY <2>1, <1>3, <1>4 DEF Record, Rows
  <2>. QED BY <1>5, <2>2 DEF Effect
<1>6. CASE s.kind = "adopt"
  <2>1. s.qty \in Quantities
    BY <1>1, <1>6 DEF Statements
  <2>2. Adopt(r, s) \in Rows
    BY <2>1, <1>3, <1>4 DEF Adopt, Rows
  <2>. QED BY <1>6, <2>2 DEF Effect
<1>7. CASE s.kind = "drop"
  BY <1>7, <1>2 DEF Effect
<1>8. CASE s.kind = "trail"
  <2>1. s.qty \in Quantities \cup {0} /\ s.age \in Ages
    BY <1>1, <1>8 DEF Statements
  <2>2. r.qty \in Quantities \cup {0}
    BY DEF Rows
  <2>3. Trail(r, s) \in Rows
    BY <2>1, <2>2, <1>3 DEF Trail
  <2>. QED BY <1>8, <2>3 DEF Effect
<1>. QED
  BY <1>1, <1>5, <1>6, <1>7, <1>8 DEF Statements

(* No call has been made: nothing holds a lock and nothing has landed.     *)
LEMMA InitIInv == Init => IInv
<1>. SUFFICES ASSUME Init PROVE IInv
  OBVIOUS
<1>1. TypeOK
  <2>1. NoRow \in Rows
    BY AgesAssumption DEF NoRow, Rows
  <2>. QED BY <2>1 DEF Init, TypeOK, Ctl, Tx
<1>. QED
  BY <1>1 DEF Init, IInv, CommitHoldsLock, ReadIsCurrent, NotStarted, CalledInOrder,
              StartedInOrder, AnsweredIsDoomed, NeverOvertaken, Holding, Answered, Ended

(* Every step keeps the invariant.  The three that carry the argument are  *)
(* Grant (no earlier call of the loop is unanswered), the cancels (what is *)
(* not sent to commit is doomed) and Land (nobody else is committing).     *)
LEMMA StepIInv == IInv /\ [Next]_vars => IInv'
<1>. SUFFICES ASSUME IInv, [Next]_vars PROVE IInv'
  OBVIOUS
<1>. USE DEF IInv, TypeOK, CommitHoldsLock, ReadIsCurrent, NotStarted, CalledInOrder,
             StartedInOrder, AnsweredIsDoomed, NeverOvertaken, CanLand
<1>. USE WritesAssumption, NoneAssumption
<1>1. ASSUME NEW w \in Writes, Call(w) PROVE IInv'
  BY <1>1 DEF Call, SameLoop, Ctl, Tx, Holding, Answered, Ended
<1>2. ASSUME NEW w \in Writes, Grant(w) PROVE IInv'
  BY <1>2 DEF Grant, SameLoop, Ctl, Tx, Holding, Answered, Ended
<1>3. ASSUME NEW w \in Writes, GiveUp(w) PROVE IInv'
  BY <1>3 DEF GiveUp, StopWaiting, SameLoop, Ctl, Tx, Holding, Answered, Ended
<1>4. ASSUME NEW w \in Writes, CancelWaiter(w) PROVE IInv'
  BY <1>4 DEF CancelWaiter, StopWaiting, SameLoop, Ctl, Tx, Holding, Answered, Ended
<1>5. ASSUME NEW w \in Writes, TaskDone(w) PROVE IInv'
  BY <1>5 DEF TaskDone, SameLoop, Ctl, Tx, Holding, Answered, Ended
<1>6. ASSUME NEW w \in Writes, Timeout(w) PROVE IInv'
  BY <1>6 DEF Timeout, CancelTask, SameLoop, Ctl, Tx, Holding, Answered, Ended
<1>7. ASSUME NEW w \in Writes, ExternalCancel(w) PROVE IInv'
  BY <1>7 DEF ExternalCancel, CancelTask, SameLoop, Ctl, Tx, Holding, Answered, Ended
<1>8. ASSUME NEW w \in Writes, CancelGrace(w) PROVE IInv'
  BY <1>8 DEF CancelGrace, SameLoop, Ctl, Tx, Holding, Answered, Ended
<1>9. ASSUME NEW w \in Writes, GraceOver(w) PROVE IInv'
  BY <1>9 DEF GraceOver, SameLoop, Ctl, Tx, Holding, Answered, Ended
<1>10. ASSUME NEW w \in Writes, Connect(w) PROVE IInv'
  BY <1>10 DEF Connect, SameLoop, Ctl, Tx, Holding, Answered, Ended
<1>11. ASSUME NEW w \in Writes, Locked(w) PROVE IInv'
  BY <1>11 DEF Locked, SameLoop, Ctl, Tx, Holding, Answered, Ended
<1>20. {} \in SUBSET Writes /\ \A w \in Writes : {w} \in SUBSET Writes
  OBVIOUS
<1>12. ASSUME NEW w \in Writes, SendCommit(w) PROVE IInv'
  BY <1>12 DEF SendCommit, SameLoop, Ctl, Tx, Holding, Answered, Ended
<1>13. ASSUME NEW w \in Writes, Land(w) PROVE IInv'
  <2>1. row' \in Rows
    BY <1>13, EffectType DEF Land
  <2>2. TypeOK'
    BY <1>13, <2>1 DEF Land, Tx, Ended
  <2>3. \A v \in Writes : v # w => tx[v] \notin {"open", "commit"}
    BY <1>13 DEF Land
  <2>4. CommitHoldsLock' /\ ReadIsCurrent' /\ NotStarted' /\ CalledInOrder'
    BY <1>13, <2>3 DEF Land, Tx, Holding, Answered, Ended
  <2>5. StartedInOrder' /\ AnsweredIsDoomed'
    BY <1>13 DEF Land, Tx, Holding, Answered, Ended
  <2>6. NeverOvertaken'
    BY <1>13, <2>3 DEF Land, Tx, Holding, Answered, Ended
  <2>. QED
    BY <2>2, <2>4, <2>5, <2>6
<1>14. ASSUME NEW w \in Writes, RollBack(w) PROVE IInv'
  BY <1>14 DEF RollBack, SameLoop, Ctl, Tx, Holding, Answered, Ended
<1>15. ASSUME NEW p \in Loops, Crash(p) PROVE IInv'
  BY <1>15 DEF Crash, SameLoop, Ctl, Tx, Holding, Answered, Ended
<1>16. CASE UNCHANGED vars
  BY <1>16 DEF vars
<1>. QED
  BY <1>1, <1>2, <1>3, <1>4, <1>5, <1>6, <1>7, <1>8, <1>9, <1>10, <1>11, <1>12,
     <1>13, <1>14, <1>15, <1>16 DEF Next, Caller, Postgres

(* The inductive invariant holds throughout, for any loops and calls.      *)
THEOREM Invariance == Spec => []IInv
  BY InitIInv, StepIInv, PTL DEF Spec

(* Every variable keeps its type; in particular a committed row is always  *)
(* a row, whatever order the statements land in.                           *)
THEOREM TypeCorrect == Spec => []TypeOK
<1>1. IInv => TypeOK
  BY DEF IInv
<1>. QED
  BY <1>1, Invariance, PTL

(* No claim write lands after a later one of its loop: write_claim's call  *)
(* order survives timeouts, cancels, abandonment and crashes.              *)
THEOREM OrderKept == Spec => []NeverOvertaken
<1>1. IInv => NeverOvertaken
  BY DEF IInv
<1>. QED
  BY <1>1, Invariance, PTL

(* What a transaction read under the advisory lock is the committed row    *)
(* until it lands.                                                         *)
THEOREM ReadKept == Spec => []ReadIsCurrent
<1>1. IInv => ReadIsCurrent
  BY DEF IInv
<1>. QED
  BY <1>1, Invariance, PTL

(* "ok" means landed, "gave up in the queue" means never attempted.        *)
THEOREM AnswersKept == Spec => []AnswersAreTrue
<1>1. IInv => AnswersAreTrue
  BY DEF IInv, NotStarted, AnsweredIsDoomed, AnswersAreTrue
<1>. QED
  BY <1>1, Invariance, PTL

-----------------------------------------------------------------------------
(* The refinement.                                                         *)

StatusFacts ==
  \A w \in Writes :
    /\ Status(w) = "new" <=> ctl[w] = "idle"
    /\ Status(w) = "applied" <=> tx[w] = "landed"
    /\ Status(w) = "pending" <=>
         /\ ctl[w] # "idle"
         /\ \/ tx[w] \in {"connect", "queued", "open", "commit"}
            \/ tx[w] = "none" /\ ctl[w] \notin Answered
    /\ Status(w) \in {"new", "applied", "void", "pending"}

(* What a caller's and Postgres's sides together say a call has become.    *)
LEMMA StatusIs == IInv => StatusFacts
  BY DEF IInv, TypeOK, NotStarted, StatusFacts, Status, Answered, Ended, Tx, Ctl, Holding

(* Initial states map to initial states.                                   *)
LEMMA InitRefines == Init => Register!Init
<1>. SUFFICES ASSUME Init PROVE Register!Init
  OBVIOUS
<1>1. \A w \in Writes : Status(w) = "new"
  BY InitIInv, StatusIs DEF Init, StatusFacts
<1>2. row = Register!NoRow
  BY DEF Init, NoRow, Register!NoRow
<1>. QED
  BY <1>1, <1>2 DEF Init, Register!Init

(* A step that leaves the row alone and makes the calls of W, if any,      *)
(* void: the register's Void step, or a stuttering step.                   *)
LEMMA Voids ==
  ASSUME UNCHANGED <<loop, stmt, row>>, NEW W \in SUBSET Writes,
         \A w \in W : Status(w) = "pending" /\ Status(w)' = "void",
         \A w \in Writes \ W : Status(w)' = Status(w)
  PROVE  [Register!Next]_(Register!vars)
<1>1. CASE W = {}
  BY <1>1 DEF Register!vars
<1>2. CASE W # {}
  <2>1. Register!Void(W)
    BY <1>2 DEF Register!Void
  <2>. QED
    BY <2>1 DEF Register!Next
<1>. QED
  BY <1>1, <1>2

(* Every step is a step of the register or leaves it alone.                *)
LEMMA StepRefines ==
  ASSUME IInv, IInv', StatusFacts, StatusFacts', [Next]_vars
  PROVE  [Register!Next]_(Register!vars)
<1>. USE DEF IInv, TypeOK, NotStarted
<1>. USE WritesAssumption, NoneAssumption
<1>. DEFINE Voided(W) ==
       /\ UNCHANGED <<loop, stmt, row>>
       /\ \A w \in W : Status(w) = "pending" /\ Status(w)' = "void"
       /\ \A w \in Writes \ W : Status(w)' = Status(w)
<1>1. ASSUME NEW w \in Writes, Call(w) PROVE Register!Call(w)
  <2>1. Status(w) = "new" /\ Status(w)' = "pending"
    BY <1>1 DEF Call, StatusFacts, Answered, Holding
  <2>2. \A v \in Writes : v # w => Status(v)' = Status(v)
    BY <1>1 DEF Call, StatusFacts
  <2>. QED
    BY <1>1, <2>1, <2>2 DEF Call, Register!Call
<1>2. ASSUME NEW w \in Writes, Land(w) PROVE Register!Apply(w)
  <2>1. Status(w) = "pending" /\ Status(w)' = "applied"
    BY <1>2 DEF Land, StatusFacts
  <2>2. \A v \in Writes : v # w => Status(v)' = Status(v)
    BY <1>2 DEF Land, StatusFacts
  <2>3. \A v \in Register!Later(w) : Status(v) # "applied"
    BY <1>2 DEF Land, NeverOvertaken, CanLand, StatusFacts, Register!Later
  <2>4. row' = Effect(row, stmt[w])
    BY <1>2 DEF Land, ReadIsCurrent
  <2>5. Register!Effect(row, stmt[w]) = Effect(row, stmt[w])
    BY DEF Register!Effect, Effect, Register!Record, Record, Register!Adopt, Adopt,
       Register!Trail, Trail, Register!RowOf, RowOf, Register!NoRow, NoRow
  <2>6. [v \in Writes |-> Status(v)]' = [[v \in Writes |-> Status(v)] EXCEPT ![w] = "applied"]
    BY <2>1, <2>2
  <2>7. Register!Later(w) \subseteq Writes
    BY DEF Register!Later
  <2>8. UNCHANGED <<loop, stmt>>
    BY <1>2 DEF Land
  <2>. HIDE DEF IInv, TypeOK, NotStarted
  <2>. QED
    BY <2>1, <2>3, <2>4, <2>5, <2>6, <2>7, <2>8 DEF Register!Apply
<1>3. ASSUME NEW w \in Writes, Grant(w) PROVE Voided({})
  BY <1>3 DEF Grant, StatusFacts, Holding, Answered, Ended, AnsweredIsDoomed
<1>4. ASSUME NEW w \in Writes, GiveUp(w) PROVE Voided({w})
  BY <1>4 DEF GiveUp, StopWaiting, StatusFacts, Holding, Answered, Ended, AnsweredIsDoomed
<1>5. ASSUME NEW w \in Writes, CancelWaiter(w) PROVE Voided({w})
  BY <1>5 DEF CancelWaiter, StopWaiting, StatusFacts, Holding, Answered, Ended, AnsweredIsDoomed
<1>6. ASSUME NEW w \in Writes, TaskDone(w) PROVE Voided({})
  BY <1>6 DEF TaskDone, StatusFacts, Holding, Answered, Ended, AnsweredIsDoomed
<1>7. ASSUME NEW w \in Writes, CancelGrace(w) PROVE Voided({})
  BY <1>7 DEF CancelGrace, StatusFacts, Holding, Answered, Ended, AnsweredIsDoomed
<1>8. ASSUME NEW w \in Writes, GraceOver(w) PROVE Voided({})
  BY <1>8 DEF GraceOver, StatusFacts, Holding, Answered, Ended, AnsweredIsDoomed
<1>9. ASSUME NEW w \in Writes, Connect(w) PROVE Voided({})
  BY <1>9 DEF Connect, StatusFacts, Holding, Answered, Ended, AnsweredIsDoomed
<1>10. ASSUME NEW w \in Writes, Locked(w) PROVE Voided({})
  BY <1>10 DEF Locked, StatusFacts, Holding, Answered, Ended, AnsweredIsDoomed
<1>11. ASSUME NEW w \in Writes, SendCommit(w) PROVE Voided({})
  BY <1>11 DEF SendCommit, StatusFacts, Holding, Answered, Ended, AnsweredIsDoomed
<1>20. {} \in SUBSET Writes /\ \A w \in Writes : {w} \in SUBSET Writes
  OBVIOUS
<1>12. ASSUME NEW w \in Writes, ctl[w] = "running", ctl'[w] \in {"grace", "cgrace"},
             \A v \in Writes : v # w => ctl'[v] = ctl[v], CancelTask(w),
             UNCHANGED <<loop, stmt, row>>
      PROVE  \E W \in SUBSET Writes : Voided(W)
  <2>1. CASE tx[w] \in {"connect", "queued", "open"}
    <3>1. tx'[w] = "undo" /\ \A v \in Writes : v # w => tx'[v] = tx[v]
      BY <1>12, <2>1 DEF CancelTask
    <3>2. Status(w) = "pending" /\ Status(w)' = "void"
      BY <1>12, <2>1, <3>1 DEF StatusFacts, Answered
    <3>3. \A v \in Writes \ {w} : Status(v)' = Status(v)
      BY <1>12, <3>1 DEF StatusFacts
    <3>. QED BY <1>12, <1>20, <3>2, <3>3
  <2>2. CASE tx[w] \notin {"connect", "queued", "open"}
    <3>1. tx' = tx
      BY <1>12, <2>2 DEF CancelTask
    <3>2. \A v \in Writes : Status(v)' = Status(v)
      BY <1>12, <3>1, <2>2 DEF StatusFacts, Answered, Holding
    <3>. QED BY <1>12, <1>20, <3>2
  <2>. QED
    BY <2>1, <2>2
<1>13. ASSUME NEW w \in Writes, Timeout(w) \/ ExternalCancel(w)
      PROVE  \E W \in SUBSET Writes : Voided(W)
  <2>1. ctl[w] = "running" /\ ctl'[w] \in {"grace", "cgrace"} /\ CancelTask(w)
    BY <1>13 DEF Timeout, ExternalCancel
  <2>2. \A v \in Writes : v # w => ctl'[v] = ctl[v]
    BY <1>13 DEF Timeout, ExternalCancel
  <2>. QED
    BY <1>12, <1>13, <2>1, <2>2 DEF Timeout, ExternalCancel
<1>14. ASSUME NEW w \in Writes, RollBack(w) PROVE \E W \in SUBSET Writes : Voided(W)
  <2>1. CASE tx[w] = "undo"
    <3>1. Voided({})
      BY <1>14, <2>1 DEF RollBack, StatusFacts, Ended
    <3>. QED BY <1>20, <3>1
  <2>2. CASE tx[w] # "undo"
    <3>1. Voided({w})
      BY <1>14, <2>2 DEF RollBack, StatusFacts, Tx, Ended
    <3>. QED BY <1>20, <3>1
  <2>. QED
    BY <2>1, <2>2
<1>15. ASSUME NEW p \in Loops, Crash(p) PROVE \E W \in SUBSET Writes : Voided(W)
  <2>. DEFINE W == {w \in Writes : /\ loop[w] = p /\ ctl[w] \in Holding \cup {"waiting"}
                                  /\ tx[w] \in {"none", "connect", "queued", "open"}}
  <2>1. \A w \in W : Status(w) = "pending" /\ Status(w)' = "void"
    BY <1>15 DEF Crash, StatusFacts, Holding, Answered, Ended
  <2>2. \A w \in Writes \ W : Status(w)' = Status(w)
    BY <1>15 DEF Crash, StatusFacts, Holding, Answered, Ended, Tx, Ctl
  <2>3. Voided(W)
    BY <1>15, <2>1, <2>2 DEF Crash
  <2>. QED
    BY <2>3
<1>16. ASSUME UNCHANGED vars PROVE Voided({})
  BY <1>16 DEF vars, StatusFacts
<1>17. ASSUME \E W \in SUBSET Writes : Voided(W) PROVE [Register!Next]_(Register!vars)
  <2>. PICK W \in SUBSET Writes : Voided(W)
    BY <1>17
  <2>. QED
    BY Voids
<1>. HIDE DEF Voided
<1>18. (\E w \in Writes : Call(w)) => Register!Next
  BY <1>1 DEF Register!Next
<1>19. (\E w \in Writes : Land(w)) => Register!Next
  BY <1>2 DEF Register!Next
<1>. QED
  BY <1>3, <1>4, <1>5, <1>6, <1>7, <1>8, <1>9, <1>10, <1>11, <1>13, <1>14, <1>15,
     <1>16, <1>17, <1>18, <1>19, <1>20 DEF Next, Caller, Postgres

(* write_claim implements the register: each call applied at most once,    *)
(* atomically, and never after a later call of its loop.                   *)
THEOREM Refinement == Spec => RegisterSpec
<1>1. IInv /\ [Next]_vars => [Register!Next]_(Register!vars) 
  <2>. SUFFICES ASSUME IInv, [Next]_vars PROVE [Register!Next]_(Register!vars)
    OBVIOUS
  <2>1. IInv'
    BY StepIInv
  <2>2. StatusFacts
    BY StatusIs
  <2>3. IInv' => StatusFacts'
    BY StatusIs, PTL
  <2>. QED
    BY <2>1, <2>2, <2>3, StepRefines
<1>. QED
  BY <1>1, InitRefines, Invariance, PTL DEF Spec, RegisterSpec, Register!Spec

=============================================================================
