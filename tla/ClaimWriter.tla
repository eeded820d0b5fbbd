----------------------------- MODULE ClaimWriter -----------------------------
(***************************************************************************)
(* store.write_claim: the one function every writer of a claim row calls,  *)
(* for one (strategy_id, symbol).                                          *)
(*                                                                         *)
(* Two locks.  Each event loop has a FIFO asyncio.Lock for the key, which  *)
(* gives order; Postgres has a transaction-scoped advisory lock, which     *)
(* gives atomicity across loops and keeps a transaction that was cancelled *)
(* too late, or abandoned, in front of the later writers of its loop.      *)
(*                                                                         *)
(* A call has two sides: ctl, the coroutine in the event loop, and tx, the *)
(* transaction as Postgres sees it.  They disagree whenever a timeout, a   *)
(* cancel or a crash reaches one before the other.                         *)
(***************************************************************************)
EXTENDS ClaimRow

CONSTANTS
  Loops,       \* event loops that write the key
  Writes,      \* calls of write_claim, numbered in call order
  None         \* no call

ASSUME WritesAssumption == Writes \subseteq Nat
ASSUME NoneAssumption == None \notin Writes

VARIABLES
  loop,        \* [Writes -> Loops], the loop that makes the call
  stmt,        \* [Writes -> Asks], the statement it passes
  ctl,         \* the coroutine of each call
  tx,          \* the transaction of each call, as Postgres sees it
  adv,         \* the call whose transaction holds the advisory lock
  row,         \* the row as committed
  seen         \* [Writes -> Rows], the row the transaction read under the lock

vars == <<loop, stmt, ctl, tx, adv, row, seen>>

(* running: asyncio.wait(task, CLAIM_WRITE_TIMEOUT_S).  grace: the second  *)
(* wait, UNWIND_GRACE_S long, after the timeout cancelled the task.        *)
(* cgrace: the same wait after an external cancel.                         *)
Holding  == {"running", "grace", "cgrace"}
Answered == {"ok", "failed", "gave_up", "stalled", "cancelled", "dead"}
Ctl      == {"idle", "waiting"} \cup Holding \cup Answered

(* connect: no connection yet.  queued: waiting in pg_advisory_xact_lock.  *)
(* open: lock held, statements executed.  commit: COMMIT was sent.  undo:  *)
(* cancelled or orphaned, to be rolled back; it still holds what it held.  *)
Ended == {"landed", "rolled_back"}
Tx    == {"none", "connect", "queued", "open", "commit", "undo"} \cup Ended

Init ==
  /\ loop \in [Writes -> Loops]
  /\ stmt \in [Writes -> Asks]
  /\ ctl = [w \in Writes |-> "idle"]
  /\ tx = [w \in Writes |-> "none"]
  /\ adv = None
  /\ row = NoRow
  /\ seen = [w \in Writes |-> NoRow]

-----------------------------------------------------------------------------
(* The event loop's side.                                                  *)

SameLoop(w) == {v \in Writes : loop[v] = loop[w]}

(* write_claim runs to lock.acquire() without a suspension point, so the   *)
(* order of the calls is the order of the waiters.                         *)
Call(w) ==
  /\ ctl[w] = "idle"
  /\ \A v \in SameLoop(w) : v < w => ctl[v] # "idle"
  /\ ctl' = [ctl EXCEPT ![w] = "waiting"]
  /\ UNCHANGED <<loop, stmt, tx, adv, row, seen>>

(* Mutant: any waiter may be woken.                                        *)
GrantUnordered(w) ==
  /\ ctl[w] = "waiting"
  /\ \A v \in SameLoop(w) : ctl[v] \notin Holding
  /\ ctl' = [ctl EXCEPT ![w] = "running"]
  /\ tx' = [tx EXCEPT ![w] = "connect"]
  /\ UNCHANGED <<loop, stmt, adv, row, seen>>

Grant(w) ==
  /\ ctl[w] = "waiting"
  /\ \A v \in SameLoop(w) : ctl[v] \notin Holding
  /\ \A v \in SameLoop(w) : ctl[v] = "waiting" => w <= v
  /\ ctl' = [ctl EXCEPT ![w] = "running"]
  /\ tx' = [tx EXCEPT ![w] = "connect"]
  /\ UNCHANGED <<loop, stmt, adv, row, seen>>

(* The waiter's own CLAIM_WRITE_TIMEOUT_S, or a cancel while it waits: no  *)
(* transaction was created.                                                *)
StopWaiting(w, answer) ==
  /\ ctl[w] = "waiting"
  /\ ctl' = [ctl EXCEPT ![w] = answer]
  /\ UNCHANGED <<loop, stmt, tx, adv, row, seen>>

(* Mutant: a timeout that lets the waiter proceed without the lock.        *)
GiveUpAndProceed(w) ==
  /\ ctl[w] = "waiting"
  /\ ctl' = [ctl EXCEPT ![w] = "gave_up"]
  /\ tx' = [tx EXCEPT ![w] = "connect"]
  /\ UNCHANGED <<loop, stmt, adv, row, seen>>

GiveUp(w) == StopWaiting(w, "gave_up")

CancelWaiter(w) == StopWaiting(w, "cancelled")

(* task.result(): returns, or raises what the transaction raised.  A       *)
(* connection lost after COMMIT was processed raises although it landed.   *)
TaskDone(w) ==
  /\ ctl[w] = "running" /\ tx[w] \in Ended
  /\ \E answer \in IF tx[w] = "landed" THEN {"ok", "failed"} ELSE {"failed"} :
       ctl' = [ctl EXCEPT ![w] = answer]
  /\ UNCHANGED <<loop, stmt, tx, adv, row, seen>>

(* Mutant: the wait is left without cancelling what it waits on (#128).    *)
DetachTask(w) == tx' = tx

(* task.cancel(): what has not been sent to commit will be rolled back;    *)
(* what has been cannot be recalled.                                       *)
CancelTask(w) ==
  tx' = [tx EXCEPT ![w] = IF @ \in {"connect", "queued", "open"} THEN "undo" ELSE @]

Timeout(w) ==
  /\ ctl[w] = "running"
  /\ ctl' = [ctl EXCEPT ![w] = "grace"]
  /\ CancelTask(w)
  /\ UNCHANGED <<loop, stmt, adv, row, seen>>

ExternalCancel(w) ==
  /\ ctl[w] = "running"
  /\ ctl' = [ctl EXCEPT ![w] = "cgrace"]
  /\ CancelTask(w)
  /\ UNCHANGED <<loop, stmt, adv, row, seen>>

(* A second cancel, during either grace wait, ends it at once.             *)
CancelGrace(w) ==
  /\ ctl[w] \in {"grace", "cgrace"}
  /\ ctl' = [ctl EXCEPT ![w] = "cancelled"]
  /\ UNCHANGED <<loop, stmt, tx, adv, row, seen>>

(* Mutant: the lock is released only when the unwind has ended.            *)
GraceOverWhenUnwound(w) ==
  /\ ctl[w] \in {"grace", "cgrace"} /\ tx[w] \in Ended
  /\ ctl' = [ctl EXCEPT ![w] = IF @ = "grace" THEN "stalled" ELSE "cancelled"]
  /\ UNCHANGED <<loop, stmt, tx, adv, row, seen>>

(* The grace wait is over, the transaction ended or abandoned: the         *)
(* in-process lock is released either way.                                 *)
GraceOver(w) ==
  /\ ctl[w] \in {"grace", "cgrace"}
  /\ ctl' = [ctl EXCEPT ![w] = IF @ = "grace" THEN "stalled" ELSE "cancelled"]
  /\ UNCHANGED <<loop, stmt, tx, adv, row, seen>>

(* The process dies.  Its queue, locks and tasks are gone; Postgres finds  *)
(* out later, and a COMMIT it already has may still land.                  *)
Crash(p) ==
  LET mine == {w \in Writes : loop[w] = p /\ ctl[w] \in Holding \cup {"waiting"}}
  IN /\ mine # {}
     /\ ctl' = [w \in Writes |-> IF w \in mine THEN "dead" ELSE ctl[w]]
     /\ tx' = [w \in Writes |->
                 IF w \in mine /\ tx[w] \in {"connect", "queued", "open"}
                 THEN "undo" ELSE tx[w]]
     /\ UNCHANGED <<loop, stmt, adv, row, seen>>

-----------------------------------------------------------------------------
(* Postgres's side: _transaction, one round trip at a time.                *)

Connect(w) ==
  /\ tx[w] = "connect"
  /\ tx' = [tx EXCEPT ![w] = "queued"]
  /\ UNCHANGED <<loop, stmt, ctl, adv, row, seen>>

(* Mutant: no advisory lock, so transactions interleave.                   *)
LockedByNothing(w) ==
  /\ tx[w] = "queued"
  /\ tx' = [tx EXCEPT ![w] = "open"]
  /\ seen' = [seen EXCEPT ![w] = row]
  /\ UNCHANGED <<loop, stmt, ctl, adv, row>>

(* pg_advisory_xact_lock is granted; the statements, and what build reads  *)
(* and returns, are executed under it.                                     *)
Locked(w) ==
  /\ tx[w] = "queued" /\ adv = None
  /\ tx' = [tx EXCEPT ![w] = "open"]
  /\ adv' = w
  /\ seen' = [seen EXCEPT ![w] = row]
  /\ UNCHANGED <<loop, stmt, ctl, row>>

SendCommit(w) ==
  /\ tx[w] = "open"
  /\ tx' = [tx EXCEPT ![w] = "commit"]
  /\ UNCHANGED <<loop, stmt, ctl, adv, row, seen>>

Land(w) ==
  /\ tx[w] = "commit"
  /\ tx' = [tx EXCEPT ![w] = "landed"]
  /\ row' = Effect(seen[w], stmt[w])
  /\ adv' = None
  /\ UNCHANGED <<loop, stmt, ctl, seen>>

(* A rollback that ends, an error in the transaction, a commit that fails. *)
RollBack(w) ==
  /\ tx[w] \in Tx \ (Ended \cup {"none"})
  /\ tx' = [tx EXCEPT ![w] = "rolled_back"]
  /\ adv' = IF adv = w THEN None ELSE adv
  /\ UNCHANGED <<loop, stmt, ctl, row, seen>>

-----------------------------------------------------------------------------
Caller(w) ==
  \/ Call(w) \/ Grant(w) \/ GiveUp(w) \/ CancelWaiter(w) \/ TaskDone(w)
  \/ Timeout(w) \/ ExternalCancel(w) \/ CancelGrace(w) \/ GraceOver(w)

Postgres(w) ==
  Connect(w) \/ Locked(w) \/ SendCommit(w) \/ Land(w) \/ RollBack(w)

Next ==
  \/ \E w \in Writes : Caller(w) \/ Postgres(w)
  \/ \E p \in Loops : Crash(p)

(* Only the loop's own timers are fair.  Postgres may hang for ever.       *)
Fairness ==
  \A w \in Writes : WF_vars(GiveUp(w)) /\ WF_vars(Timeout(w)) /\ WF_vars(GraceOver(w))

Spec == Init /\ [][Next]_vars

LiveSpec == Spec /\ Fairness

-----------------------------------------------------------------------------
TypeOK ==
  /\ loop \in [Writes -> Loops]
  /\ stmt \in [Writes -> Asks]
  /\ ctl \in [Writes -> Ctl]
  /\ tx \in [Writes -> Tx]
  /\ adv \in Writes \cup {None}
  /\ row \in Rows
  /\ seen \in [Writes -> Rows]

CanLand(w) ==
  ctl[w] \in {"idle", "waiting"} \/ tx[w] \in {"connect", "queued", "open", "commit"}

(* Once a call has landed, no earlier call of its loop can still land: the *)
(* row a drop deleted is not resurrected by the record before it, whatever *)
(* was cancelled, abandoned or killed in between (#124, #128).             *)
NeverOvertaken ==
  \A w, v \in Writes :
    loop[v] = loop[w] /\ w < v /\ tx[v] = "landed" => ~CanLand(w)

(* What build decided on under the lock is still the truth when it lands:  *)
(* two loops, or a loop and an abandoned transaction, never interleave.    *)
ReadIsCurrent ==
  \A w \in Writes : tx[w] \in {"open", "commit"} => seen[w] = row

(* A caller told that its write is done has it in the table; a caller told *)
(* it gave up in the queue ("ordering NOT applied") wrote nothing.         *)
AnswersAreTrue ==
  \A w \in Writes :
    /\ ctl[w] = "ok" => tx[w] = "landed"
    /\ ctl[w] = "gave_up" => tx[w] = "none"

(* Every call is answered even when Postgres never answers again: the key  *)
(* does not wedge.                                                         *)
EveryCallIsAnswered ==
  \A w \in Writes : ctl[w] = "waiting" ~> ctl[w] \in Answered

-----------------------------------------------------------------------------
(* The refinement: what a call has become, seen from its transaction.      *)
Status(w) ==
  CASE ctl[w] = "idle" -> "new"
    [] tx[w] = "landed" -> "applied"
    [] tx[w] \in {"undo", "rolled_back"} -> "void"
    [] tx[w] = "none" /\ ctl[w] \in Answered -> "void"
    [] OTHER -> "pending"

Register ==
  INSTANCE ClaimRegister WITH status <- [w \in Writes |-> Status(w)]

RegisterSpec == Register!Spec

=============================================================================
