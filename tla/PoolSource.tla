----------------------------- MODULE PoolSource -----------------------------
(***************************************************************************)
(* executor/pgpool.py and pgjobs.py: one source of the symbol pool, whose  *)
(* whole set each refresh replaces.  The guard reads the source's health   *)
(* in one transaction and the replacement is another, so tasks interleave  *)
(* at their statements, as Postgres lets them at READ COMMITTED: a DELETE  *)
(* sees the rows committed when it starts, and waits for a row another     *)
(* transaction holds.  Statements of one source touch no other's rows.     *)
(***************************************************************************)
EXTENDS Integers, FiniteSets

CONSTANTS
  Symbols,      \* what a fetch may return
  Refreshers,   \* tasks that refresh: the timer, a session's gate, a POST
  Removers,     \* tasks that remove the source
  ShrinkPct     \* max_shrink, in percent

ASSUME SymbolsAssumption == IsFiniteSet(Symbols)
ASSUME TasksAssumption == Refreshers \cap Removers = {}
ASSUME ShrinkPctAssumption == ShrinkPct \in 0..100

Tasks == Refreshers \cup Removers

VARIABLES
  rows,     \* exec_pool_source: the symbols of the source
  health,   \* exec_pool_refresh: its status and symbol_count, or "none"
  spec,     \* exec_source_spec: last_status, "never" before one, or "none"
  task,     \* what each task is doing
  last,     \* history: the set of the last committed refresh
  gone      \* history: remove() has returned and nothing added it since

vars == <<rows, health, spec, task, last, gone>>

NoHealth == [status |-> "none", count |-> 0]

(* "timer" refreshes a spec and may create the source; "push" does neither *)
(* and may carry a reason for a shrink.  doomed are the rows the DELETE    *)
(* has seen, and from "upsert" on, holds.                                  *)
Idle ==
  [step |-> "idle", kind |-> "timer", set |-> {}, reason |-> FALSE, doomed |-> {}, status |-> "ok"]

Init ==
  /\ rows = {}
  /\ health = NoHealth
  /\ spec \in {"none", "never"}
  /\ task = [t \in Tasks |-> Idle]
  /\ last = {}
  /\ gone = FALSE

At(t, step) == task[t].step = step

Goto(t, step) == task' = [task EXCEPT ![t].step = step]

(* pgjobs.add: an upsert that keeps the status of a spec already there.    *)
Add ==
  /\ spec' = IF spec = "none" THEN "never" ELSE spec
  /\ gone' = FALSE
  /\ UNCHANGED <<rows, health, task, last>>

(* pgjobs.refresh of a spec that exists and is due: a set, or SourceError. *)
Fetch(t) ==
  /\ At(t, "idle") /\ spec # "none"
  /\ \/ \E set \in SUBSET Symbols :
          task' = [task EXCEPT ![t] = [Idle EXCEPT !.step = "guard", !.set = set]]
     \/ task' = [task EXCEPT ![t] = [Idle EXCEPT !.step = "fail"]]
  /\ UNCHANGED <<rows, health, spec, last, gone>>

(* POST /pool/source: create = FALSE.                                      *)
Push(t) ==
  /\ At(t, "idle")
  /\ \E set \in SUBSET Symbols, reason \in BOOLEAN :
       task' = [task EXCEPT ![t] =
         [Idle EXCEPT !.step = "guard", !.kind = "push", !.set = set, !.reason = reason]]
  /\ UNCHANGED <<rows, health, spec, last, gone>>

(* check_shrink                                                            *)
Shrinks(prev, now) == prev > 0 /\ now * 100 < prev * (100 - ShrinkPct)

(* A refused or failed refresh is recorded by refresh(), not by a push.    *)
Refuse(t) == Goto(t, IF task[t].kind = "timer" THEN "fail" ELSE "idle")

Refused(t) ==
  \/ task[t].kind = "push" /\ health.status = "none"
  \/ ~task[t].reason /\ Shrinks(health.count, Cardinality(task[t].set))

(* The first transaction of refresh_source.                                *)
Guard(t) ==
  /\ At(t, "guard")
  /\ IF Refused(t) THEN Refuse(t) ELSE Goto(t, "replace")
  /\ UNCHANGED <<rows, health, spec, last, gone>>

(* pgjobs.remove starts with drop_source, which deletes every row.         *)
Remove(t) ==
  /\ At(t, "idle") /\ spec # "none"
  /\ task' = [task EXCEPT ![t] = [Idle EXCEPT !.step = "replace", !.kind = "remove"]]
  /\ UNCHANGED <<rows, health, spec, last, gone>>

(* Mutant: the new set is inserted and what left it stays.                 *)
KeepRows(t) ==
  /\ At(t, "replace")
  /\ task' = [task EXCEPT ![t].step = "delete", ![t].doomed = {}]
  /\ UNCHANGED <<rows, health, spec, last, gone>>

(* The DELETE starts: it sees what is committed now.                       *)
StartDelete(t) ==
  /\ At(t, "replace")
  /\ task' = [task EXCEPT ![t].step = "delete", ![t].doomed = rows \ task[t].set]
  /\ UNCHANGED <<rows, health, spec, last, gone>>

(* The row locks of an open transaction.                                   *)
Locks(t) ==
  CASE At(t, "upsert") -> task[t].doomed
    [] At(t, "commit") -> task[t].doomed \cup task[t].set
    [] OTHER           -> {}

FreeFor(t, keys) == \A u \in Tasks \ {t} : Locks(u) \cap keys = {}

Delete(t) ==
  /\ At(t, "delete") /\ FreeFor(t, task[t].doomed)
  /\ Goto(t, "upsert")
  /\ UNCHANGED <<rows, health, spec, last, gone>>

Upsert(t) ==
  /\ At(t, "upsert") /\ FreeFor(t, task[t].set)
  /\ Goto(t, "commit")
  /\ UNCHANGED <<rows, health, spec, last, gone>>

(* A row deleted while another DELETE waited for it is skipped by that one.*)
Landed(t, step) ==
  task' = [u \in Tasks |->
    IF u = t THEN [Idle EXCEPT !.step = step, !.kind = task[t].kind]
    ELSE IF At(u, "delete") THEN [task[u] EXCEPT !.doomed = @ \ task[t].doomed]
    ELSE task[u]]

(* The health row, and COMMIT.                                             *)
Commit(t) ==
  /\ At(t, "commit") /\ task[t].kind # "remove"
  /\ rows' = (rows \ task[t].doomed) \cup task[t].set
  /\ health' = [status |-> "ok", count |-> Cardinality(task[t].set)]
  /\ last' = task[t].set
  /\ Landed(t, IF task[t].kind = "timer" THEN "stamp" ELSE "idle")
  /\ UNCHANGED <<spec, gone>>

CommitDrop(t) ==
  /\ At(t, "commit") /\ task[t].kind = "remove"
  /\ rows' = rows \ task[t].doomed
  /\ health' = NoHealth
  /\ last' = {}
  /\ Landed(t, "unspec")
  /\ UNCHANGED <<spec, gone>>

(* The second transaction of pgjobs.remove, which then returns.            *)
RemoveSpec(t) ==
  /\ At(t, "unspec")
  /\ spec' = "none"
  /\ gone' = TRUE
  /\ task' = [task EXCEPT ![t] = Idle]
  /\ UNCHANGED <<rows, health, last>>

(* A deadlock victim, or a lost connection: the transaction rolls back.    *)
RollBack(t) ==
  /\ task[t].step \in {"guard", "replace", "delete", "upsert", "commit"}
  /\ IF task[t].kind = "timer" THEN Goto(t, "fail") ELSE Goto(t, "idle")
  /\ UNCHANGED <<rows, health, spec, last, gone>>

(* Mutant: a failure zeroes the count.                                     *)
FailZeroed(t) ==
  /\ At(t, "fail")
  /\ health' = [status |-> "failed", count |-> 0]
  /\ task' = [task EXCEPT ![t].step = "stamp", ![t].status = "failed"]
  /\ UNCHANGED <<rows, spec, last, gone>>

(* mark_source_failed, which keeps the set and its count.                  *)
Fail(t) ==
  /\ At(t, "fail")
  /\ health' = [status |-> "failed", count |-> health.count]
  /\ task' = [task EXCEPT ![t].step = "stamp", ![t].status = "failed"]
  /\ UNCHANGED <<rows, spec, last, gone>>

(* last_status of the spec, if it is still there.                          *)
Stamp(t) ==
  /\ At(t, "stamp")
  /\ spec' = IF spec = "none" THEN spec ELSE task[t].status
  /\ task' = [task EXCEPT ![t] = Idle]
  /\ UNCHANGED <<rows, health, last, gone>>

(* The process of a task dies; its open transaction rolls back.            *)
Crash(t) ==
  /\ ~At(t, "idle")
  /\ task' = [task EXCEPT ![t] = Idle]
  /\ UNCHANGED <<rows, health, spec, last, gone>>

Refresh(t) ==
  Fetch(t) \/ Push(t) \/ Guard(t) \/ Commit(t) \/ Fail(t) \/ Stamp(t)

Removal(t) == Remove(t) \/ CommitDrop(t) \/ RemoveSpec(t)

Statement(t) == StartDelete(t) \/ Delete(t) \/ Upsert(t) \/ RollBack(t) \/ Crash(t)

Next ==
  \/ Add
  \/ \E t \in Refreshers : Refresh(t)
  \/ \E t \in Removers : Removal(t)
  \/ \E t \in Tasks : Statement(t)

Spec == Init /\ [][Next]_vars

-----------------------------------------------------------------------------
Steps == {"idle", "guard", "replace", "delete", "upsert", "commit", "fail", "stamp", "unspec"}
Statuses == {"ok", "failed"}

(* The tables and the tasks; a source without a health row has no count.   *)
TypeOK ==
  /\ rows \subseteq Symbols
  /\ health \in [status : Statuses \cup {"none"}, count : 0..Cardinality(Symbols)]
  /\ health.status = "none" => health = NoHealth
  /\ spec \in Statuses \cup {"none", "never"}
  /\ task \in [Tasks -> [step : Steps, kind : {"timer", "push", "remove"}, set : SUBSET Symbols,
                         reason : BOOLEAN, doomed : SUBSET Symbols, status : Statuses]]
  /\ last \subseteq Symbols
  /\ gone \in BOOLEAN

(* REPLACE a source's whole set: while the health row says ok, the source  *)
(* holds what its last refresh returned and nothing else, and as many as   *)
(* the row says (refresh_source).                                          *)
WholeSet ==
  health.status = "ok" => rows = last /\ health.count = Cardinality(rows)

(* The floor of the feed: no refresh loses more than max_shrink of the set *)
(* before it unless it says why, whatever failed, was refused or was       *)
(* removed in between (check_shrink, mark_source_failed).                  *)
ShrinkIsDeliberate ==
  [][last' # last /\ health'.status = "ok"
     => \/ ~Shrinks(Cardinality(last), Cardinality(last'))
        \/ \E t \in Refreshers : At(t, "commit") /\ task[t].reason]_vars

(* remove() deletes the spec AND everything it contributed: nothing of the *)
(* source is left to be bought, or to go stale and block the sessions.     *)
RemovedStaysGone ==
  gone => rows = {} /\ health = NoHealth /\ spec = "none"

=============================================================================
