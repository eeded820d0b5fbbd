----------------------------- MODULE LaneTimers -----------------------------
(***************************************************************************)
(* When a lane decides: arming, the session alert, the re-arm retry, the   *)
(* session tasks and the stop of runtime/nautilus/contract.py and          *)
(* strategies/momentum_rotation/nautilus.py.                               *)
(*                                                                         *)
(* Two threads run the lane's code.  Clock callbacks (the session alert,   *)
(* the re-arm retry) run on the clock's thread; bars, coroutines and stops *)
(* run on the event loop.  `threaded' says whether the host really lets    *)
(* the two overlap: the code is written for both.                          *)
(***************************************************************************)
EXTENDS Integers, FiniteSets

CONSTANTS
  LastDay,    \* bound: the last session, of which nothing elapses
  LastTick,   \* bound: time stops here, before the last session
  Slots,      \* the names of decision slots
  At,         \* [Days \X Slots -> Int]: when a slot fires, -1 on a day without it
  DayLength,  \* ticks of a day
  Schedules,  \* what the operator may configure: nonempty sets of slots
  Tasks,      \* bound: session tasks alive at once
  Threads,    \* the values `threaded' may take
  Operators,  \* the values `urgents' may take
  Calendars,  \* the values `windowed' may take
  None

Days == 0..LastDay
Occurrences == Days \X Slots
Fates == {"ahead", "owed", "due", "given", "told", "dropped", "lost"}
Loop == "loop"
Clock == "clock"

ASSUME DaysAssumption == LastDay \in Nat \ {0}
ASSUME SlotAssumption == Slots # {} /\ IsFiniteSet(Slots)
ASSUME AtAssumption ==
  /\ DayLength \in Nat \ {0} /\ LastTick \in 0..(LastDay * DayLength - 1)
  /\ \A o \in Occurrences :
       At[o] = -1 \/ At[o] \in (o[1] * DayLength)..(o[1] * DayLength + DayLength - 1)
ASSUME SchedulesAssumption == Schedules \subseteq SUBSET Slots /\ {} \notin Schedules
ASSUME HostAssumption == {Threads, Operators, Calendars} \subseteq SUBSET BOOLEAN
ASSUME NoneAssumption == None \notin Days \cup Slots \cup Occurrences \cup Tasks

VARIABLES
  now, window,        \* the time; the last day the calendar describes
  slots,              \* the lane's `_slots'
  up,                 \* "down", "running" or "stopped"
  arming,             \* the task of begin_arming is alive
  announced,          \* UNARMED was logged, and the lane has not armed since
  reported,           \* `_missed_report_done'
  armed, alert,       \* `_armed_session' with `_armed_slot'; the SESSION_ALERT timer
  retry,              \* the REARM_ALERT timer
  due, dueSlot,       \* `_due', `_due_slot'
  thread,             \* where each thread is, and its locals
  live, task,         \* session tasks that run; `_session_task'
  refresh,            \* the urgent check behind a source refresh
  fate,               \* history: what became of each occurrence
  threaded, urgents,  \* the host, and whether its operator acts urgently
  windowed            \* its calendar refuses by OutsideCalendarWindow alone

clockVars == <<now, window>>
armVars == <<slots, arming, announced, reported, armed, alert, retry>>
dueVars == <<due, dueSlot, thread>>
taskVars == <<live, task, refresh>>
hostVars == <<threaded, urgents, windowed>>
vars == <<clockVars, armVars, dueVars, taskVars, hostVars, up, fate>>

Today == now \div DayLength
Idle == [at |-> "idle", day |-> None, slot |-> None]
Is(th, where) == thread[th].at = where
LoopFree == Is(Loop, "idle") /\ (threaded \/ Is(Clock, "idle"))
ClockFree == Is(Clock, "idle") /\ (threaded \/ Is(Loop, "idle"))
TaskRuns == task \in live

Init ==
  /\ now = 0 /\ window = 0
  /\ slots \in Schedules
  /\ up = "down"
  /\ arming = FALSE /\ announced = FALSE /\ reported = FALSE
  /\ armed = None /\ alert = FALSE /\ retry = FALSE
  /\ due = None /\ dueSlot = None /\ thread = [th \in {Loop, Clock} |-> Idle]
  /\ live = {} /\ task = None /\ refresh = "none"
  /\ fate = [o \in Occurrences |-> "ahead"]
  /\ threaded \in Threads /\ urgents \in Operators /\ windowed \in Calendars

-----------------------------------------------------------------------------
(* The calendar.  A day beyond the window raises OutsideCalendarWindow, or *)
(* is fetched (AlpacaCalendar): then it is `Extend', or the fetch raises   *)
(* what nobody catches.                                                    *)

Ahead(names) == {o \in Occurrences : o[2] \in names /\ At[o] > now}

(* Mutant: the slots of a day in the wrong order.                          *)
LatestOfDay(os) == {o \in os : \A p \in os : p[1] > o[1] \/ (p[1] = o[1] /\ At[p] <= At[o])}

Soonest(os) == {o \in os : \A p \in os : At[o] <= At[p]}

(* next_slot_fire: the first slot after now on a day the calendar knows.   *)
(* Slots of one instant come in the order of their names; the choice is    *)
(* some fixed order.                                                       *)
NextFire(names) ==
  LET first == Soonest({o \in Ahead(names) : o[1] <= window})
  IN  IF first = {} THEN None ELSE CHOOSE o \in first : TRUE

(* elapsed_slots: today's slots whose time has come.                       *)
Elapsed(names) ==
  {o \in Occurrences : o[1] = Today /\ o[2] \in names /\ At[o] \in 0..now}

(* The venue describes one more day.                                       *)
Extend ==
  /\ window < LastDay
  /\ window' = window + 1
  /\ UNCHANGED <<now, armVars, dueVars, taskVars, hostVars, up, fate>>

(* Timers fire on time: time does not pass an alert that has come, nor a   *)
(* callback that runs, and the first warm() fails or answers within a day. *)
(* A slot whose time comes is owed, unless the lane is stopped or has said *)
(* that it cannot decide; what a start finds owed is behind such a notice  *)
(* too, once the day is over and the lane not armed.  A lane that nothing  *)
(* will arm again loses it.                                                *)
Passing(t) ==
  {o \in Occurrences : At[o] = t /\ (up = "down" \/ o[2] \in slots)}

Forgotten == up = "running" /\ ~alert /\ ~retry /\ ~arming

Tick ==
  /\ now < LastTick
  /\ Is(Clock, "idle")
  /\ alert => At[armed] > now
  /\ now' = now + 1
  /\ now' \div DayLength # Today => ~arming \/ announced
  /\ fate' = IF up = "stopped" THEN fate
             ELSE [o \in Occurrences |->
                     IF o \in Passing(now')
                     THEN IF up = "running" /\ announced THEN "told"
                          ELSE IF Forgotten THEN "lost" ELSE "owed"
                     ELSE IF fate[o] = "owed" /\ arming /\ o[1] < now' \div DayLength
                     THEN "told" ELSE fate[o]]
  /\ UNCHANGED <<window, armVars, dueVars, taskVars, hostVars, up>>

-----------------------------------------------------------------------------
(* Start, arming, and the process that dies.                               *)

(* A start finds what was owed earlier today; what was owed on other days, *)
(* or by slots no longer configured, went with the process.                *)
Start ==
  /\ up = "down"
  /\ up' = "running"
  /\ slots' \in Schedules /\ arming' = TRUE /\ announced' = FALSE /\ reported' = FALSE
  /\ fate' = [o \in Occurrences |->
                IF fate[o] = "owed" /\ o \notin Elapsed(slots') THEN "told" ELSE fate[o]]
  /\ UNCHANGED <<clockVars, armed, alert, retry, dueVars, taskVars, hostVars>>

(* Everything a process knows goes with it; a due occurrence that nobody   *)
(* ran is owed again.                                                      *)
Crash ==
  /\ up # "down"
  /\ up' = "down"
  /\ arming' = FALSE /\ announced' = FALSE /\ reported' = FALSE
  /\ armed' = None /\ alert' = FALSE /\ retry' = FALSE /\ UNCHANGED slots
  /\ due' = None /\ dueSlot' = None /\ thread' = [th \in {Loop, Clock} |-> Idle]
  /\ live' = {} /\ task' = None /\ refresh' = "none"
  /\ fate' = [o \in Occurrences |-> IF fate[o] = "due" THEN "owed" ELSE fate[o]]
  /\ UNCHANGED <<clockVars, hostVars>>

(* warm() fails: the network, or a venue that has not described today.     *)
WarmFails ==
  /\ LoopFree /\ arming
  /\ announced' = TRUE
  /\ UNCHANGED <<clockVars, slots, arming, reported, armed, alert, retry, dueVars, taskVars,
                 hostVars, up, fate>>

(* _arm: the slots are read again, and the one alert is set for the next.  *)
(* The operator may have edited them, and an edit that cannot be read or   *)
(* used leaves the old ones.                                               *)
Arm(names) ==
  /\ slots' = names
  /\ armed' = NextFire(names) /\ alert' = TRUE
  /\ announced' = FALSE

(* report_missed_on_start, once per process and before _arm.               *)
Report ==
  /\ reported' = TRUE
  /\ fate' = IF reported THEN fate
             ELSE [o \in Occurrences |->
                     IF o \in Elapsed(slots) /\ fate[o] \in {"owed", "dropped", "lost"}
                     THEN "told" ELSE fate[o]]

(* One turn of _arm_until_resolved once warm() has answered.  A refusal of *)
(* the window is tried again; any other failure is announced and final.    *)
ArmNow ==
  /\ LoopFree /\ arming /\ Today <= window
  /\ Report
  /\ \E names \in Schedules :
       \/ /\ NextFire(names) # None
          /\ Arm(names) /\ arming' = FALSE
       \/ /\ NextFire(names) = None
          /\ slots' = names /\ announced' = TRUE
          /\ arming' = windowed
          /\ UNCHANGED <<armed, alert>>
  /\ UNCHANGED <<clockVars, retry, dueVars, taskVars, hostVars, up>>

-----------------------------------------------------------------------------
(* The session alert, on the clock's thread.                               *)

Goto(th, where) == thread' = [thread EXCEPT ![th].at = where]

AlertFires ==
  /\ ClockFree /\ alert /\ At[armed] = now
  /\ alert' = FALSE /\ armed' = None
  /\ thread' = [thread EXCEPT ![Clock] = [at |-> "rearm", day |-> armed[1], slot |-> armed[2]]]
  /\ UNCHANGED <<clockVars, slots, arming, announced, reported, retry, due, dueSlot, taskVars,
                 hostVars, up, fate>>

(* Mutant: _arm alone, as before the calendar could refuse.                *)
RearmOrDie(next) ==
  \E names \in Schedules :
    \/ /\ NextFire(names) # None
       /\ Arm(names) /\ Goto(Clock, next) /\ UNCHANGED <<retry, fate>>
    \/ /\ NextFire(names) = None
       /\ slots' = names /\ announced' = TRUE /\ Goto(Clock, next)
       /\ UNCHANGED <<armed, alert, retry, fate>>

(* An exception out of the re-arm ends the callback before it has marked   *)
(* the session that fired, if it was to.                                   *)
Abort ==
  /\ thread' = [thread EXCEPT ![Clock] = Idle]
  /\ fate' = IF Is(Clock, "rearm")
             THEN [fate EXCEPT ![<<thread[Clock].day, thread[Clock].slot>>] = "lost"]
             ELSE fate
  /\ UNCHANGED <<armed, alert, retry, announced>>

(* rearm_after_alert: armed again; or the window refuses, a retry is set   *)
(* and the lane says so; or the calendar fails otherwise, uncaught.        *)
RearmAfterAlert(next) ==
  \E names \in Schedules :
    /\ slots' = names
    /\ \/ /\ NextFire(names) # None
          /\ Arm(names) /\ Goto(Clock, next) /\ UNCHANGED <<retry, fate>>
       \/ /\ NextFire(names) = None /\ windowed
          /\ announced' = TRUE /\ retry' = TRUE /\ Goto(Clock, next)
          /\ UNCHANGED <<armed, alert, fate>>
       \/ /\ NextFire(names) = None /\ ~windowed
          /\ Abort

Rearm ==
  /\ Is(Clock, "rearm")
  /\ RearmAfterAlert("mark")
  /\ UNCHANGED <<clockVars, arming, reported, due, dueSlot, taskVars, hostVars, up>>

(* The session that fired becomes due; one that still is was missed.       *)
Missed(f) == IF due = None THEN f ELSE [f EXCEPT ![<<due, dueSlot>>] = "told"]

(* Mutant: the session that was due is forgotten.                          *)
MarkDueOver ==
  /\ Is(Clock, "mark")
  /\ due' = thread[Clock].day /\ dueSlot' = thread[Clock].slot
  /\ fate' = [fate EXCEPT ![<<due', dueSlot'>>] = "due"]
  /\ Goto(Clock, "try")
  /\ UNCHANGED <<clockVars, armVars, taskVars, hostVars, up>>

MarkDue ==
  /\ Is(Clock, "mark")
  /\ due' = thread[Clock].day /\ dueSlot' = thread[Clock].slot
  /\ fate' = [Missed(fate) EXCEPT ![<<due', dueSlot'>>] = "due"]
  /\ Goto(Clock, "try")
  /\ UNCHANGED <<clockVars, armVars, taskVars, hostVars, up>>

(* _on_rearm_retry looks at is_running and arms after it.                  *)
RetryFires ==
  /\ ClockFree /\ retry
  /\ retry' = FALSE
  /\ up = "running" => Goto(Clock, "again")
  /\ up # "running" => UNCHANGED thread
  /\ UNCHANGED <<clockVars, slots, arming, announced, reported, armed, alert, due, dueSlot,
                 taskVars, hostVars, up, fate>>

RetryRearms ==
  /\ Is(Clock, "again")
  /\ RearmAfterAlert("idle")
  /\ UNCHANGED <<clockVars, arming, reported, due, dueSlot, taskVars, hostVars, up>>

-----------------------------------------------------------------------------
(* _try_decide, by the alert and by every bar, on its own thread.          *)

Bar ==
  /\ LoopFree /\ up = "running" /\ due # None
  /\ Goto(Loop, "try")
  /\ UNCHANGED <<clockVars, armVars, due, dueSlot, taskVars, hostVars, up, fate>>

(* Nothing due, orders in flight, not warm, or no completed session in the *)
(* panel: wait for the next bar.                                           *)
Wait(th) ==
  /\ Is(th, "try")
  /\ thread' = [thread EXCEPT ![th] = Idle]
  /\ UNCHANGED <<clockVars, armVars, due, dueSlot, taskVars, hostVars, up, fate>>

(* The due session is read once into a local; the slot is noted here only  *)
(* for `fate'.                                                             *)
ReadDue(th) ==
  /\ Is(th, "try") /\ due # None
  /\ thread' = [thread EXCEPT ![th] = [at |-> "clear", day |-> due, slot |-> dueSlot]]
  /\ UNCHANGED <<clockVars, armVars, due, dueSlot, taskVars, hostVars, up, fate>>

(* After the panel is built, `_due' is cleared, whatever it holds by then. *)
(* A newest bar that is too old refuses the session.                       *)
ClearDue(th) ==
  /\ Is(th, "clear")
  /\ due' = None
  /\ \/ Goto(th, "hand") /\ UNCHANGED fate
     \/ /\ thread' = [thread EXCEPT ![th] = Idle]
        /\ fate' = [fate EXCEPT ![<<thread[th].day, thread[th].slot>>] = "told"]
  /\ UNCHANGED <<clockVars, armVars, dueSlot, taskVars, hostVars, up>>

(* A task number in use by nobody, with enough for those about to start    *)
(* (bound).                                                                *)
Free == CHOOSE t \in Tasks : t \notin live
Room == Cardinality(live) + Cardinality({th \in {Loop, Clock} : Is(th, "start")})
          < Cardinality(Tasks)

(* A thread about to start a session; the slot it hands on is noted.       *)
Starting(th) == [at |-> "start", day |-> thread[th].day, slot |-> dueSlot]

(* Mutant: a session is started beside the one that runs.                  *)
AskNot(th) ==
  /\ Is(th, "hand")
  /\ thread' = [thread EXCEPT ![th] = Starting(th)]
  /\ UNCHANGED <<clockVars, armVars, due, dueSlot, taskVars, hostVars, up, fate>>

(* _run_session: the slot is read now; one task at a time.                 *)
Ask(th) ==
  /\ Is(th, "hand")
  /\ \/ /\ TaskRuns
        /\ fate' = [fate EXCEPT ![<<thread[th].day, dueSlot>>] = "told"]
        /\ thread' = [thread EXCEPT ![th] = Idle]
     \/ /\ ~TaskRuns /\ Room
        /\ thread' = [thread EXCEPT ![th] = Starting(th)]
        /\ UNCHANGED fate
  /\ UNCHANGED <<clockVars, armVars, due, dueSlot, taskVars, hostVars, up>>

(* The task is started some time after done() was asked.                   *)
StartTask(th) ==
  /\ Is(th, "start") /\ live # Tasks
  /\ task' = Free /\ live' = live \cup {task'}
  /\ fate' = [fate EXCEPT ![<<thread[th].day, thread[th].slot>>] = "given"]
  /\ thread' = [thread EXCEPT ![th] = Idle]
  /\ UNCHANGED <<clockVars, armVars, due, dueSlot, refresh, hostVars, up>>

(* A session task ends, with an outcome or a recorded failure.             *)
TaskEnds(t) ==
  /\ LoopFree
  /\ live' = live \ {t}
  /\ UNCHANGED <<clockVars, armVars, dueVars, task, refresh, hostVars, up, fate>>

-----------------------------------------------------------------------------
(* The source timer refreshes, one refresh at a time; behind it the urgent *)
(* check awaits the store between looking for a session task and starting  *)
(* one over `_session_task'.  The refresh itself touches nothing here.     *)

SourceTimer ==
  /\ LoopFree /\ up = "running" /\ refresh = "none" /\ urgents
  /\ ~TaskRuns
  /\ refresh' = "asking"
  /\ UNCHANGED <<clockVars, armVars, dueVars, live, task, hostVars, up, fate>>

Urgent ==
  /\ LoopFree /\ refresh = "asking"
  /\ refresh' = "none"
  /\ \/ UNCHANGED <<live, task>>
     \/ Room /\ live # Tasks /\ task' = Free /\ live' = live \cup {task'}
  /\ UNCHANGED <<clockVars, armVars, dueVars, hostVars, up, fate>>

-----------------------------------------------------------------------------
(* on_stop, with cancel_arming.  A due session is dropped without a word.  *)

StopWith(cancelled) ==
  /\ LoopFree /\ up = "running"
  /\ up' = "stopped"
  /\ arming' = FALSE /\ alert' = FALSE /\ retry' = FALSE
  /\ due' = None
  /\ live' = live \ cancelled /\ task' = None /\ refresh' = "none"
  /\ fate' = IF due = None THEN fate ELSE [fate EXCEPT ![<<due, dueSlot>>] = "dropped"]
  /\ UNCHANGED <<clockVars, slots, announced, reported, armed, dueSlot, thread, hostVars>>

(* Mutant: the task in flight is left to end by itself.                    *)
StopTimersOnly == StopWith({})

OnStop == StopWith({task})

-----------------------------------------------------------------------------
Decides(th) == Wait(th) \/ ReadDue(th) \/ ClearDue(th) \/ Ask(th) \/ StartTask(th)
ClockSteps == Rearm \/ MarkDue \/ RetryRearms \/ Decides(Clock)

Next ==
  \/ Extend \/ Tick
  \/ Start \/ Crash \/ WarmFails \/ ArmNow
  \/ AlertFires \/ RetryFires \/ ClockSteps
  \/ Bar \/ Decides(Loop)
  \/ \E t \in live : TaskEnds(t)
  \/ SourceTimer \/ Urgent
  \/ OnStop

Spec == Init /\ [][Next]_vars

(* The threads run, a retry that is set fires, and a calendar that is      *)
(* asked again and again answers and describes the next day in the end.    *)
Fairness ==
  /\ WF_vars(Extend)
  /\ SF_vars(ArmNow) /\ SF_vars(RetryFires)
  /\ WF_vars(ClockSteps) /\ WF_vars(Decides(Loop))

FairSpec == Spec /\ Fairness

-----------------------------------------------------------------------------
Places == {"idle", "rearm", "mark", "try", "clear", "hand", "start", "again"}

(* Types, and: a set alert has an occurrence to fire for, one that lies    *)
(* ahead or has just come; a due session has its slot.                     *)
TypeOK ==
  /\ now \in 0..LastTick /\ window \in Days
  /\ slots \in Schedules
  /\ up \in {"down", "running", "stopped"}
  /\ {arming, announced, reported, alert, retry, threaded, urgents, windowed} \subseteq BOOLEAN
  /\ armed \in Occurrences \cup {None}
  /\ alert => armed # None /\ At[armed] >= now
  /\ due \in Days \cup {None} /\ dueSlot \in Slots \cup {None}
  /\ due # None => dueSlot # None
  /\ thread \in [{Loop, Clock} -> [at : Places, day : Days \cup {None}, slot : Slots \cup {None}]]
  /\ live \subseteq Tasks /\ task \in Tasks \cup {None}
  /\ refresh \in {"none", "asking"}
  /\ fate \in [Occurrences -> Fates]

(* Nothing is in the way of an answer: the lane runs and is armed, its     *)
(* report is made, and no callback is halfway.                             *)
Settled == up = "running" /\ alert /\ At[armed] > now /\ Is(Clock, "idle")

(* No decision is passed over in silence.  Once the lane is armed again,   *)
(* every slot that came while it was to decide became due, or was reported *)
(* as lost to a start, or came while the lane said that it could not       *)
(* decide: through restarts, outages of the calendar, edits of the slots   *)
(* and stalls of arming.                                                   *)
NoSlotSkipped == Settled => \A o \in Occurrences : fate[o] \notin {"owed", "lost"}

(* The same where the calendar refuses by its window alone: any other      *)
(* failure aborts the alert's callback before the session is due.          *)
NoSlotSkippedWindowed == windowed => NoSlotSkipped

(* A session that became due stays so until it is handed to the runner,    *)
(* recorded as missed or dropped by a stop: `_due' holds it, or the thread *)
(* that took it.                                                           *)
DueIsKept ==
  \A o \in Occurrences :
    fate[o] = "due" =>
      \/ due = o[1] /\ dueSlot = o[2]
      \/ \E th \in {Loop, Clock} :
           /\ thread[th].at \in {"clear", "hand", "start"}
           /\ thread[th].day = o[1] /\ thread[th].slot = o[2]

(* The same where callbacks do not overlap the loop: without that, a bar   *)
(* that clears `_due' late clears the next session.                        *)
DueIsKeptOnLoop == ~threaded => DueIsKept

(* One session task at a time.                                             *)
OneSession == Cardinality(live) <= 1

(* The same for an operator who does not act urgently, where callbacks do  *)
(* not overlap the loop: the urgent check may start a task over one that   *)
(* began while it awaited the store, and two threads may both find that    *)
(* none runs.                                                              *)
OneSessionOnLoop == ~threaded /\ ~urgents => OneSession

(* A stopped lane does nothing more: no timer, no due session, no task.    *)
StoppedIsQuiet ==
  up = "stopped" => ~alert /\ ~retry /\ ~arming /\ due = None /\ live = {} /\ refresh = "none"

(* The same without overlap and without an orphan of the urgent check.     *)
StoppedIsQuietOnLoop == ~threaded /\ ~urgents => StoppedIsQuiet

(* What a start reports as lost did not run.                               *)
ReportIsTrue ==
  [][~reported /\ reported' => \A o \in Elapsed(slots) : fate[o] # "given"]_vars

(* A running lane is armed again and again, whatever the calendar refuses  *)
(* and for how long, until it is stopped or dies.                          *)
ArmedAgain == up = "running" ~> alert \/ up # "running"

(* The same where the calendar refuses by its window alone: an alert that  *)
(* any other failure aborts leaves no timer behind.                        *)
ArmedAgainWindowed == up = "running" /\ windowed ~> alert \/ up # "running"

=============================================================================
