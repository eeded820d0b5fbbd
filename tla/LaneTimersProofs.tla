-------------------------- MODULE LaneTimersProofs --------------------------
(***************************************************************************)
(* What LaneTimers promises for every calendar, schedule and number of     *)
(* days.  Types need Located: a thread that took a session off the alert   *)
(* or off `_due' knows it.  That a due session is kept needs Serial and    *)
(* Current: where nothing overlaps, what a thread is about to clear is     *)
(* still what is due.  One task at a time needs Serial and TaskIsKnown,    *)
(* and a quiet stop both.  That no slot is skipped needs SkipInv: while    *)
(* the alert is set nothing of the lane's comes before it, and while it is *)
(* not, a thread is about to set one or the lane has said that it is not   *)
(* armed.                                                                  *)
(***************************************************************************)
EXTENDS LaneTimers, FiniteSetTheorems, TLAPS

(* A thread that took a session off the alert or off `_due' knows it.      *)
Located ==
  \A th \in {Loop, Clock} :
    thread[th].at \in {"rearm", "mark", "clear", "hand"} =>
      thread[th].day \in Days /\ thread[th].slot \in Slots

TypeInv == TypeOK /\ Located

Place == [at : Places, day : Days \cup {None}, slot : Slots \cup {None}]

LEMMA ThreadTyped ==
  ASSUME TypeOK, NEW th \in {Loop, Clock}
  PROVE  /\ thread \in [{Loop, Clock} -> Place]
         /\ Loop # Clock /\ thread[th] \in Place
         /\ DOMAIN thread = {Loop, Clock}
  BY DEF TypeOK, Place, Loop, Clock

LEMMA GotoTyped ==
  ASSUME TypeOK, NEW th \in {Loop, Clock}, NEW where \in Places, Goto(th, where)
  PROVE  /\ thread' \in [{Loop, Clock} -> Place]
         /\ thread'[th] = [at |-> where, day |-> thread[th].day, slot |-> thread[th].slot]
         /\ \A other \in {Loop, Clock} \ {th} : thread'[other] = thread[other]
<1>1. thread \in [{Loop, Clock} -> Place] /\ thread[th] \in Place
  BY ThreadTyped
<1>2. [thread[th] EXCEPT !.at = where] =
      [at |-> where, day |-> thread[th].day, slot |-> thread[th].slot]
  BY <1>1 DEF Place
<1>3. [at |-> where, day |-> thread[th].day, slot |-> thread[th].slot] \in Place
  BY <1>1 DEF Place
<1> QED
  BY <1>1, <1>2, <1>3 DEF Goto

LEMMA PutTyped ==
  ASSUME TypeOK, NEW th \in {Loop, Clock}, NEW p \in Place,
         thread' = [thread EXCEPT ![th] = p]
  PROVE  /\ thread' \in [{Loop, Clock} -> Place]
         /\ thread'[th] = p
         /\ \A other \in {Loop, Clock} \ {th} : thread'[other] = thread[other]
<1>1. thread \in [{Loop, Clock} -> Place]
  BY ThreadTyped
<1> QED
  BY <1>1

(* A thread that found no task running keeps its day and notes the slot.   *)
LEMMA StartingTyped ==
  ASSUME TypeOK, NEW th \in {Loop, Clock}, thread' = [thread EXCEPT ![th] = Starting(th)]
  PROVE  /\ thread' \in [{Loop, Clock} -> Place]
         /\ thread'[th] = [at |-> "start", day |-> thread[th].day, slot |-> dueSlot]
         /\ \A other \in {Loop, Clock} \ {th} : thread'[other] = thread[other]
<1>1. thread[th] \in Place /\ dueSlot \in Slots \cup {None}
  BY ThreadTyped DEF TypeOK
<1>2. Starting(th) \in Place
  BY <1>1 DEF Starting, Place, Places
<1> QED
  BY <1>2, PutTyped DEF Starting

LEMMA FreeIsFree ==
  ASSUME live \subseteq Tasks, live # Tasks
  PROVE  Free \in Tasks /\ Free \notin live
  BY DEF Free

LEMMA IdleTyped == Idle \in Place
  BY DEF Idle, Place, Places

(* The next fire lies ahead, on a day and a slot that exist.               *)
LEMMA NextIsAhead ==
  ASSUME NEW names \in Schedules, NextFire(names) # None
  PROVE  NextFire(names) \in Occurrences /\ At[NextFire(names)] > now
<1> DEFINE first == Soonest({o \in Ahead(names) : o[1] <= window})
<1>1. first # {} /\ NextFire(names) \in first
  BY DEF NextFire
<1>2. first \subseteq Ahead(names)
  BY DEF Soonest
<1> QED
  BY <1>1, <1>2 DEF Ahead

LEMMA ArmTyped ==
  ASSUME TypeOK, NEW names \in Schedules, NextFire(names) # None, Arm(names), UNCHANGED now
  PROVE  /\ slots' \in Schedules /\ armed' \in Occurrences
         /\ alert' = TRUE /\ announced' = FALSE /\ At[armed'] >= now'
<1>1. armed' \in Occurrences /\ At[armed'] > now
  BY NextIsAhead DEF Arm
<1>2. now \in Int /\ At[armed'] \in Int
  BY <1>1, AtAssumption, DaysAssumption DEF TypeOK, Days, Occurrences
<1> QED
  BY <1>1, <1>2 DEF Arm

LEMMA RearmTyped ==
  ASSUME TypeOK, NEW next \in {"mark", "idle"}, RearmAfterAlert(next), UNCHANGED now
  PROVE  /\ slots' \in Schedules /\ armed' \in Occurrences \cup {None}
         /\ {alert', announced', retry'} \subseteq BOOLEAN
         /\ alert' => armed' # None /\ At[armed'] >= now'
         /\ fate' \in [Occurrences -> Fates]
         /\ thread' \in [{Loop, Clock} -> Place] /\ thread'[Loop] = thread[Loop]
         /\ \/ thread'[Clock] = [at |-> next, day |-> thread[Clock].day,
                                 slot |-> thread[Clock].slot]
            \/ thread'[Clock] = Idle
<1>0. fate \in [Occurrences -> Fates] /\ next \in Places /\ Loop # Clock
  BY DEF TypeOK, Places, Loop, Clock
<1>1. PICK names \in Schedules :
        /\ slots' = names
        /\ \/ /\ NextFire(names) # None
              /\ Arm(names) /\ Goto(Clock, next) /\ UNCHANGED <<retry, fate>>
           \/ /\ NextFire(names) = None /\ windowed
              /\ announced' = TRUE /\ retry' = TRUE /\ Goto(Clock, next)
              /\ UNCHANGED <<armed, alert, fate>>
           \/ /\ NextFire(names) = None /\ ~windowed
              /\ Abort
  BY DEF RearmAfterAlert
<1>2. CASE NextFire(names) # None
  <2>1. Arm(names) /\ Goto(Clock, next) /\ UNCHANGED <<retry, fate>>
    BY <1>1, <1>2
  <2>2. armed' # None
    BY <2>1, <1>2 DEF Arm
  <2>3. thread' \in [{Loop, Clock} -> Place] /\ thread'[Loop] = thread[Loop]
        /\ thread'[Clock] = [at |-> next, day |-> thread[Clock].day, slot |-> thread[Clock].slot]
    BY <1>0, <2>1, GotoTyped
  <2> QED
    BY <1>0, <2>1, <2>2, <2>3, <1>2, ArmTyped DEF TypeOK
<1>3. CASE Goto(Clock, next) /\ announced' = TRUE /\ retry' = TRUE /\ UNCHANGED <<armed, alert, fate>>
  <2>1. thread' \in [{Loop, Clock} -> Place] /\ thread'[Loop] = thread[Loop]
        /\ thread'[Clock] = [at |-> next, day |-> thread[Clock].day, slot |-> thread[Clock].slot]
    BY <1>0, <1>3, GotoTyped
  <2> QED
    BY <1>0, <1>1, <1>3, <2>1 DEF TypeOK
<1>4. CASE Abort
  <2>1. thread' \in [{Loop, Clock} -> Place] /\ thread'[Loop] = thread[Loop] /\ thread'[Clock] = Idle
    BY <1>0, <1>4, PutTyped, IdleTyped DEF Abort
  <2>2. fate' \in [Occurrences -> Fates]
    BY <1>0, <1>4 DEF Abort, Fates
  <2> QED
    BY <1>1, <1>4, <2>1, <2>2 DEF Abort, TypeOK
<1> QED
  BY <1>1, <1>2, <1>3, <1>4

(* What an action does to a thread keeps both threads typed and located.   *)
LEMMA ThreadKept ==
  ASSUME TypeInv, NEW th \in {Loop, Clock}, NEW p \in Place,
         thread'[th] = p,
         p.at \in {"rearm", "mark", "clear", "hand"} => p.day \in Days /\ p.slot \in Slots,
         thread' \in [{Loop, Clock} -> Place],
         \A other \in {Loop, Clock} \ {th} : thread'[other] = thread[other]
  PROVE  Located'
  BY DEF TypeInv, Located

LEMMA InitTypes == Init => TypeInv
<1> SUFFICES ASSUME Init PROVE TypeInv
  OBVIOUS
<1>1. thread \in [{Loop, Clock} -> Place]
  BY IdleTyped DEF Init
<1>2. now \in 0..LastTick /\ window \in Days
  BY AtAssumption, DaysAssumption DEF Init, Days
<1>3. fate \in [Occurrences -> Fates]
  BY DEF Init, Fates
<1>4. {threaded, urgents, windowed} \subseteq BOOLEAN
  BY HostAssumption DEF Init
<1>5. TypeOK
  BY <1>1, <1>2, <1>3, <1>4 DEF Init, TypeOK, Place
<1>6. Located
  BY DEF Init, Located, Idle
<1> QED
  BY <1>5, <1>6 DEF TypeInv

LEMMA StepTypes == TypeInv /\ [Next]_vars => TypeInv'
<1> SUFFICES ASSUME TypeInv, [Next]_vars PROVE TypeInv'
  OBVIOUS
<1>0. TypeOK /\ Located
  BY DEF TypeInv
<1> USE DEF clockVars, armVars, dueVars, taskVars, hostVars
<1>1. CASE UNCHANGED vars
  BY <1>0, <1>1 DEF vars, TypeInv, TypeOK, Located
<1>2. CASE Extend
  <2>1. window' \in Days
    BY <1>0, <1>2, DaysAssumption DEF Extend, TypeOK, Days
  <2> QED
    BY <1>0, <1>2, <2>1 DEF Extend, TypeInv, TypeOK, Located
<1>3. CASE Tick
  <2>1. now \in 0..LastTick /\ LastTick \in Int
    BY <1>0, AtAssumption DEF TypeOK
  <2>2. now' \in 0..LastTick
    BY <1>3, <2>1 DEF Tick
  <2>3. fate' \in [Occurrences -> Fates]
    BY <1>0, <1>3 DEF Tick, TypeOK, Fates
  <2>4. alert' => armed' # None /\ At[armed'] >= now'
    <3> SUFFICES ASSUME alert PROVE armed # None /\ At[armed] >= now + 1
      BY <1>3 DEF Tick
    <3>1. armed \in Occurrences /\ At[armed] > now
      BY <1>0, <1>3 DEF Tick, TypeOK
    <3>2. At[armed] \in Int
      BY <3>1, AtAssumption, DaysAssumption DEF Days, Occurrences
    <3> QED
      BY <1>0, <2>1, <3>1, <3>2 DEF TypeOK
  <2> QED
    BY <1>0, <1>3, <2>2, <2>3, <2>4 DEF Tick, TypeInv, TypeOK, Located
<1>4. CASE Start
  <2>1. fate' \in [Occurrences -> Fates]
    BY <1>0, <1>4 DEF Start, TypeOK, Fates
  <2> QED
    BY <1>0, <1>4, <2>1 DEF Start, TypeInv, TypeOK, Located
<1>5. CASE Crash
  <2>1. fate' \in [Occurrences -> Fates]
    BY <1>0, <1>5 DEF Crash, TypeOK, Fates
  <2>2. thread' \in [{Loop, Clock} -> Place] /\ Located'
    BY <1>5, IdleTyped DEF Crash, Located, Idle
  <2> QED
    BY <1>0, <1>5, <2>1, <2>2 DEF Crash, TypeInv, TypeOK, Place
<1>6. CASE WarmFails
  BY <1>0, <1>6 DEF WarmFails, TypeInv, TypeOK, Located
<1>7. CASE ArmNow
  <2>1. fate' \in [Occurrences -> Fates] /\ reported' = TRUE
    BY <1>0, <1>7 DEF ArmNow, Report, TypeOK, Fates
  <2>2. PICK names \in Schedules :
          \/ NextFire(names) # None /\ Arm(names) /\ arming' = FALSE
          \/ /\ NextFire(names) = None
             /\ slots' = names /\ announced' = TRUE /\ arming' = windowed
             /\ UNCHANGED <<armed, alert>>
    BY <1>7 DEF ArmNow
  <2>3. now' = now
    BY <1>7 DEF ArmNow
  <2>4. /\ slots' \in Schedules /\ armed' \in Occurrences \cup {None}
        /\ {arming', announced', alert'} \subseteq BOOLEAN
        /\ alert' => armed' # None /\ At[armed'] >= now'
    <3>1. CASE NextFire(names) # None
      <4>1. Arm(names) /\ arming' = FALSE /\ armed' # None
        BY <2>2, <3>1 DEF Arm
      <4> QED
        BY <1>0, <2>3, <3>1, <4>1, ArmTyped
    <3>2. CASE NextFire(names) = None
      BY <1>0, <2>2, <2>3, <3>2 DEF TypeOK
    <3> QED
      BY <3>1, <3>2
  <2> QED
    BY <1>0, <1>7, <2>1, <2>4 DEF ArmNow, TypeInv, TypeOK, Located
<1>8. CASE AlertFires
  <2> DEFINE p == [at |-> "rearm", day |-> armed[1], slot |-> armed[2]]
  <2>1. armed \in Occurrences
    BY <1>0, <1>8 DEF AlertFires, TypeOK
  <2>2. p \in Place /\ p.day \in Days /\ p.slot \in Slots
    BY <2>1 DEF Place, Places, Occurrences
  <2>3. thread' = [thread EXCEPT ![Clock] = p]
    BY <1>8 DEF AlertFires
  <2> HIDE DEF p
  <2>4. thread' \in [{Loop, Clock} -> Place] /\ Located'
    BY <1>0, <2>2, <2>3, PutTyped, ThreadKept DEF TypeInv
  <2> QED
    BY <1>0, <1>8, <2>4 DEF AlertFires, TypeInv, TypeOK, Place
<1>9. CASE RetryFires
  <2>1. thread' \in [{Loop, Clock} -> Place] /\ Located'
    <3>1. CASE up = "running"
      <4>1. Goto(Clock, "again")
        BY <1>9, <3>1 DEF RetryFires
      <4> QED
        BY <1>0, <4>1, GotoTyped DEF Places, Located
    <3>2. CASE up # "running"
      BY <1>0, <1>9, <3>2, ThreadTyped DEF RetryFires, Located
    <3> QED
      BY <3>1, <3>2
  <2> QED
    BY <1>0, <1>9, <2>1 DEF RetryFires, TypeInv, TypeOK, Place
<1>10. CASE Rearm
  <2>1. RearmAfterAlert("mark") /\ now' = now /\ Is(Clock, "rearm")
    BY <1>10 DEF Rearm
  <2>2. /\ slots' \in Schedules /\ armed' \in Occurrences \cup {None}
        /\ {alert', announced', retry'} \subseteq BOOLEAN
        /\ alert' => armed' # None /\ At[armed'] >= now'
        /\ fate' \in [Occurrences -> Fates] /\ thread' \in [{Loop, Clock} -> Place]
    BY <1>0, <2>1, RearmTyped
  <2>3. Located'
    BY <1>0, <2>1, RearmTyped DEF Located, Is, Idle
  <2> QED
    BY <1>0, <1>10, <2>2, <2>3 DEF Rearm, TypeInv, TypeOK, Place
<1>11. CASE MarkDue
  <2>1. thread' \in [{Loop, Clock} -> Place] /\ Located'
    BY <1>0, <1>11, GotoTyped DEF MarkDue, Places, Located
  <2>2. due' \in Days /\ dueSlot' \in Slots
    BY <1>0, <1>11 DEF MarkDue, Located, Is
  <2>3. due' # None /\ dueSlot' # None
    BY <2>2, NoneAssumption
  <2>4. fate' \in [Occurrences -> Fates]
    BY <1>0, <1>11 DEF MarkDue, Missed, TypeOK, Fates
  <2> QED
    BY <1>0, <1>11, <2>1, <2>2, <2>3, <2>4 DEF MarkDue, TypeInv, TypeOK, Place
<1>12. CASE RetryRearms
  <2>1. RearmAfterAlert("idle") /\ now' = now
    BY <1>12 DEF RetryRearms
  <2>2. /\ slots' \in Schedules /\ armed' \in Occurrences \cup {None}
        /\ {alert', announced', retry'} \subseteq BOOLEAN
        /\ alert' => armed' # None /\ At[armed'] >= now'
        /\ fate' \in [Occurrences -> Fates] /\ thread' \in [{Loop, Clock} -> Place]
    BY <1>0, <2>1, RearmTyped
  <2>3. Located'
    BY <1>0, <2>1, RearmTyped DEF Located, Idle
  <2> QED
    BY <1>0, <1>12, <2>2, <2>3 DEF RetryRearms, TypeInv, TypeOK, Place
<1>13. CASE Bar
  <2>1. thread' \in [{Loop, Clock} -> Place] /\ Located'
    BY <1>0, <1>13, GotoTyped DEF Bar, Places, Located
  <2> QED
    BY <1>0, <1>13, <2>1 DEF Bar, TypeInv, TypeOK, Place
<1>14. ASSUME NEW th \in {Loop, Clock}, Wait(th)
       PROVE  TypeInv'
  <2>1. thread' \in [{Loop, Clock} -> Place] /\ Located'
    BY <1>0, <1>14, PutTyped, IdleTyped DEF Wait, Located, Idle
  <2> QED
    BY <1>0, <1>14, <2>1 DEF Wait, TypeInv, TypeOK, Place
<1>15. ASSUME NEW th \in {Loop, Clock}, ReadDue(th)
       PROVE  TypeInv'
  <2> DEFINE p == [at |-> "clear", day |-> due, slot |-> dueSlot]
  <2>1. due \in Days /\ dueSlot \in Slots
    BY <1>0, <1>15 DEF ReadDue, TypeOK
  <2>2. p \in Place /\ p.day \in Days /\ p.slot \in Slots
    BY <2>1 DEF Place, Places
  <2>3. thread' = [thread EXCEPT ![th] = p]
    BY <1>15 DEF ReadDue
  <2> HIDE DEF p
  <2>4. thread' \in [{Loop, Clock} -> Place] /\ Located'
    BY <1>0, <2>2, <2>3, PutTyped, ThreadKept DEF TypeInv
  <2> QED
    BY <1>0, <1>15, <2>4 DEF ReadDue, TypeInv, TypeOK, Place
<1>16. ASSUME NEW th \in {Loop, Clock}, ClearDue(th)
       PROVE  TypeInv'
  <2>1. thread' \in [{Loop, Clock} -> Place] /\ Located' /\ fate' \in [Occurrences -> Fates]
    <3>1. CASE Goto(th, "hand") /\ UNCHANGED fate
      <4>1. thread' \in [{Loop, Clock} -> Place] /\ Located'
        BY <1>0, <1>16, <3>1, GotoTyped DEF ClearDue, Places, Located, Is
      <4> QED
        BY <1>0, <3>1, <4>1 DEF TypeOK
    <3>2. CASE /\ thread' = [thread EXCEPT ![th] = Idle]
               /\ fate' = [fate EXCEPT ![<<thread[th].day, thread[th].slot>>] = "told"]
      <4>1. thread' \in [{Loop, Clock} -> Place] /\ Located'
        BY <1>0, <3>2, PutTyped, IdleTyped DEF Located, Idle
      <4> QED
        BY <1>0, <3>2, <4>1 DEF TypeOK, Fates
    <3> QED
      BY <1>16, <3>1, <3>2 DEF ClearDue
  <2> QED
    BY <1>0, <1>16, <2>1 DEF ClearDue, TypeInv, TypeOK, Place
<1>17. ASSUME NEW th \in {Loop, Clock}, Ask(th)
       PROVE  TypeInv'
  <2>1. thread' \in [{Loop, Clock} -> Place] /\ Located'
    <3>1. CASE thread' = [thread EXCEPT ![th] = Idle]
      BY <1>0, <3>1, PutTyped, IdleTyped DEF Located, Idle
    <3>2. CASE thread' = [thread EXCEPT ![th] = Starting(th)]
      <4>1. /\ thread' \in [{Loop, Clock} -> Place] /\ thread'[th].at = "start"
            /\ \A other \in {Loop, Clock} \ {th} : thread'[other] = thread[other]
        BY <1>0, <3>2, StartingTyped DEF Starting
      <4> QED
        BY <1>0, <4>1 DEF Located
    <3> QED
      BY <1>17, <3>1, <3>2 DEF Ask
  <2>2. fate' \in [Occurrences -> Fates]
    BY <1>0, <1>17 DEF Ask, TypeOK, Fates
  <2> QED
    BY <1>0, <1>17, <2>1, <2>2 DEF Ask, TypeInv, TypeOK, Place
<1>22. ASSUME NEW th \in {Loop, Clock}, StartTask(th)
       PROVE  TypeInv'
  <2>1. thread' \in [{Loop, Clock} -> Place] /\ Located'
    BY <1>0, <1>22, PutTyped, IdleTyped DEF StartTask, Located, Idle
  <2>2. fate' \in [Occurrences -> Fates]
    BY <1>0, <1>22 DEF StartTask, TypeOK, Fates
  <2>3. live' \subseteq Tasks /\ task' \in Tasks \cup {None}
    BY <1>0, <1>22, FreeIsFree DEF StartTask, TypeOK
  <2> QED
    BY <1>0, <1>22, <2>1, <2>2, <2>3 DEF StartTask, TypeInv, TypeOK, Place
<1>18. ASSUME NEW t \in live, TaskEnds(t)
       PROVE  TypeInv'
  BY <1>0, <1>18 DEF TaskEnds, TypeInv, TypeOK, Located
<1>19. CASE SourceTimer
  BY <1>0, <1>19 DEF SourceTimer, TypeInv, TypeOK, Located
<1>20. CASE Urgent
  <2>1. live' \subseteq Tasks /\ task' \in Tasks \cup {None}
    BY <1>0, <1>20, FreeIsFree DEF Urgent, TypeOK
  <2> QED
    BY <1>0, <1>20, <2>1 DEF Urgent, TypeInv, TypeOK, Located
<1>21. CASE OnStop
  <2>1. fate' \in [Occurrences -> Fates]
    BY <1>0, <1>21 DEF OnStop, StopWith, TypeOK, Fates
  <2> QED
    BY <1>0, <1>21, <2>1 DEF OnStop, StopWith, TypeInv, TypeOK, Located
<1> QED
  BY <1>1, <1>2, <1>3, <1>4, <1>5, <1>6, <1>7, <1>8, <1>9, <1>10, <1>11, <1>12, <1>13,
     <1>14, <1>15, <1>16, <1>17, <1>18, <1>19, <1>20, <1>21, <1>22
     DEF Next, Decides, ClockSteps

(* The state of a lane's timers stays well-typed: whatever the calendar    *)
(* refuses, an alert that is set has a slot to fire for that has not gone. *)
THEOREM TypeCorrect == Spec => []TypeOK
<1>1. Spec => []TypeInv
  BY InitTypes, StepTypes, PTL DEF Spec
<1> QED
  BY <1>1, PTL DEF TypeInv

-----------------------------------------------------------------------------
(* A due session is kept, where callbacks do not overlap the loop.         *)

(* Only one thread is halfway through anything.                            *)
Serial == \E th \in {Loop, Clock} : Is(th, "idle")

(* What a thread is about to clear is still due, and its slot still noted. *)
Current ==
  \A th \in {Loop, Clock} :
    /\ Is(th, "clear") => due = thread[th].day
    /\ thread[th].at \in {"clear", "hand"} => dueSlot = thread[th].slot

DueInv == ~threaded => Serial /\ Current /\ DueIsKept

LEMMA HostStays == [Next]_vars => UNCHANGED hostVars
<1> SUFFICES ASSUME [Next]_vars PROVE UNCHANGED hostVars
  OBVIOUS
<1>1. CASE Extend \/ Tick \/ Start \/ Crash \/ WarmFails \/ ArmNow \/ SourceTimer \/ Urgent
  BY <1>1 DEF Extend, Tick, Start, Crash, WarmFails, ArmNow, SourceTimer, Urgent, hostVars
<1>2. CASE AlertFires \/ RetryFires \/ Rearm \/ MarkDue \/ RetryRearms \/ Bar \/ OnStop
  BY <1>2 DEF AlertFires, RetryFires, Rearm, MarkDue, RetryRearms, Bar, OnStop, StopWith, hostVars
<1>3. ASSUME NEW th \in {Loop, Clock}, Decides(th)
      PROVE  UNCHANGED hostVars
  BY <1>3 DEF Decides, Wait, ReadDue, ClearDue, Ask, StartTask, hostVars
<1>4. ASSUME NEW t \in live, TaskEnds(t)
      PROVE  UNCHANGED hostVars
  BY <1>4 DEF TaskEnds
<1>5. CASE UNCHANGED vars
  BY <1>5 DEF vars
<1> QED
  BY <1>1, <1>2, <1>3, <1>4, <1>5 DEF Next, ClockSteps

LEMMA StepDue == TypeInv /\ DueInv /\ [Next]_vars => DueInv'
<1> SUFFICES ASSUME TypeInv, DueInv, [Next]_vars, ~threaded'
             PROVE  Serial' /\ Current' /\ DueIsKept'
  BY DEF DueInv
<1>b. ~threaded
  BY HostStays DEF hostVars
<1>0. TypeOK /\ Located /\ Serial /\ Current /\ DueIsKept
  BY <1>b DEF TypeInv, DueInv
<1>a. fate \in [Occurrences -> Fates] /\ DOMAIN thread = {Loop, Clock} /\ Loop # Clock
  BY <1>0, ThreadTyped DEF TypeOK
<1> USE DEF dueVars
<1>1. ASSUME UNCHANGED dueVars, \A o \in Occurrences : fate'[o] = "due" => fate[o] = "due"
      PROVE  Serial' /\ Current' /\ DueIsKept'
  BY <1>0, <1>1 DEF Serial, Current, DueIsKept, Is
<1>2. CASE UNCHANGED vars
  BY <1>1, <1>2 DEF vars
<1>3. CASE Extend \/ WarmFails \/ SourceTimer \/ Urgent \/ \E t \in live : TaskEnds(t)
  BY <1>1, <1>3 DEF Extend, WarmFails, SourceTimer, Urgent, TaskEnds
<1>4. CASE Tick \/ Start \/ ArmNow
  BY <1>1, <1>4 DEF Tick, Start, ArmNow, Report
<1>5. CASE Crash
  <2>1. thread' = [th \in {Loop, Clock} |-> Idle]
    BY <1>5 DEF Crash
  <2>2. \A o \in Occurrences : fate'[o] # "due"
    BY <1>5 DEF Crash
  <2> QED
    BY <2>1, <2>2 DEF Serial, Current, DueIsKept, Is, Idle
<1>6. CASE AlertFires \/ RetryFires \/ Bar
  <2>1. PICK th \in {Loop, Clock}, p \in {"rearm", "again", "try", "idle"} :
          /\ \A other \in {Loop, Clock} : Is(other, "idle")
          /\ thread'[th].at = p
          /\ \A other \in {Loop, Clock} \ {th} : thread'[other] = thread[other]
    <3>1. CASE AlertFires
      BY <1>0, <1>a, <1>b, <3>1 DEF AlertFires, ClockFree
    <3>2. CASE RetryFires /\ up = "running"
      <4>1. Goto(Clock, "again") /\ ClockFree
        BY <3>2 DEF RetryFires
      <4> QED
        BY <1>0, <1>b, <4>1, GotoTyped DEF ClockFree, Places
    <3>3. CASE RetryFires /\ up # "running"
      BY <1>0, <1>b, <3>3 DEF RetryFires, ClockFree, Is
    <3>4. CASE Bar
      <4>1. Goto(Loop, "try") /\ LoopFree
        BY <3>4 DEF Bar
      <4> QED
        BY <1>0, <1>b, <4>1, GotoTyped DEF LoopFree, Places
    <3> QED
      BY <1>6, <3>1, <3>2, <3>3, <3>4
  <2>2. UNCHANGED <<due, dueSlot, fate>>
    BY <1>6 DEF AlertFires, RetryFires, Bar
  <2>3. \A th1 \in {Loop, Clock} : thread'[th1].at \notin {"clear", "hand", "start"}
                                   /\ thread[th1].at \notin {"clear", "hand", "start"}
    BY <2>1 DEF Is
  <2>4. \E th1 \in {Loop, Clock} : thread'[th1].at = "idle"
    BY <1>a, <2>1 DEF Is
  <2> QED
    BY <1>0, <2>2, <2>3, <2>4 DEF Serial, Current, DueIsKept, Is
<1>7. ASSUME NEW th \in {Loop, Clock}, thread[th].at # "idle"
      PROVE  \A other \in {Loop, Clock} \ {th} : thread[other].at = "idle"
  BY <1>0, <1>7 DEF Serial, Is
<1>8. CASE Rearm \/ RetryRearms
  <2>1. PICK next \in {"mark", "idle"} :
          RearmAfterAlert(next) /\ UNCHANGED <<now, due, dueSlot>> /\ thread[Clock].at \in {"rearm", "again"}
    BY <1>8 DEF Rearm, RetryRearms, clockVars, Is
  <2>2. /\ thread'[Clock].at \notin {"clear", "hand", "start"} /\ thread'[Loop] = thread[Loop]
    BY <1>0, <2>1, RearmTyped DEF Idle
  <2>3. thread[Loop].at = "idle"
    BY <1>7, <1>a, <2>1
  <2>4. \A o \in Occurrences : fate'[o] = "due" => fate[o] = "due"
    <3>1. fate' = fate \/ fate' = [fate EXCEPT ![<<thread[Clock].day, thread[Clock].slot>>] = "lost"]
      BY <2>1 DEF RearmAfterAlert, Abort
    <3> QED
      BY <1>a, <3>1
  <2> QED
    BY <1>0, <2>1, <2>2, <2>3, <2>4 DEF Serial, Current, DueIsKept, Is
<1>9. CASE MarkDue
  <2>1. Is(Clock, "mark") /\ Goto(Clock, "try")
    BY <1>9 DEF MarkDue
  <2>2. thread'[Clock].at = "try" /\ thread'[Loop] = thread[Loop]
    BY <1>0, <1>a, <2>1, GotoTyped DEF Places
  <2>3. thread[Loop].at = "idle"
    BY <1>7, <1>a, <2>1 DEF Is
  <2>4. ASSUME NEW o \in Occurrences, fate'[o] = "due"
        PROVE  due' = o[1] /\ dueSlot' = o[2]
    <3>1. fate' = [Missed(fate) EXCEPT ![<<due', dueSlot'>>] = "due"]
      BY <1>9 DEF MarkDue
    <3>2. DOMAIN Missed(fate) = Occurrences
      BY <1>a DEF Missed
    <3>3. CASE o = <<due', dueSlot'>>
      BY <3>3
    <3>4. CASE o # <<due', dueSlot'>>
      <4>1. Missed(fate)[o] = "due"
        BY <2>4, <3>1, <3>2, <3>4
      <4>2. fate[o] = "due"
        BY <1>a, <4>1 DEF Missed
      <4>3. due = o[1] /\ dueSlot = o[2]
        BY <1>0, <2>1, <2>3, <4>2 DEF DueIsKept, Is
      <4>4. o = <<due, dueSlot>> /\ due # None
        BY <4>3, NoneAssumption DEF Occurrences
      <4> QED
        BY <1>a, <4>1, <4>4 DEF Missed
    <3> QED
      BY <3>3, <3>4
  <2> QED
    BY <2>2, <2>3, <2>4 DEF Serial, Current, DueIsKept, Is
<1>10. ASSUME NEW th \in {Loop, Clock}, Wait(th)
       PROVE  Serial' /\ Current' /\ DueIsKept'
  <2>1. thread'[th].at = "idle"
        /\ \A other \in {Loop, Clock} \ {th} : thread'[other] = thread[other]
    BY <1>0, <1>10, PutTyped, IdleTyped DEF Wait, Idle
  <2>2. thread[th].at = "try" /\ UNCHANGED <<due, dueSlot, fate>>
    BY <1>10 DEF Wait, Is
  <2> QED
    BY <1>0, <2>1, <2>2 DEF Serial, Current, DueIsKept, Is
<1>11. ASSUME NEW th \in {Loop, Clock}, ReadDue(th)
       PROVE  Serial' /\ Current' /\ DueIsKept'
  <2>1. thread' = [thread EXCEPT ![th] = [at |-> "clear", day |-> due, slot |-> dueSlot]]
    BY <1>11 DEF ReadDue
  <2>2. thread[th].at = "try" /\ UNCHANGED <<due, dueSlot, fate>>
    BY <1>11 DEF ReadDue, Is
  <2>3. \A other \in {Loop, Clock} \ {th} : thread'[other] = thread[other]
                                            /\ thread[other].at = "idle"
    BY <1>7, <1>a, <2>1, <2>2
  <2>4. thread'[th] = [at |-> "clear", day |-> due, slot |-> dueSlot]
    BY <1>a, <2>1
  <2> QED
    BY <1>0, <1>a, <2>2, <2>3, <2>4 DEF Serial, Current, DueIsKept, Is
<1>12. ASSUME NEW th \in {Loop, Clock}, ClearDue(th)
       PROVE  Serial' /\ Current' /\ DueIsKept'
  <2>1. thread[th].at = "clear" /\ dueSlot' = dueSlot
    BY <1>12 DEF ClearDue, Is
  <2>2. due = thread[th].day /\ dueSlot = thread[th].slot
    BY <1>0, <2>1 DEF Current, Is
  <2>3. \A other \in {Loop, Clock} \ {th} : thread[other].at = "idle"
    BY <1>7, <2>1
  <2>4. CASE Goto(th, "hand") /\ UNCHANGED fate
    <3>1. /\ thread'[th] = [at |-> "hand", day |-> thread[th].day, slot |-> thread[th].slot]
          /\ \A other \in {Loop, Clock} \ {th} : thread'[other] = thread[other]
      BY <1>0, <2>4, GotoTyped DEF Places
    <3> QED
      BY <1>0, <1>a, <2>1, <2>2, <2>3, <2>4, <3>1 DEF Serial, Current, DueIsKept, Is
  <2>5. CASE /\ thread' = [thread EXCEPT ![th] = Idle]
             /\ fate' = [fate EXCEPT ![<<thread[th].day, thread[th].slot>>] = "told"]
    <3>1. thread'[th].at = "idle"
          /\ \A other \in {Loop, Clock} \ {th} : thread'[other] = thread[other]
      BY <1>0, <2>5, PutTyped, IdleTyped DEF Idle
    <3>2. ASSUME NEW o \in Occurrences, fate'[o] = "due"
          PROVE  FALSE
      <4>1. o # <<due, dueSlot>> /\ fate[o] = "due"
        BY <1>a, <2>2, <2>5, <3>2
      <4>2. due = o[1] /\ dueSlot = o[2]
        BY <1>0, <2>1, <2>2, <2>3, <4>1 DEF DueIsKept
      <4> QED
        BY <4>1, <4>2 DEF Occurrences
    <3> QED
      BY <2>3, <3>1, <3>2 DEF Serial, Current, DueIsKept, Is
  <2> QED
    BY <1>12, <2>4, <2>5 DEF ClearDue
<1>13. ASSUME NEW th \in {Loop, Clock}, Ask(th)
       PROVE  Serial' /\ Current' /\ DueIsKept'
  <2>1. thread[th].at = "hand" /\ UNCHANGED <<due, dueSlot>>
    BY <1>13 DEF Ask, Is
  <2>2. dueSlot = thread[th].slot
    BY <1>0, <2>1 DEF Current
  <2>3. \A other \in {Loop, Clock} \ {th} : thread[other].at = "idle"
    BY <1>7, <2>1
  <2>4. CASE /\ thread' = [thread EXCEPT ![th] = Idle]
             /\ fate' = [fate EXCEPT ![<<thread[th].day, dueSlot>>] = "told"]
    <3>1. thread'[th].at = "idle"
          /\ \A other \in {Loop, Clock} \ {th} : thread'[other] = thread[other]
      BY <1>0, <2>4, PutTyped, IdleTyped DEF Idle
    <3>2. ASSUME NEW o \in Occurrences, fate'[o] = "due"
          PROVE  due' = o[1] /\ dueSlot' = o[2]
      <4>1. o # <<thread[th].day, dueSlot>> /\ fate[o] = "due"
        BY <1>a, <2>4, <3>2
      <4>2. ~(thread[th].day = o[1] /\ thread[th].slot = o[2])
        BY <2>2, <4>1 DEF Occurrences
      <4> QED
        BY <1>0, <2>1, <2>3, <4>1, <4>2 DEF DueIsKept
    <3> QED
      BY <2>3, <3>1, <3>2 DEF Serial, Current, DueIsKept, Is
  <2>5. CASE /\ thread' = [thread EXCEPT ![th] = Starting(th)]
             /\ fate' = fate
    <3>1. /\ thread'[th] = [at |-> "start", day |-> thread[th].day, slot |-> thread[th].slot]
          /\ \A other \in {Loop, Clock} \ {th} : thread'[other] = thread[other]
      BY <1>0, <2>2, <2>5, StartingTyped
    <3> QED
      BY <1>0, <1>a, <2>1, <2>3, <2>5, <3>1 DEF Serial, Current, DueIsKept, Is
  <2> QED
    BY <1>13, <2>4, <2>5 DEF Ask
<1>15. ASSUME NEW th \in {Loop, Clock}, StartTask(th)
       PROVE  Serial' /\ Current' /\ DueIsKept'
  <2>1. /\ thread[th].at = "start" /\ UNCHANGED <<due, dueSlot>>
        /\ fate' = [fate EXCEPT ![<<thread[th].day, thread[th].slot>>] = "given"]
    BY <1>15 DEF StartTask, Is
  <2>3. \A other \in {Loop, Clock} \ {th} : thread[other].at = "idle"
    BY <1>7, <2>1
  <2>4. thread'[th].at = "idle"
        /\ \A other \in {Loop, Clock} \ {th} : thread'[other] = thread[other]
    BY <1>0, <1>15, PutTyped, IdleTyped DEF StartTask, Idle
  <2>5. ASSUME NEW o \in Occurrences, fate'[o] = "due"
        PROVE  due' = o[1] /\ dueSlot' = o[2]
    <3>1. o # <<thread[th].day, thread[th].slot>> /\ fate[o] = "due"
      BY <1>a, <2>1, <2>5
    <3>2. ~(thread[th].day = o[1] /\ thread[th].slot = o[2])
      BY <3>1 DEF Occurrences
    <3> QED
      BY <1>0, <2>1, <2>3, <3>1, <3>2 DEF DueIsKept
  <2> QED
    BY <2>3, <2>4, <2>5 DEF Serial, Current, DueIsKept, Is
<1>14. CASE OnStop
  <2>1. UNCHANGED thread /\ \A th \in {Loop, Clock} : thread[th].at = "idle"
    BY <1>14, <1>b DEF OnStop, StopWith, LoopFree, Is
  <2>2. fate' = IF due = None THEN fate ELSE [fate EXCEPT ![<<due, dueSlot>>] = "dropped"]
    BY <1>14 DEF OnStop, StopWith
  <2>3. ASSUME NEW o \in Occurrences, fate'[o] = "due"
        PROVE  FALSE
    <3>1. fate[o] = "due" /\ (due # None => o # <<due, dueSlot>>)
      BY <1>a, <2>2, <2>3
    <3>2. due = o[1] /\ dueSlot = o[2]
      BY <1>0, <2>1, <3>1 DEF DueIsKept
    <3> QED
      BY <3>1, <3>2, NoneAssumption DEF Occurrences
  <2> QED
    BY <2>1, <2>3 DEF Serial, Current, DueIsKept, Is
<1> QED
  BY <1>2, <1>3, <1>4, <1>5, <1>6, <1>8, <1>9, <1>10, <1>11, <1>12, <1>13, <1>14, <1>15
     DEF Next, Decides, ClockSteps

(* Where callbacks do not overlap the loop, a session that became due is   *)
(* neither cleared nor replaced before it was handed on or recorded as     *)
(* missed, for every calendar and schedule.                                *)
THEOREM DueKept == Spec => []DueIsKeptOnLoop
<1>1. Init => DueInv
  BY DEF Init, DueInv, Serial, Current, DueIsKept, Is, Idle
<1>2. DueInv => DueIsKeptOnLoop
  BY DEF DueInv, DueIsKeptOnLoop
<1> QED
  BY <1>1, <1>2, InitTypes, StepTypes, StepDue, PTL DEF Spec

-----------------------------------------------------------------------------
(* One task at a time, where callbacks do not overlap the loop.            *)

(* Without the urgent check the task that runs is the one the lane knows,  *)
(* and none runs while a thread that found none is about to start one.     *)
TaskIsKnown ==
  ~threaded /\ ~urgents =>
    /\ refresh = "none" /\ live \subseteq {task}
    /\ \A th \in {Loop, Clock} : Is(th, "start") => live = {}

LEMMA StepKnown == TypeInv /\ DueInv /\ TaskIsKnown /\ [Next]_vars => TaskIsKnown'
<1> SUFFICES ASSUME TypeInv, DueInv, TaskIsKnown, [Next]_vars, ~threaded', ~urgents'
             PROVE  /\ refresh' = "none" /\ live' \subseteq {task'}
                    /\ \A th \in {Loop, Clock} : thread'[th].at = "start" => live' = {}
  BY DEF TaskIsKnown, Is
<1>a. ~threaded /\ ~urgents
  BY HostStays DEF hostVars
<1>b. /\ TypeOK /\ Serial /\ refresh = "none" /\ live \subseteq {task}
      /\ \A th \in {Loop, Clock} : thread[th].at = "start" => live = {}
  BY <1>a DEF TypeInv, DueInv, TaskIsKnown, Is
<1> DEFINE Goal == /\ refresh' = "none" /\ live' \subseteq {task'}
                   /\ \A th \in {Loop, Clock} : thread'[th].at = "start" => live' = {}
<1>1. ASSUME UNCHANGED taskVars,
             \A th \in {Loop, Clock} : thread'[th].at = "start" => thread[th].at = "start"
      PROVE  Goal
  BY <1>b, <1>1 DEF taskVars
<1>2. CASE UNCHANGED vars
  BY <1>1, <1>2 DEF vars, dueVars
<1>3. CASE Extend \/ Tick \/ Start \/ WarmFails \/ ArmNow
  BY <1>1, <1>3 DEF Extend, Tick, Start, WarmFails, ArmNow, dueVars
<1>4. CASE Crash
  BY <1>4 DEF Crash, Idle
<1>5. ASSUME NEW th \in {Loop, Clock}, NEW p \in Place, p.at # "start", UNCHANGED taskVars,
             thread' = [thread EXCEPT ![th] = p]
      PROVE  Goal
  BY <1>1, <1>5, <1>b, PutTyped
<1>6. ASSUME NEW th \in {Loop, Clock}, NEW where \in Places \ {"start"}, UNCHANGED taskVars,
             Goto(th, where)
      PROVE  Goal
  <2>1. where \in Places /\ where # "start"
    BY <1>6
  <2>2. /\ thread'[th].at = where
        /\ \A other \in {Loop, Clock} \ {th} : thread'[other] = thread[other]
    <3>1. TypeOK /\ Goto(th, where)
      BY <1>6, <1>b
    <3>2. /\ thread'[th] = [at |-> where, day |-> thread[th].day, slot |-> thread[th].slot]
          /\ \A other \in {Loop, Clock} \ {th} : thread'[other] = thread[other]
      BY <2>1, <3>1, GotoTyped, Zenon
    <3> QED
      BY <3>2
  <2> QED
    BY <1>1, <1>6, <2>1, <2>2
<1>7. CASE AlertFires
  <2>1. armed \in Occurrences
    BY <1>b, <1>7 DEF AlertFires, TypeOK
  <2>2. [at |-> "rearm", day |-> armed[1], slot |-> armed[2]] \in Place
    BY <2>1 DEF Place, Places, Occurrences
  <2> QED
    BY <1>5, <1>7, <2>2 DEF AlertFires
<1>8. CASE RetryFires
  BY <1>1, <1>6, <1>8 DEF RetryFires, Places
<1>9. CASE Rearm \/ RetryRearms
  <2>1. PICK next \in {"mark", "idle"} : RearmAfterAlert(next) /\ UNCHANGED <<now, taskVars>>
    BY <1>9 DEF Rearm, RetryRearms, clockVars
  <2>2. thread'[Clock].at # "start" /\ thread'[Loop] = thread[Loop]
    BY <1>b, <2>1, RearmTyped DEF Idle
  <2> QED
    BY <1>1, <2>1, <2>2
<1>10. CASE MarkDue \/ Bar
  BY <1>6, <1>10 DEF MarkDue, Bar, Places
<1>11. ASSUME NEW th \in {Loop, Clock}, Wait(th) \/ ReadDue(th) \/ ClearDue(th)
       PROVE  Goal
  <2>1. CASE Wait(th)
    BY <1>5, <2>1, IdleTyped DEF Wait, Idle
  <2>2. CASE ReadDue(th)
    <3>1. [at |-> "clear", day |-> due, slot |-> dueSlot] \in Place
      BY <1>b DEF TypeOK, Place, Places
    <3> QED
      BY <1>5, <2>2, <3>1 DEF ReadDue
  <2>3. CASE ClearDue(th)
    BY <1>5, <1>6, <2>3, IdleTyped DEF ClearDue, Idle, Places
  <2> QED
    BY <1>11, <2>1, <2>2, <2>3
<1>12. ASSUME NEW th \in {Loop, Clock}, Ask(th)
       PROVE  Goal
  <2>1. UNCHANGED taskVars
    BY <1>12 DEF Ask
  <2>2. CASE thread' = [thread EXCEPT ![th] = Idle]
    BY <1>5, <2>1, <2>2, IdleTyped DEF Idle
  <2>3. CASE ~TaskRuns
    BY <1>b, <2>1, <2>3 DEF TaskRuns, taskVars
  <2> QED
    BY <1>12, <2>2, <2>3 DEF Ask
<1>13. ASSUME NEW th \in {Loop, Clock}, StartTask(th)
       PROVE  Goal
  <2>1. /\ thread[th].at = "start" /\ refresh' = refresh /\ live' = live \cup {task'}
        /\ thread' = [thread EXCEPT ![th] = Idle]
    BY <1>13 DEF StartTask, Is
  <2>2. live' = {task'}
    BY <1>b, <2>1
  <2>3. thread'[th].at = "idle"
        /\ \A other \in {Loop, Clock} \ {th} : thread'[other] = thread[other]
    BY <1>b, <2>1, PutTyped, IdleTyped DEF Idle
  <2>4. \A other \in {Loop, Clock} \ {th} : thread[other].at = "idle"
    BY <1>b, <2>1 DEF Serial, Is
  <2> QED
    BY <1>b, <2>1, <2>2, <2>3, <2>4
<1>14. ASSUME NEW t \in live, TaskEnds(t)
       PROVE  Goal
  BY <1>b, <1>14 DEF TaskEnds, dueVars
<1>15. CASE SourceTimer \/ Urgent
  BY <1>a, <1>b, <1>15 DEF SourceTimer, Urgent
<1>16. CASE OnStop
  BY <1>b, <1>16 DEF OnStop, StopWith
<1> QED
  BY <1>2, <1>3, <1>4, <1>7, <1>8, <1>9, <1>10, <1>11, <1>12, <1>13, <1>14, <1>15, <1>16
     DEF Next, Decides, ClockSteps

(* Where callbacks do not overlap the loop and the operator does not act   *)
(* urgently, a lane never runs two sessions at once: a thread that found   *)
(* no session running still finds none when it starts one (nautilus.py,    *)
(* _run_session), through stops and restarts.                              *)
THEOREM OneTask == Spec => []OneSessionOnLoop
<1>1. Init => TaskIsKnown /\ DueInv
  BY DEF Init, TaskIsKnown, DueInv, Serial, Current, DueIsKept, Is, Idle
<1>2. TaskIsKnown => OneSessionOnLoop
  <2> SUFFICES ASSUME TaskIsKnown, ~threaded, ~urgents PROVE Cardinality(live) <= 1
    BY DEF OneSessionOnLoop, OneSession
  <2>1. live = {} \/ live = {task}
    BY DEF TaskIsKnown
  <2>2. Cardinality({task}) = 1
    BY FS_Singleton
  <2>3. Cardinality({}) = 0
    BY FS_EmptySet
  <2> QED
    BY <2>1, <2>2, <2>3
<1> QED
  BY <1>1, <1>2, InitTypes, StepTypes, StepDue, StepKnown, PTL DEF Spec

-----------------------------------------------------------------------------
(* A stop is quiet, where nothing overlaps it.                             *)

(* Nothing is halfway on a stopped lane, so nothing can set a timer, a due *)
(* session or a task any more.                                             *)
QuietInv ==
  /\ StoppedIsQuietOnLoop
  /\ ~threaded /\ ~urgents /\ up = "stopped" => \A th \in {Loop, Clock} : Is(th, "idle")

LEMMA StepQuiet == TypeInv /\ TaskIsKnown /\ QuietInv /\ [Next]_vars => QuietInv'
<1> SUFFICES ASSUME TypeInv, TaskIsKnown, QuietInv, [Next]_vars,
                    ~threaded', ~urgents', up' = "stopped"
             PROVE  /\ ~alert' /\ ~retry' /\ ~arming' /\ due' = None /\ live' = {}
                    /\ refresh' = "none"
                    /\ \A th \in {Loop, Clock} : Is(th, "idle")'
  BY DEF QuietInv, StoppedIsQuietOnLoop, StoppedIsQuiet
<1>0. ~threaded /\ ~urgents
  BY HostStays DEF hostVars
<1> DEFINE Quiet == /\ ~alert /\ ~retry /\ ~arming /\ due = None /\ live = {}
                    /\ refresh = "none" /\ \A th \in {Loop, Clock} : Is(th, "idle")
<1>1. CASE OnStop
  <2>1. live \subseteq {task}
    BY <1>0 DEF TaskIsKnown
  <2>2. \A th \in {Loop, Clock} : Is(th, "idle")
    BY <1>0, <1>1 DEF OnStop, StopWith, LoopFree
  <2> QED
    BY <1>1, <2>1, <2>2 DEF OnStop, StopWith, Is
<1>2. CASE ~OnStop
  <2>1. CASE up = "stopped"
    <3>1. Quiet
      BY <1>0, <2>1 DEF QuietInv, StoppedIsQuietOnLoop, StoppedIsQuiet
    <3>2. ~ClockSteps /\ \A th \in {Loop, Clock} : ~Decides(th)
      BY <3>1 DEF ClockSteps, Rearm, MarkDue, RetryRearms, Decides, Wait, ReadDue, ClearDue,
         Ask, StartTask, Is
    <3>3. CASE Extend \/ Tick
      BY <3>1, <3>3 DEF Extend, Tick, armVars, dueVars, taskVars, Is
    <3>4. CASE UNCHANGED vars
      BY <3>1, <3>4 DEF vars, armVars, dueVars, taskVars, Is
    <3>5. ~Start /\ ~Crash
      BY <2>1 DEF Start, Crash
    <3>6. ~WarmFails /\ ~ArmNow /\ ~AlertFires /\ ~RetryFires /\ ~Bar /\ ~SourceTimer /\ ~Urgent
      BY <2>1, <3>1 DEF WarmFails, ArmNow, AlertFires, RetryFires, Bar, SourceTimer, Urgent
    <3>7. \A t \in live : ~TaskEnds(t)
      BY <3>1
    <3> QED
      BY <1>2, <3>2, <3>3, <3>4, <3>5, <3>6, <3>7 DEF Next
  <2>2. CASE up # "stopped"
    <3>1. up' = up
      <4>1. CASE Start \/ Crash
        BY <4>1 DEF Start, Crash
      <4>2. CASE Extend \/ Tick \/ WarmFails \/ ArmNow \/ SourceTimer \/ Urgent
        BY <4>2 DEF Extend, Tick, WarmFails, ArmNow, SourceTimer, Urgent
      <4>3. CASE AlertFires \/ RetryFires \/ Rearm \/ MarkDue \/ RetryRearms \/ Bar
        BY <4>3 DEF AlertFires, RetryFires, Rearm, MarkDue, RetryRearms, Bar
      <4>4. ASSUME NEW th \in {Loop, Clock}, Decides(th) PROVE up' = up
        BY <4>4 DEF Decides, Wait, ReadDue, ClearDue, Ask, StartTask
      <4>5. ASSUME NEW t \in live, TaskEnds(t) PROVE up' = up
        BY <4>5 DEF TaskEnds
      <4>6. CASE UNCHANGED vars
        BY <4>6 DEF vars
      <4> QED
        BY <1>2, <4>1, <4>2, <4>3, <4>4, <4>5, <4>6 DEF Next, ClockSteps
    <3> QED
      BY <2>2, <3>1
  <2> QED
    BY <2>1, <2>2
<1> QED
  BY <1>1, <1>2

(* Where callbacks do not overlap the loop and the operator does not act   *)
(* urgently, a lane that was stopped has no timer, no due session and no   *)
(* task left, and gets none.                                               *)
THEOREM StopIsQuiet == Spec => []StoppedIsQuietOnLoop
<1>1. Init => QuietInv
  BY DEF Init, QuietInv, StoppedIsQuietOnLoop, StoppedIsQuiet
<1>2. Init => TaskIsKnown /\ DueInv
  BY DEF Init, TaskIsKnown, DueInv, Serial, Current, DueIsKept, Is, Idle
<1>3. QuietInv => StoppedIsQuietOnLoop
  BY DEF QuietInv
<1> QED
  BY <1>1, <1>2, <1>3, InitTypes, StepTypes, StepDue, StepKnown, StepQuiet, PTL DEF Spec

-----------------------------------------------------------------------------
(* No slot is passed over in silence.                                      *)

(* No two slots come at one instant.  The code passes over the second of   *)
(* two that do (calendar.py:295), so this is a hypothesis.                 *)
OneAtATime == \A o, p \in Occurrences : At[o] = At[p] /\ At[o] # -1 => o = p

Owed == {o \in Occurrences : fate[o] = "owed"}

(* What the clock's thread took off the alert.                             *)
Taken == {<<thread[Clock].day, thread[Clock].slot>>}
ClockAt(places) == thread[Clock].at \in places

(* A process that is down has no alert and no thread halfway.              *)
DownInv == up = "down" => ~alert /\ ~retry /\ ~arming /\ Is(Clock, "idle")

(* While a start is arming, what is owed is what its report will find, and *)
(* behind the report the lane has said that it is not armed.               *)
ArmingInv ==
  up = "running" /\ arming =>
    /\ ~alert /\ Is(Clock, "idle")
    /\ reported => announced /\ Owed = {}
    /\ ~reported => Owed \subseteq Elapsed(slots)

(* While the alert is set no slot of the lane comes before it, so only its *)
(* own occurrence can be owed, once it has come; or the one before, until  *)
(* the thread that took it has marked it due.                              *)
AlertInv ==
  up = "running" /\ alert =>
    /\ ClockAt({"idle", "mark", "try", "clear", "hand", "start"})
    /\ \A o \in Occurrences : o[2] \in slots /\ At[o] > now => At[o] >= At[armed]
    /\ Is(Clock, "mark") => At[armed] > now /\ Owed \subseteq Taken
    /\ ~Is(Clock, "mark") => Owed \subseteq {armed} /\ (Owed # {} => At[armed] = now)

(* Without an alert either a thread is about to set one or the lane has    *)
(* said so.                                                                *)
WaitingInv ==
  up = "running" /\ ~arming /\ ~alert =>
    /\ ClockAt({"rearm", "mark"}) => Owed \subseteq Taken
    /\ ~Is(Clock, "rearm") => announced
    /\ ~ClockAt({"rearm", "mark"}) => Owed = {}

(* A retry is set only while nothing else arms the lane.                   *)
RetryInv ==
  up = "running" /\ retry => ~alert /\ ~arming /\ ClockAt({"idle", "mark", "try", "clear", "hand", "start"})

SkipInv == DownInv /\ ArmingInv /\ AlertInv /\ WaitingInv /\ RetryInv

(* An instant of a day's slot is of that day.                              *)
LEMMA DayOfInstant ==
  ASSUME NEW o \in Occurrences, At[o] # -1
  PROVE  /\ At[o] \in Nat /\ At[o] \div DayLength = o[1]
         /\ \A p \in Occurrences : p[1] > o[1] /\ At[p] # -1 => At[p] > At[o]
<1>1. o[1] \in Nat /\ DayLength \in Nat /\ DayLength > 0
  BY AtAssumption, DaysAssumption DEF Occurrences, Days
<1>2. At[o] \in (o[1] * DayLength)..(o[1] * DayLength + DayLength - 1)
  BY AtAssumption
<1>3. o[1] * DayLength \in Nat
  BY <1>1
<1>4. At[o] \in Nat
  BY <1>1, <1>2, <1>3
<1>5. At[o] \div DayLength = o[1]
  <2>1. \A d, n, t \in Nat : n > 0 /\ t \in (d * n)..(d * n + n - 1) => t \div n = d
    OBVIOUS
  <2> QED
    BY <1>1, <1>2, <1>4, <2>1
<1>6. ASSUME NEW p \in Occurrences, p[1] > o[1], At[p] # -1
      PROVE  At[p] > At[o]
  <2>1. p[1] \in Nat /\ At[p] >= p[1] * DayLength /\ At[p] \in Int
    <3>1. At[p] \in (p[1] * DayLength)..(p[1] * DayLength + DayLength - 1)
      BY <1>6, AtAssumption
    <3>2. p[1] \in Nat
      BY DEF Occurrences, Days
    <3>3. p[1] * DayLength \in Int
      BY <1>1, <3>2
    <3> QED
      BY <1>1, <3>1, <3>2, <3>3
  <2>2. \A a, b, n \in Nat : b > a => b * n >= a * n + n
    OBVIOUS
  <2>3. p[1] * DayLength >= o[1] * DayLength + DayLength
    BY <1>1, <1>6, <2>1, <2>2
  <2>4. p[1] * DayLength \in Int /\ At[o] <= o[1] * DayLength + DayLength - 1
    BY <1>1, <1>2, <1>3, <2>1
  <2> QED
    BY <1>1, <1>3, <1>4, <2>1, <2>3, <2>4
<1> QED
  BY <1>4, <1>5, <1>6

(* The slot that is armed is the first that comes, on any day: what lies   *)
(* beyond the window lies on a later one.                                  *)
LEMMA NextIsFirst ==
  ASSUME TypeOK, NEW names \in Schedules, NextFire(names) # None,
         NEW o \in Occurrences, o[2] \in names, At[o] > now
  PROVE  At[o] >= At[NextFire(names)]
<1> DEFINE ahead == {p \in Ahead(names) : p[1] <= window}
<1>1. NextFire(names) \in Soonest(ahead)
  BY DEF NextFire
<1>2. NextFire(names) \in ahead /\ \A p \in ahead : At[NextFire(names)] <= At[p]
  BY <1>1 DEF Soonest
<1>3. NextFire(names) \in Occurrences /\ NextFire(names)[1] <= window /\ At[NextFire(names)] > now
  BY <1>2 DEF Ahead
<1>4. now \in Nat /\ window \in Int /\ o[1] \in Int /\ NextFire(names)[1] \in Int
  BY <1>3, AtAssumption, DaysAssumption DEF TypeOK, Days, Occurrences
<1>5. At[o] # -1 /\ At[NextFire(names)] # -1
  BY <1>3, <1>4
<1>6. At[o] \in Nat /\ At[NextFire(names)] \in Nat
  BY <1>3, <1>5, DayOfInstant
<1>7. CASE o[1] <= window
  BY <1>2, <1>6, <1>7 DEF Ahead
<1>8. CASE ~(o[1] <= window)
  <2>1. o[1] > NextFire(names)[1]
    BY <1>3, <1>4, <1>8
  <2>2. At[o] > At[NextFire(names)]
    BY <1>3, <1>5, <2>1, DayOfInstant
  <2> QED
    BY <1>6, <2>2
<1> QED
  BY <1>7, <1>8

(* A step that leaves the arming alone, moves the clock's thread at most   *)
(* on its way through a decision, and owes nothing new.                    *)
LEMMA Harmless ==
  ASSUME SkipInv, UNCHANGED <<now, up, slots, arming, announced, reported, armed, alert, retry>>,
         Owed' \subseteq Owed,
         \/ thread'[Clock] = thread[Clock]
         \/ ClockAt({"try", "clear", "hand", "start"})
            /\ ClockAt({"idle", "try", "clear", "hand", "start"})'
  PROVE  SkipInv'
<1>1. DownInv'
  BY DEF SkipInv, DownInv, ClockAt, Is
<1>2. ArmingInv'
  BY DEF SkipInv, ArmingInv, ClockAt, Is, Elapsed, Today
<1>3. AlertInv'
  BY DEF SkipInv, AlertInv, ClockAt, Is, Taken
<1>4. WaitingInv'
  BY DEF SkipInv, WaitingInv, ClockAt, Is, Taken
<1>5. RetryInv'
  BY DEF SkipInv, RetryInv, ClockAt, Is
<1> QED
  BY <1>1, <1>2, <1>3, <1>4, <1>5 DEF SkipInv

(* The fate of one occurrence that is settled owes nothing.                *)
LEMMA SettledOwesNothing ==
  ASSUME TypeOK, NEW o, NEW f \in Fates \ {"owed"}, fate' = [fate EXCEPT ![o] = f]
  PROVE  Owed' \subseteq Owed
  BY DEF TypeOK, Owed, Fates

LEMMA DecidesIsHarmless ==
  ASSUME TypeInv, SkipInv, NEW th \in {Loop, Clock}, Decides(th)
  PROVE  SkipInv'
<1>1. UNCHANGED <<now, up, slots, arming, announced, reported, armed, alert, retry>>
  BY DEF Decides, Wait, ReadDue, ClearDue, Ask, StartTask, clockVars, armVars
<1>2. Owed' \subseteq Owed
  <2>1. CASE UNCHANGED fate
    BY <2>1 DEF Owed
  <2>2. CASE \E o, f : f \in {"told", "given"} /\ fate' = [fate EXCEPT ![o] = f]
    BY <2>2, SettledOwesNothing DEF TypeInv, Fates
  <2> QED
    BY <2>1, <2>2 DEF Decides, Wait, ReadDue, ClearDue, Ask, StartTask
<1>3. thread[th].at \in {"try", "clear", "hand", "start"}
  BY DEF Decides, Wait, ReadDue, ClearDue, Ask, StartTask, Is
<1>4. /\ thread'[th].at \in {"idle", "clear", "hand", "start"}
      /\ \A other \in {Loop, Clock} \ {th} : thread'[other] = thread[other]
  <2>1. TypeOK
    BY DEF TypeInv
  <2>2. CASE thread' = [thread EXCEPT ![th] = Idle]
    BY <2>1, <2>2, PutTyped, IdleTyped DEF Idle
  <2>3. CASE ReadDue(th)
    <3>1. [at |-> "clear", day |-> due, slot |-> dueSlot] \in Place
      BY <2>1 DEF TypeOK, Place, Places
    <3>2. thread' = [thread EXCEPT ![th] = [at |-> "clear", day |-> due, slot |-> dueSlot]]
      BY <2>3 DEF ReadDue
    <3> QED
      BY <2>1, <3>1, <3>2, PutTyped
  <2>4. CASE Goto(th, "hand")
    BY <2>1, <2>4, GotoTyped DEF Places
  <2>5. CASE thread' = [thread EXCEPT ![th] = Starting(th)]
    <3>1. thread'[th].at = "start"
          /\ \A other \in {Loop, Clock} \ {th} : thread'[other] = thread[other]
      BY <2>1, <2>5, StartingTyped DEF Starting
    <3> QED
      BY <3>1
  <2> QED
    BY <2>2, <2>3, <2>4, <2>5 DEF Decides, Wait, ClearDue, Ask, StartTask
<1>5. CASE th = Loop
  BY <1>1, <1>2, <1>4, <1>5, Harmless DEF Loop, Clock
<1>6. CASE th = Clock
  BY <1>1, <1>2, <1>3, <1>4, <1>6, Harmless DEF ClockAt
<1> QED
  BY <1>5, <1>6

(* A new alert: nothing comes before it, and what is owed is with the      *)
(* thread that sets it, if that is yet to mark it due.                     *)
LEMMA ArmingKeeps ==
  ASSUME TypeInv, NEW names \in Schedules, NextFire(names) # None, Arm(names),
         UNCHANGED <<now, up>>, up # "down", arming' = FALSE, up = "running" => retry' = FALSE,
         \/ Owed' = {} /\ thread'[Clock].at = "idle"
         \/ Owed' \subseteq Taken' /\ thread'[Clock].at = "mark"
  PROVE  SkipInv'
<1>1. /\ armed' = NextFire(names) /\ alert' = TRUE /\ slots' = names
  BY DEF Arm
<1>2. At[armed'] > now'
  BY <1>1, NextIsAhead
<1>3. \A o \in Occurrences : o[2] \in slots' /\ At[o] > now' => At[o] >= At[armed']
  BY <1>1, NextIsFirst DEF TypeInv
<1>4. AlertInv'
  BY <1>2, <1>3 DEF AlertInv, ClockAt, Is, Taken, Owed
<1> QED
  BY <1>1, <1>4 DEF SkipInv, DownInv, ArmingInv, WaitingInv, RetryInv

(* Time passes only with the clock's thread idle and the alert ahead.      *)
LEMMA TickSkips ==
  ASSUME TypeInv, OneAtATime, SkipInv, Tick
  PROVE  SkipInv'
<1>1. /\ UNCHANGED <<window, armVars, dueVars, up>> /\ now' = now + 1 /\ Is(Clock, "idle")
      /\ alert => At[armed] > now
  BY DEF Tick
<1>2. now \in Nat /\ now' \in Nat
  BY <1>1, AtAssumption DEF TypeInv, TypeOK
<1>3. CASE up # "running"
  BY <1>1, <1>3 DEF SkipInv, DownInv, ArmingInv, AlertInv, WaitingInv, RetryInv, armVars, dueVars, Is
<1>4. CASE up = "running"
  <2>1. \A o \in Owed' : \/ o \in Owed /\ ~(arming /\ o[1] < now' \div DayLength)
                         \/ o \in Passing(now') /\ ~announced
    BY <1>4 DEF Tick, Owed
  <2>2. \A o \in Passing(now') : o \in Occurrences /\ At[o] = now' /\ o[2] \in slots
    BY <1>4 DEF Passing
  <2>3. CASE arming
    <3>1. ~alert /\ ~alert' /\ arming'
      BY <1>1, <1>4, <2>3 DEF SkipInv, ArmingInv, armVars
    <3>2. CASE reported
      <4>1. announced /\ Owed = {}
        BY <1>4, <2>3, <3>2 DEF SkipInv, ArmingInv
      <4> QED
        BY <1>1, <1>4, <2>1, <2>3, <3>1, <3>2, <4>1
           DEF SkipInv, DownInv, ArmingInv, AlertInv, WaitingInv, RetryInv, armVars, dueVars, Is
    <3>3. CASE ~reported
      <4>1. Owed \subseteq Elapsed(slots)
        BY <1>4, <2>3, <3>3 DEF SkipInv, ArmingInv
      <4>2. ASSUME NEW o \in Owed'
            PROVE  /\ o \in Occurrences /\ o[2] \in slots /\ At[o] \in 0..now'
                   /\ o[1] = now' \div DayLength
        <5>1. CASE o \in Owed /\ ~(o[1] < now' \div DayLength)
          <6>1. o \in Occurrences /\ o[2] \in slots /\ At[o] \in 0..now /\ o[1] = now \div DayLength
            BY <4>1, <5>1 DEF Elapsed, Today
          <6>2. now' \div DayLength >= now \div DayLength
            <7>1. \A t, n \in Nat : n > 0 => (t + 1) \div n >= t \div n
              OBVIOUS
            <7> QED
              BY <1>1, <1>2, <7>1, AtAssumption
          <6>3. now' \div DayLength \in Int /\ now \div DayLength \in Int
            BY <1>2, AtAssumption
          <6> QED
            BY <1>1, <1>2, <5>1, <6>1, <6>2, <6>3
        <5>2. CASE o \in Passing(now')
          <6>1. o \in Occurrences /\ At[o] = now' /\ o[2] \in slots /\ At[o] # -1
            BY <1>2, <2>2, <5>2
          <6> QED
            BY <1>2, <6>1, DayOfInstant
        <5> QED
          BY <2>1, <2>3, <5>1, <5>2
      <4>3. Owed' \subseteq (Elapsed(slots))'
        BY <1>1, <4>2 DEF Elapsed, Today, armVars
      <4> QED
        BY <1>1, <1>4, <2>3, <3>1, <3>3, <4>3
           DEF SkipInv, DownInv, ArmingInv, AlertInv, WaitingInv, RetryInv, armVars, dueVars, Is
    <3> QED
      BY <3>2, <3>3
  <2>4. CASE ~arming /\ alert
    <3>1. Owed = {} /\ armed \in Occurrences /\ At[armed] > now
      BY <1>1, <1>2, <1>4, <2>4 DEF SkipInv, AlertInv, TypeInv, TypeOK, Is
    <3>2. At[armed] \in Nat
      BY <1>2, <3>1, DayOfInstant
    <3>3. ASSUME NEW o \in Owed' PROVE o = armed /\ At[armed] = now'
      <4>1. o \in Occurrences /\ At[o] = now' /\ o[2] \in slots
        BY <2>1, <2>2, <3>1, <3>3
      <4>2. At[o] > now
        BY <1>1, <1>2, <4>1
      <4>3. At[o] >= At[armed]
        BY <1>4, <2>4, <4>1, <4>2 DEF SkipInv, AlertInv
      <4>4. At[armed] = now'
        BY <1>1, <1>2, <3>1, <3>2, <4>1, <4>3
      <4> QED
        BY <1>2, <3>1, <4>1, <4>4 DEF OneAtATime
    <3>4. \A o \in Occurrences : o[2] \in slots /\ At[o] > now' => At[o] >= At[armed]
      <4> SUFFICES ASSUME NEW o \in Occurrences, o[2] \in slots, At[o] > now'
                   PROVE  At[o] >= At[armed]
        OBVIOUS
      <4>1. At[o] > now
        <5>1. At[o] \in Int
          BY AtAssumption, DaysAssumption DEF Occurrences, Days
        <5> QED
          BY <1>1, <1>2, <5>1
      <4> QED
        BY <1>4, <2>4, <4>1 DEF SkipInv, AlertInv
    <3>5. AlertInv'
      BY <1>1, <2>4, <3>3, <3>4 DEF AlertInv, ClockAt, Is, armVars, dueVars
    <3> QED
      BY <1>1, <1>4, <2>4, <3>5 DEF SkipInv, DownInv, ArmingInv, WaitingInv, RetryInv, armVars
  <2>5. CASE ~arming /\ ~alert
    <3>1. announced /\ Owed = {}
      BY <1>1, <1>4, <2>5 DEF SkipInv, WaitingInv, ClockAt, Is
    <3> QED
      BY <1>1, <1>4, <2>1, <2>5, <3>1
         DEF SkipInv, DownInv, ArmingInv, AlertInv, WaitingInv, RetryInv, ClockAt, Is, armVars, dueVars
  <2> QED
    BY <2>3, <2>4, <2>5
<1> QED
  BY <1>3, <1>4

LEMMA StepSkips ==
  ASSUME TypeInv, OneAtATime, windowed, SkipInv, [Next]_vars
  PROVE  SkipInv'
<1>0. TypeOK
  BY DEF TypeInv
<1>1. CASE UNCHANGED vars
  BY <1>1, Harmless DEF vars, clockVars, armVars, dueVars, Owed
<1>2. CASE Tick
  BY <1>2, TickSkips
<1>3. CASE Extend
  BY <1>3, Harmless DEF Extend, armVars, dueVars, Owed
<1>4. CASE Start
  <2>1. ~alert' /\ arming' /\ ~retry' /\ up' = "running" /\ Is(Clock, "idle")'
    BY <1>4 DEF Start, SkipInv, DownInv, dueVars, Is
  <2>2. ~reported' /\ \A o \in Owed' : o \in (Elapsed(slots))'
    BY <1>4 DEF Start, Owed, Elapsed, Today, clockVars
  <2>3. ArmingInv'
    BY <2>1, <2>2 DEF ArmingInv, Is, Elapsed, Today
  <2> QED
    BY <2>1, <2>3 DEF SkipInv, DownInv, AlertInv, WaitingInv, RetryInv, Is
<1>5. CASE Crash
  BY <1>5 DEF Crash, SkipInv, DownInv, ArmingInv, AlertInv, WaitingInv, RetryInv, Idle, Is, Loop, Clock
<1>6. CASE WarmFails
  <2>1. /\ arming /\ arming' /\ announced' /\ UNCHANGED <<up, slots, reported, alert, armed, retry, thread, now>>
        /\ Owed' = Owed
    BY <1>6 DEF WarmFails, clockVars, dueVars, Owed
  <2> QED
    BY <2>1 DEF SkipInv, DownInv, ArmingInv, AlertInv, WaitingInv, RetryInv, Is, ClockAt, Taken, Elapsed, Today
<1>7. CASE ArmNow
  <2>2. arming /\ reported' /\ UNCHANGED <<up, thread, now, window, retry>>
    BY <1>7 DEF ArmNow, Report, clockVars, dueVars
  <2>3. up \in {"down", "running", "stopped"}
    BY <1>0 DEF TypeOK
  <2>4. Owed' \subseteq Owed
    BY <1>7 DEF ArmNow, Report, Owed
  <2>5. up = "running" => Owed' = {} /\ Is(Clock, "idle") /\ ~alert /\ ~retry
    BY <1>7, <2>2, <2>4 DEF ArmNow, Report, Owed, SkipInv, ArmingInv, RetryInv
  <2>6. up # "down"
    BY <2>2 DEF SkipInv, DownInv
  <2>7. CASE up # "running"
    BY <2>2, <2>6, <2>7 DEF SkipInv, DownInv, ArmingInv, AlertInv, WaitingInv, RetryInv
  <2>8. CASE up = "running"
    <3>1. PICK names \in Schedules :
            \/ NextFire(names) # None /\ Arm(names) /\ arming' = FALSE
            \/ /\ slots' = names /\ announced' = TRUE /\ arming' = windowed
               /\ UNCHANGED <<armed, alert>>
      BY <1>7 DEF ArmNow
    <3>2. CASE NextFire(names) # None /\ Arm(names) /\ arming' = FALSE
      BY <1>0, <2>2, <2>5, <2>6, <2>8, <3>2, ArmingKeeps DEF Is, TypeOK
    <3>3. CASE slots' = names /\ announced' = TRUE /\ arming' = windowed /\ UNCHANGED <<armed, alert>>
      BY <2>2, <2>5, <2>8, <3>3 DEF SkipInv, DownInv, ArmingInv, AlertInv, WaitingInv, RetryInv, Is
    <3> QED
      BY <3>1, <3>2, <3>3
  <2> QED
    BY <2>7, <2>8
<1>8. CASE AlertFires
  <2>1. /\ ~alert' /\ UNCHANGED <<up, arming, slots, reported, announced, retry, now>> /\ Owed' = Owed
        /\ alert /\ ClockFree /\ At[armed] = now
        /\ thread' = [thread EXCEPT ![Clock] = [at |-> "rearm", day |-> armed[1], slot |-> armed[2]]]
    BY <1>8 DEF AlertFires, clockVars, Owed
  <2>2. armed \in Occurrences /\ armed = <<armed[1], armed[2]>>
    BY <1>0, <2>1 DEF TypeOK, Occurrences
  <2>3. [at |-> "rearm", day |-> armed[1], slot |-> armed[2]] \in Place
    BY <2>2 DEF Place, Places, Occurrences
  <2>4. /\ thread'[Clock].at = "rearm" /\ thread'[Clock].day = armed[1]
        /\ thread'[Clock].slot = armed[2]
    BY <1>0, <2>1, <2>3, PutTyped
  <2>5. up = "running" => Owed \subseteq {armed} /\ ~arming
    BY <2>1 DEF SkipInv, AlertInv, ArmingInv, ClockFree, Is
  <2>6. up # "down"
    BY <2>1 DEF SkipInv, DownInv
  <2> QED
    BY <2>1, <2>2, <2>4, <2>5, <2>6
       DEF SkipInv, DownInv, ArmingInv, AlertInv, WaitingInv, RetryInv, ClockAt, Is, Taken
<1>9. CASE RetryFires
  <2>1. /\ UNCHANGED <<up, arming, slots, reported, announced, armed, alert, now>> /\ Owed' = Owed
        /\ ClockFree /\ retry /\ ~retry'
    BY <1>9 DEF RetryFires, clockVars, Owed
  <2>2. up # "down"
    BY <2>1 DEF SkipInv, DownInv
  <2>3. CASE up # "running"
    BY <2>1, <2>2, <2>3 DEF SkipInv, DownInv, ArmingInv, AlertInv, WaitingInv, RetryInv
  <2>4. CASE up = "running"
    <3>1. thread'[Clock].at = "again"
      BY <1>0, <1>9, <2>4, GotoTyped DEF RetryFires, Places
    <3>2. ~alert /\ ~arming /\ announced /\ Owed = {}
      BY <2>1, <2>4 DEF SkipInv, RetryInv, WaitingInv, ClockFree, ClockAt, Is
    <3> QED
      BY <2>1, <2>4, <3>1, <3>2
         DEF SkipInv, DownInv, ArmingInv, AlertInv, WaitingInv, RetryInv, ClockAt, Is
  <2> QED
    BY <2>3, <2>4
<1>10. ASSUME NEW next \in {"mark", "idle"}, RearmAfterAlert(next),
              UNCHANGED <<now, up, arming, reported>>, Owed' = Owed,
              ClockAt({"rearm", "again"}),
              \/ Is(Clock, "rearm") /\ Is(Clock, "mark")' /\ Taken' = Taken
              \/ Is(Clock, "again") /\ Is(Clock, "idle")'
       PROVE  SkipInv'
  <2>1. up # "down"
    BY <1>10 DEF SkipInv, DownInv, ClockAt, Is
  <2>2. up = "running" => ~alert /\ ~retry /\ ~arming
    BY <1>10 DEF SkipInv, ArmingInv, AlertInv, RetryInv, ClockAt, Is
  <2>3. up = "running" => IF Is(Clock, "rearm") THEN Owed \subseteq Taken ELSE Owed = {}
    BY <1>10, <2>2 DEF SkipInv, WaitingInv, ClockAt, Is
  <2>4. CASE up # "running"
    BY <1>10, <2>1, <2>4 DEF SkipInv, DownInv, ArmingInv, AlertInv, WaitingInv, RetryInv
  <2>5. CASE up = "running"
    <3>1. PICK names \in Schedules :
            \/ NextFire(names) # None /\ Arm(names) /\ UNCHANGED retry
            \/ announced' = TRUE /\ retry' = TRUE /\ UNCHANGED <<armed, alert>>
      BY <1>10 DEF RearmAfterAlert
    <3>2. CASE NextFire(names) # None /\ Arm(names) /\ UNCHANGED retry
      <4>1. retry' = FALSE /\ arming' = FALSE
        BY <1>0, <1>10, <2>2, <2>5, <3>2 DEF TypeOK
      <4>2. \/ Owed' = {} /\ thread'[Clock].at = "idle"
            \/ Owed' \subseteq Taken' /\ thread'[Clock].at = "mark"
        BY <1>10, <2>3, <2>5 DEF Is
      <4> QED
        BY <1>10, <2>1, <3>2, <4>1, <4>2, ArmingKeeps
    <3>3. CASE announced' = TRUE /\ retry' = TRUE /\ UNCHANGED <<armed, alert>>
      BY <1>10, <2>2, <2>3, <2>5, <3>3
         DEF SkipInv, DownInv, ArmingInv, AlertInv, WaitingInv, RetryInv, ClockAt, Is
    <3> QED
      BY <3>1, <3>2, <3>3
  <2> QED
    BY <2>4, <2>5
<1>18. ASSUME NEW next \in {"mark", "idle"}, RearmAfterAlert(next)
       PROVE  /\ fate' = fate /\ thread'[Clock].at = next
              /\ thread'[Clock].day = thread[Clock].day /\ thread'[Clock].slot = thread[Clock].slot
  <2>1. Goto(Clock, next) /\ fate' = fate
    BY <1>18 DEF RearmAfterAlert
  <2> QED
    BY <1>0, <2>1, GotoTyped DEF Places
<1>11. CASE Rearm
  <2>1. /\ thread'[Clock].at = "mark" /\ thread'[Clock].day = thread[Clock].day
        /\ thread'[Clock].slot = thread[Clock].slot /\ fate' = fate
    BY <1>11, <1>18 DEF Rearm
  <2> QED
    BY <1>10, <1>11, <2>1 DEF Rearm, clockVars, Owed, Taken, Is, ClockAt
<1>12. CASE RetryRearms
  <2>1. thread'[Clock].at = "idle" /\ fate' = fate
    BY <1>12, <1>18 DEF RetryRearms
  <2> QED
    BY <1>10, <1>12, <2>1 DEF RetryRearms, clockVars, Owed, Is, ClockAt
<1>13. CASE MarkDue
  <2>1. /\ UNCHANGED <<now, up, slots, arming, announced, reported, armed, alert, retry>>
        /\ Is(Clock, "mark")
        /\ fate' = [Missed(fate) EXCEPT ![<<thread[Clock].day, thread[Clock].slot>>] = "due"]
    BY <1>13 DEF MarkDue, clockVars, armVars
  <2>2. thread'[Clock].at = "try"
    BY <1>0, <1>13, GotoTyped DEF MarkDue, Places
  <2>3. Owed' \subseteq Owed \ Taken
    BY <1>0, <2>1 DEF TypeOK, Missed, Owed, Taken
  <2>4. up = "running" => Owed' = {}
    BY <2>1, <2>3 DEF SkipInv, ArmingInv, AlertInv, WaitingInv, ClockAt, Is
  <2> QED
    BY <2>1, <2>2, <2>4
       DEF SkipInv, DownInv, ArmingInv, AlertInv, WaitingInv, RetryInv, ClockAt, Is
<1>14. CASE Bar
  <2>1. thread'[Clock] = thread[Clock]
    BY <1>0, <1>14, GotoTyped DEF Bar, Places, Loop, Clock
  <2> QED
    BY <1>14, <2>1, Harmless DEF Bar, clockVars, armVars, Owed
<1>15. ASSUME NEW t \in live, TaskEnds(t) PROVE SkipInv'
  BY <1>15, Harmless DEF TaskEnds, clockVars, armVars, dueVars, Owed
<1>16. CASE SourceTimer \/ Urgent
  BY <1>16, Harmless DEF SourceTimer, Urgent, clockVars, armVars, dueVars, Owed
<1>17. CASE OnStop
  BY <1>17 DEF OnStop, StopWith, SkipInv, DownInv, ArmingInv, AlertInv, WaitingInv, RetryInv
<1> QED
  BY <1>1, <1>2, <1>3, <1>4, <1>5, <1>6, <1>7, <1>8, <1>9, <1>11, <1>12, <1>13, <1>14, <1>15,
     <1>16, <1>17, DecidesIsHarmless DEF Next, ClockSteps

(* No alert is aborted, and the lane that is not armed has said so, so     *)
(* nothing comes unnoticed.                                                *)
NothingLost == \A o \in Occurrences : fate[o] # "lost"

WindowInv == windowed => SkipInv /\ NothingLost

LEMMA StepLost ==
  ASSUME TypeInv, windowed, SkipInv, NothingLost, [Next]_vars
  PROVE  NothingLost'
<1>0. fate \in [Occurrences -> Fates]
  BY DEF TypeInv, TypeOK
<1>1. ASSUME NEW o, NEW f \in Fates \ {"lost"}, fate' = [fate EXCEPT ![o] = f]
      PROVE  NothingLost'
  BY <1>0, <1>1 DEF NothingLost
<1>2. ASSUME UNCHANGED fate
      PROVE  NothingLost'
  BY <1>2 DEF NothingLost
<1>3. CASE Tick
  <2>1. up = "running" /\ Forgotten => announced
    BY <1>3 DEF Tick, Forgotten, SkipInv, WaitingInv, Is
  <2> QED
    BY <1>0, <1>3, <2>1 DEF Tick, NothingLost, Forgotten
<1>4. CASE Start \/ Crash \/ ArmNow
  BY <1>0, <1>4 DEF Start, Crash, ArmNow, Report, NothingLost
<1>5. CASE Extend \/ WarmFails \/ AlertFires \/ RetryFires \/ Bar \/ SourceTimer \/ Urgent
  BY <1>2, <1>5 DEF Extend, WarmFails, AlertFires, RetryFires, Bar, SourceTimer, Urgent
<1>6. CASE Rearm \/ RetryRearms
  <2>1. PICK next \in {"mark", "idle"} : RearmAfterAlert(next)
    BY <1>6 DEF Rearm, RetryRearms
  <2> QED
    BY <1>2, <2>1 DEF RearmAfterAlert
<1>7. CASE MarkDue
  <2>1. \A o \in Occurrences : fate'[o] \in {fate[o], "told", "due"}
    BY <1>0, <1>7 DEF MarkDue, Missed
  <2> QED
    BY <2>1 DEF NothingLost
<1>8. ASSUME NEW th \in {Loop, Clock}, Decides(th)
      PROVE  NothingLost'
  <2>1. UNCHANGED fate \/ \E o, f : f \in {"told", "given"} /\ fate' = [fate EXCEPT ![o] = f]
    BY <1>8 DEF Decides, Wait, ReadDue, ClearDue, Ask, StartTask
  <2> QED
    BY <1>1, <1>2, <2>1 DEF Fates
<1>9. ASSUME NEW t \in live, TaskEnds(t)
      PROVE  NothingLost'
  BY <1>2, <1>9 DEF TaskEnds
<1>10. CASE OnStop
  BY <1>0, <1>10 DEF OnStop, StopWith, NothingLost
<1>11. CASE UNCHANGED vars
  BY <1>2, <1>11 DEF vars
<1> QED
  BY <1>3, <1>4, <1>5, <1>6, <1>7, <1>8, <1>9, <1>10, <1>11 DEF Next, ClockSteps

(* Once the lane is armed again nothing is left owed or lost: every slot   *)
(* that came while it was to decide became due, was reported or came       *)
(* behind a notice (contract.py, on_start to rearm_after_alert), for every *)
(* schedule, both hosts and every calendar whose slots come one at a time  *)
(* and that refuses by OutsideCalendarWindow alone.                        *)
THEOREM NothingSkipped == OneAtATime => (Spec => []NoSlotSkippedWindowed)
<1> SUFFICES ASSUME OneAtATime PROVE Spec => []NoSlotSkippedWindowed
  OBVIOUS
<1>1. Init => WindowInv
  BY DEF Init, WindowInv, NothingLost, SkipInv, DownInv, ArmingInv, AlertInv, WaitingInv,
     RetryInv, Idle, Is, Loop, Clock
<1>2. TypeInv /\ WindowInv /\ [Next]_vars => WindowInv'
  <2> SUFFICES ASSUME TypeInv, WindowInv, [Next]_vars, windowed' PROVE SkipInv' /\ NothingLost'
    BY DEF WindowInv
  <2>1. windowed
    BY HostStays DEF hostVars
  <2>2. SkipInv /\ NothingLost
    BY <2>1 DEF WindowInv
  <2> QED
    BY <2>1, <2>2, StepSkips, StepLost
<1>3. TypeInv /\ WindowInv => NoSlotSkippedWindowed
  <2> SUFFICES ASSUME TypeInv, windowed, SkipInv, NothingLost, Settled PROVE Owed = {}
    BY DEF WindowInv, NoSlotSkippedWindowed, NoSlotSkipped, Owed, NothingLost
  <2>1. now \in Nat /\ At[armed] > now
    BY AtAssumption DEF TypeInv, TypeOK, Settled
  <2>2. At[armed] # now
    BY <2>1
  <2> QED
    BY <2>2 DEF SkipInv, AlertInv, Settled, Is
<1> QED
  BY <1>1, <1>2, <1>3, InitTypes, StepTypes, PTL DEF Spec
=============================================================================
