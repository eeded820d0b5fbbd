---------------------------- MODULE MCLaneTimers ----------------------------
(***************************************************************************)
(* Instances of LaneTimers for TLC.                                        *)
(***************************************************************************)
EXTENDS LaneTimers, TLC

CONSTANTS open5, close20

MCSlots == {open5, close20}

(* Days of three ticks: before the open, and the two slots.  The half day  *)
(* has no later slot.                                                      *)
MCAt ==
  [o \in Days \X MCSlots |->
     IF o[2] = open5 THEN 3 * o[1] + 1
     ELSE IF o[1] = 1 THEN -1 ELSE 3 * o[1] + 2]

(* Two slots of one instant, as `close-30m' and `12:30' on a half day.     *)
MCAtTogether ==
  [o \in Days \X MCSlots |->
     IF o[2] = open5 \/ o[1] = 1 THEN 3 * o[1] + 1 ELSE 3 * o[1] + 2]

Both == {MCSlots}
Either == {MCSlots, {open5}}
OnBoth == BOOLEAN
Never == {FALSE}
Always == {TRUE}

=============================================================================
