---------------------------- MODULE PowerLadder ----------------------------
(***************************************************************************)
(* What the interlock promises, without the policy that keeps the promise: *)
(* the outputs stand on a rung of a ladder, one rung may be climbed at a   *)
(* time and only in Controlled mode under a lease that has not run out,    *)
(* everybody may go down at any time, and a latched fault is at the bottom *)
(* until it is released.                                                   *)
(***************************************************************************)
EXTENDS Integers

CONSTANT LeaseTimeout

VARIABLES
  mode,   \* "SafeOff", "Controlled" or "FaultLatched"
  rung,   \* where the outputs stand
  lease   \* milliseconds of lease left, 0 when there is none

vars == <<mode, rung, lease>>

Rungs == {"Safe", "FanLow", "Powered", "Running"}

(* One step up: lower the fan with 5 V off, or enable 5 V with reset      *)
(* asserted and the fan at full, or release reset with 5 V enabled.        *)
Up   == {<<"Safe", "FanLow">>, <<"Safe", "Powered">>, <<"Powered", "Running">>}
Down == {<<r, "Safe">> : r \in Rungs} \cup {<<"Running", "Powered">>}

Init == mode = "SafeOff" /\ rung = "Safe" /\ lease = 0

Arm ==
  /\ mode # "FaultLatched"
  /\ mode = "Controlled" => lease > 0
  /\ mode' = "Controlled"
  /\ rung' = "Safe"
  /\ lease' \in 0 .. LeaseTimeout

Renew ==
  /\ mode = "Controlled"
  /\ lease > 0
  /\ lease' \in 0 .. LeaseTimeout
  /\ UNCHANGED <<mode, rung>>

Climb ==
  /\ mode = "Controlled"
  /\ lease > 0
  /\ <<rung, rung'>> \in Up
  /\ UNCHANGED <<mode, lease>>

Descend == <<rung, rung'>> \in Down /\ UNCHANGED <<mode, lease>>

Latch ==
  /\ mode # "FaultLatched"
  /\ mode' = "FaultLatched"
  /\ rung' = "Safe"
  /\ lease' = 0

Release == mode' = "SafeOff" /\ rung' = "Safe" /\ lease' = 0

Pass == lease > 0 /\ lease' = lease - 1 /\ UNCHANGED <<mode, rung>>

Next == Arm \/ Renew \/ Climb \/ Descend \/ Latch \/ Release \/ Pass

Spec == Init /\ [][Next]_vars
=============================================================================
