---------------------------- MODULE SafetyPolicy ----------------------------
(***************************************************************************)
(* SafetyPolicy as a library: any caller, any configured stage, any order  *)
(* of calls, any trip level at each tick, and a clock that only goes       *)
(* forward.  The firmware is one such caller (BridgeControl.tla).          *)
(***************************************************************************)
EXTENDS Safety

CONSTANT ConfiguredStages   \* the stages a caller may configure

ASSUME StageAssumption == ConfiguredStages \subseteq Stages

VARIABLES
  policy,   \* the SafetyPolicy object
  now,      \* the millisecond clock the caller reads
  last      \* the last call and its Result

vars == <<policy, now, last>>

Calls == {"none", "tick", "arm", "heartbeat", "five_volt_on", "five_volt_off",
          "reset_assert", "reset_release", "fan", "clear_fault", "disarm"}

TypeOK ==
  /\ policy \in Policy
  /\ now \in Time
  /\ last \in [op : Calls, res : Errors \cup {"Ok"}]

Init ==
  /\ \E stage \in ConfiguredStages, caps \in {Implemented, Required} :
       policy = NewPolicy(stage, caps)
  /\ now = 0
  /\ last = [op |-> "none", res |-> "Ok"]

Return(op, r) ==
  /\ policy' = r.policy
  /\ last' = [op |-> op, res |-> r.res]
  /\ UNCHANGED now

CallTick         == \E trip \in BOOLEAN : Return("tick", Ok(Tick(policy, now, trip)))
CallArm          == Return("arm", Arm(policy, now))
CallHeartbeat    == Return("heartbeat", Heartbeat(policy, now))
CallFiveVoltOn   == Return("five_volt_on", RequestFiveVolt(policy, TRUE, now))
CallFiveVoltOff  == Return("five_volt_off", RequestFiveVolt(policy, FALSE, now))
CallResetAssert  == Return("reset_assert", RequestAsicReset(policy, TRUE, now))
CallResetRelease == Return("reset_release", RequestAsicReset(policy, FALSE, now))
CallFan          == \E percent \in FanPercents : Return("fan", RequestFan(policy, percent, now))
CallClearFault   == Return("clear_fault", ClearFault(policy, now))
CallDisarm       == Return("disarm", Ok(Disarm(policy)))

Elapse == now < U64Max /\ now' = now + 1 /\ UNCHANGED <<policy, last>>

Next ==
  \/ CallTick \/ CallArm \/ CallHeartbeat \/ CallFiveVoltOn \/ CallFiveVoltOff
  \/ CallResetAssert \/ CallResetRelease \/ CallFan \/ CallClearFault \/ CallDisarm
  \/ Elapse

Spec == Init /\ [][Next]_vars

-----------------------------------------------------------------------------
(* Safety. *)

(* A fault is recorded exactly while the policy is FaultLatched, and only  *)
(* a stage that enforces a condition can latch it.  disarm() and status()  *)
(* decide by the fault field, every guard by the state field: were the two *)
(* to disagree, a disarm would unlatch a fault or a status would hide one. *)
FaultCoherent == FaultMatches(policy)

(* Outside Controlled the *requested* outputs are the safe ones, so that   *)
(* leaving FaultLatched cannot let an old request through; and a stage     *)
(* that enforces the lease holds one exactly while Controlled.             *)
ControlledOrSafe == LeaseMatches(policy)

(* Under a lease, reset is released only with 5 V on and 5 V is on only    *)
(* with the fan at 100 percent, whatever the order of requests was.        *)
PowerOrdered == Ordered(policy)

(* In TripLatch a policy that has last sampled the trip high is latched,   *)
(* also after clear_fault, arm or disarm have been tried on it.            *)
TripAlwaysLatched == TripHeld(policy)

(* A lease never reaches further than one timeout from now, saturation of  *)
(* the u64 included, so the u32 field of a status never has to be clamped. *)
LeaseBounded == policy.deadline # NoLease => policy.deadline <= now + LeaseTimeout

TimeLeft(p, t) == IF p.deadline = NoLease \/ p.deadline <= t THEN 0 ELSE p.deadline - t

(* A good verdict is never reported over a fault, a trip or a lapsed lease,*)
(* BadUnsafeOutputs is never reported at all, and production is Good only  *)
(* with every capability in a trip stage.  The lease is reported exactly:  *)
(* what is left of it, 0 from the deadline on, and a time left is reported *)
(* in Controlled only.  The clock of status() may be past the deadline in  *)
(* a policy that no tick has latched yet.                                  *)
StatusHonest ==
  LET s == Status(policy, now)
  IN  /\ s.runtime # "BadUnsafeOutputs"
      /\ s.runtime = "GoodSafeOff" => s.outputs = Safe /\ s.state = "SafeOff"
      /\ s.runtime = "GoodControlled" =>
           /\ s.state = "Controlled" /\ s.fault = "None" /\ ~s.trip
           /\ EnforcesLease(policy) => now < policy.deadline
      /\ s.production = "Good" =>
           /\ s.capabilities = Required /\ s.stage = "TripLatch"
           /\ s.fault = "None" /\ ~s.trip
           /\ s.state = "Controlled" => s.lease > 0
      /\ s.lease = TimeLeft(policy, now)
      /\ s.lease > 0 => s.state = "Controlled"

(* The second expiry check, in ensure_controlled, never finds anything:    *)
(* every caller has ticked with the same clock before.  SafetyError::      *)
(* LeaseExpired is therefore never returned; a late caller gets            *)
(* FaultLatched.                                                           *)
ExpiryErrorUnreachable == last.res # "LeaseExpired"

-----------------------------------------------------------------------------
(* Action properties. *)

(* The first fault stays, with its reason, until clear_fault is called     *)
(* with the last sampled trip low.                                         *)
FaultSticky ==
  [][policy.fault # "None" /\ policy'.fault # policy.fault =>
       last'.op = "clear_fault" /\ ~policy.trip /\ policy'.fault = "None"]_vars

(* A lease that has run out is never extended: whatever is called next, it *)
(* stays as it is or is dropped.                                           *)
ExpiredLeaseIsDead ==
  [][Expired(policy, now) => policy'.deadline \in {policy.deadline, NoLease}]_vars

(* A refused call leaves the whole policy as it was: state, lease and the  *)
(* requested outputs, also those that do not show while a fault is latched.*)
(* Only if the lease had lapsed unnoticed may the call leave its end       *)
(* behind, and nothing else.                                               *)
RefusalIsInert ==
  [][last'.res # "Ok" =>
       \/ policy' = policy
       \/ LeaseLapses(policy, now) /\ policy' = LatchFault(policy, "LeaseExpired")]_vars

-----------------------------------------------------------------------------
(* docs/safety-interlock.md, state table: CONTROLLED is left by DISARM,    *)
(* lease expiry or an ASIC trip.  The code has one more exit.              *)
DocumentedControlledExits ==
  [][policy.state = "Controlled" /\ policy'.state # "Controlled" =>
       last'.op = "disarm" \/ policy'.state = "FaultLatched"]_vars

-----------------------------------------------------------------------------
(* The policy climbs no rung the interlock does not promise. *)

RungOf(o) ==
  IF o.v5 /\ o.fan = 100 THEN IF o.rst THEN "Powered" ELSE "Running"
  ELSE IF ~o.v5 /\ o.rst THEN IF o.fan = 100 THEN "Safe" ELSE "FanLow"
  ELSE "Illegal"

Ladder == INSTANCE PowerLadder WITH
  mode <- policy.state, rung <- RungOf(policy.out), lease <- TimeLeft(policy, now)

(* Under an enforced lease every call of the policy is one step of the     *)
(* ladder, or none.                                                        *)
LadderSpec == Ladder!Spec
=============================================================================
