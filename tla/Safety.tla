------------------------------- MODULE Safety -------------------------------
(***************************************************************************)
(* The safety policy of src/safety.rs as operators on a policy record:     *)
(* every method of SafetyPolicy is an operator that takes the policy       *)
(* before the call and returns the policy after it (with the Result of the *)
(* call, where it has one).  SafetyPolicy.tla lets an arbitrary caller     *)
(* drive these operators; BridgeControl.tla drives them as the firmware's  *)
(* control task does.                                                      *)
(*                                                                         *)
(* The operators whose names begin with Bug are plausible slips in the     *)
(* code they stand next to.  No specification uses them: they are there to *)
(* confirm that the properties of the runs notice such a slip.             *)
(***************************************************************************)
EXTENDS Integers

CONSTANTS
  LeaseTimeout,  \* config.lease_timeout_ms
  U64Max,        \* the largest millisecond count a u64 holds
  U32Max,        \* the largest value of the u32 lease field of a status
  FanPercents    \* the u8 percentages a caller may ask for

ASSUME SafetyAssumption ==
  /\ U64Max \in Nat
  /\ U32Max \in Nat
  /\ LeaseTimeout \in Nat
  /\ LeaseTimeout <= U32Max      \* the field is a u32
  /\ FanPercents \subseteq Nat   \* a u8; nothing below needs its upper end
  /\ 100 \in FanPercents

-----------------------------------------------------------------------------
(* The types of the record. *)

Time    == 0 .. U64Max
NoLease == -1                    \* lease_deadline_ms = None

Stages  == {"BootSafe", "Lease", "TripLatch"}
States  == {"SafeOff", "Controlled", "FaultLatched"}
Faults  == {"None", "LeaseExpired", "AsicTrip"}
Errors  == {"LeaseRequired", "LeaseExpired", "FaultLatched", "TripActive",
            "InvalidSequence", "FanNotSafe", "InvalidFanPercent"}

Implemented == {"FiveVoltControl", "AsicResetControl", "FanForceFull", "TripInputSampled"}
Required    == Implemented \cup {"CorePowerCutoff", "FanTachInterlock", "IndependentTripMonitor"}

Outputs == [v5 : BOOLEAN, rst : BOOLEAN, fan : FanPercents]

Policy ==
  [stage : Stages, caps : SUBSET Required, state : States, fault : Faults,
   out : Outputs, trip : BOOLEAN, deadline : Time \cup {NoLease}]

EnforcesLease(p) == p.stage \in {"Lease", "TripLatch"}
EnforcesTrip(p)  == p.stage = "TripLatch"

Safe == [v5 |-> FALSE, rst |-> TRUE, fan |-> 100]

NewPolicy(stage, caps) ==
  [stage |-> stage, caps |-> caps, state |-> "SafeOff", fault |-> "None",
   out |-> Safe, trip |-> FALSE, deadline |-> NoLease]

Firmware == NewPolicy("TripLatch", Implemented)

-----------------------------------------------------------------------------
(* What holds of a policy between calls; SafetyPolicy and BridgeControl     *)
(* state these of their policy, and SafetyProofs proves that each call of   *)
(* the policy keeps them.                                                   *)

(* The fault field and the state field tell the same story. *)
FaultMatches(p) ==
  /\ p.state = "FaultLatched" <=> p.fault # "None"
  /\ p.fault = "LeaseExpired" => EnforcesLease(p)
  /\ p.fault = "AsicTrip" => EnforcesTrip(p)

(* Nothing is requested outside Controlled, and a lease is held exactly in  *)
(* Controlled.                                                              *)
LeaseMatches(p) ==
  /\ p.state # "Controlled" => p.out = Safe
  /\ EnforcesLease(p) => (p.state = "Controlled" <=> p.deadline # NoLease)
  /\ ~EnforcesLease(p) => p.deadline = NoLease

(* Reset is released only with 5 V on, 5 V is on only at full fan.          *)
Ordered(p) ==
  EnforcesLease(p) =>
    /\ ~p.out.rst => p.out.v5
    /\ p.out.v5 => p.out.fan = 100

(* A trip once sampled is latched. *)
TripHeld(p) == EnforcesTrip(p) /\ p.trip => p.state = "FaultLatched"

-----------------------------------------------------------------------------
(* outputs(): a latched fault overrides whatever was requested. *)
Effective(p) == IF p.state = "FaultLatched" THEN Safe ELSE p.out

BugLatchFault(p, reason) ==      \* forgets to drop the requested outputs
  [p EXCEPT !.state = "FaultLatched", !.fault = reason, !.deadline = NoLease]

LatchFault(p, reason) ==
  [p EXCEPT !.state = "FaultLatched", !.fault = reason, !.out = Safe, !.deadline = NoLease]

TripLatches(p, trip) == p.state # "FaultLatched" /\ EnforcesTrip(p) /\ trip

Expired(p, now) == p.deadline # NoLease /\ now >= p.deadline

LeaseLapses(p, now) == p.state = "Controlled" /\ EnforcesLease(p) /\ Expired(p, now)

BugTickDeaf(p, now, trip) ==     \* the lease check is lost
  LET q == [p EXCEPT !.trip = trip]
  IN  IF TripLatches(q, trip) THEN LatchFault(q, "AsicTrip") ELSE q

BugTickRelatch(p, now, trip) ==  \* a trip overwrites an earlier fault
  LET q == [p EXCEPT !.trip = trip]
  IN  IF EnforcesTrip(q) /\ trip THEN LatchFault(q, "AsicTrip")
      ELSE IF LeaseLapses(q, now) THEN LatchFault(q, "LeaseExpired") ELSE q

BugTickRunningOnly(p, now, trip) ==  \* the trip is latched only in Controlled
  LET q == [p EXCEPT !.trip = trip]
  IN  IF TripLatches(q, trip) /\ q.state = "Controlled" THEN LatchFault(q, "AsicTrip")
      ELSE IF LeaseLapses(q, now) THEN LatchFault(q, "LeaseExpired") ELSE q

Tick(p, now, trip) ==
  LET q == [p EXCEPT !.trip = trip]
  IN  IF TripLatches(q, trip) THEN LatchFault(q, "AsicTrip")
      ELSE IF LeaseLapses(q, now) THEN LatchFault(q, "LeaseExpired") ELSE q

-----------------------------------------------------------------------------
(* The methods that return a Result. *)

Ok(p)        == [policy |-> p, res |-> "Ok"]
Refuse(p, e) == [policy |-> p, res |-> e]

BugLeaseFrom(now) == now + LeaseTimeout     \* does not saturate

LeaseFrom(now) == IF now + LeaseTimeout > U64Max THEN U64Max ELSE now + LeaseTimeout

Arm(p0, now) ==
  LET p == Tick(p0, now, p0.trip)
  IN  IF p.state = "FaultLatched" THEN Refuse(p, "FaultLatched")
      ELSE IF EnforcesTrip(p) /\ p.trip THEN Refuse(p, "TripActive")
      ELSE Ok([p EXCEPT !.out = Safe, !.state = "Controlled",
                        !.deadline = IF EnforcesLease(p) THEN LeaseFrom(now) ELSE NoLease])

BugHeartbeat(p, now) ==          \* no tick: a lapsed lease is renewed
  IF p.state # "Controlled" THEN Refuse(p, "LeaseRequired")
  ELSE IF EnforcesLease(p) THEN Ok([p EXCEPT !.deadline = LeaseFrom(now)])
  ELSE Ok(p)

BugHeartbeatAdds(p0, now) ==     \* each heartbeat adds a lease to what is left
  LET p == Tick(p0, now, p0.trip)
  IN  IF p.state = "FaultLatched" THEN Refuse(p, "FaultLatched")
      ELSE IF p.state # "Controlled" THEN Refuse(p, "LeaseRequired")
      ELSE IF EnforcesLease(p) THEN Ok([p EXCEPT !.deadline = LeaseFrom(p.deadline)])
      ELSE Ok(p)

Heartbeat(p0, now) ==
  LET p == Tick(p0, now, p0.trip)
  IN  IF p.state = "FaultLatched" THEN Refuse(p, "FaultLatched")
      ELSE IF p.state # "Controlled" THEN Refuse(p, "LeaseRequired")
      ELSE IF EnforcesLease(p) THEN Ok([p EXCEPT !.deadline = LeaseFrom(now)])
      ELSE Ok(p)

EnsureControlled(p, now) ==
  IF p.state = "FaultLatched" THEN Refuse(p, "FaultLatched")
  ELSE IF p.state = "SafeOff" /\ EnforcesLease(p) THEN Refuse(p, "LeaseRequired")
  ELSE LET q == [p EXCEPT !.state = "Controlled"]
       IN  IF EnforcesLease(q) /\ (q.deadline = NoLease \/ now >= q.deadline)
           THEN Refuse(LatchFault(q, "LeaseExpired"), "LeaseExpired")
           ELSE Ok(q)

RequestFiveVolt(p0, enabled, now) ==
  LET p == Tick(p0, now, p0.trip)
      c == EnsureControlled(p, now)
      q == c.policy
  IN  IF ~enabled THEN Ok([p EXCEPT !.out = Safe])
      ELSE IF c.res # "Ok" THEN c
      ELSE IF EnforcesLease(q) /\ q.out.fan # 100 THEN Refuse(q, "FanNotSafe")
      ELSE IF EnforcesLease(q) /\ ~q.out.rst THEN Refuse(q, "InvalidSequence")
      ELSE Ok([q EXCEPT !.out.v5 = TRUE])

BugRequestAsicReset(p0, asserted, now) ==   \* releases reset without 5 V
  LET p == Tick(p0, now, p0.trip)
      c == EnsureControlled(p, now)
  IN  IF asserted THEN Ok([p EXCEPT !.out.rst = TRUE])
      ELSE IF c.res # "Ok" THEN c
      ELSE Ok([c.policy EXCEPT !.out.rst = FALSE])

RequestAsicReset(p0, asserted, now) ==
  LET p == Tick(p0, now, p0.trip)
      c == EnsureControlled(p, now)
      q == c.policy
  IN  IF asserted THEN Ok([p EXCEPT !.out.rst = TRUE])
      ELSE IF c.res # "Ok" THEN c
      ELSE IF EnforcesLease(q) /\ ~q.out.v5 THEN Refuse(q, "InvalidSequence")
      ELSE Ok([q EXCEPT !.out.rst = FALSE])

BugRequestFan(p0, percent, now) ==          \* refuses, but after the assignment
  LET p == Tick(p0, now, p0.trip)
      c == EnsureControlled(p, now)
      q == [c.policy EXCEPT !.out.fan = percent]
  IN  IF percent > 100 THEN Refuse(p, "InvalidFanPercent")
      ELSE IF percent = 100 THEN Ok([p EXCEPT !.out.fan = 100])
      ELSE IF c.res # "Ok" THEN c
      ELSE IF EnforcesLease(q) /\ q.out.v5 THEN Refuse(q, "InvalidSequence")
      ELSE Ok(q)

RequestFan(p0, percent, now) ==
  LET p == Tick(p0, now, p0.trip)
      c == EnsureControlled(p, now)
      q == c.policy
  IN  IF percent > 100 THEN Refuse(p, "InvalidFanPercent")
      ELSE IF percent = 100 THEN Ok([p EXCEPT !.out.fan = 100])
      ELSE IF c.res # "Ok" THEN c
      ELSE IF EnforcesLease(q) /\ q.out.v5 THEN Refuse(q, "InvalidSequence")
      ELSE Ok([q EXCEPT !.out.fan = percent])

BugClearFault(p, now) ==         \* clears whatever the trip input says
  Ok(Tick([p EXCEPT !.state = "SafeOff", !.fault = "None", !.out = Safe,
                    !.deadline = NoLease], now, FALSE))

ClearFault(p, now) ==            \* no tick first: the trip level is the last one sampled
  IF p.trip THEN Refuse(p, "TripActive")
  ELSE Ok(Tick([p EXCEPT !.state = "SafeOff", !.fault = "None", !.out = Safe,
                         !.deadline = NoLease], now, FALSE))

BugDisarm(p) ==                  \* returns to SafeOff without a look at the fault
  [p EXCEPT !.out = Safe, !.deadline = NoLease, !.state = "SafeOff"]

Disarm(p) ==
  [p EXCEPT !.out = Safe, !.deadline = NoLease,
            !.state = IF p.fault = "None" THEN "SafeOff" ELSE @]

-----------------------------------------------------------------------------
(* status(now): what GET_SAFETY_STATUS reports. *)

LeaseRemaining(p, now) ==        \* saturating_sub, then clamped to a u32
  IF p.deadline = NoLease \/ p.deadline <= now THEN 0
  ELSE IF p.deadline - now > U32Max THEN U32Max ELSE p.deadline - now

LeaseValid(p, now) ==
  ~EnforcesLease(p) \/ (p.state = "Controlled" /\ LeaseRemaining(p, now) > 0)

BugRuntimeVerdict(p, now) ==     \* the lease is not looked at
  IF p.fault # "None" THEN "BadFault"
  ELSE IF p.trip THEN "BadTripInput"
  ELSE IF p.state = "SafeOff"
       THEN IF Effective(p) = Safe THEN "GoodSafeOff" ELSE "BadUnsafeOutputs"
  ELSE "GoodControlled"

RuntimeVerdict(p, now) ==
  IF p.fault # "None" THEN "BadFault"
  ELSE IF p.trip THEN "BadTripInput"
  ELSE IF p.state = "SafeOff"
       THEN IF Effective(p) = Safe THEN "GoodSafeOff" ELSE "BadUnsafeOutputs"
  ELSE IF EnforcesLease(p) /\ ~LeaseValid(p, now) THEN "BadLease"
  ELSE "GoodControlled"

ProductionVerdict(p, now) ==
  IF ~EnforcesTrip(p) THEN "BadStageDisabled"
  ELSE IF RuntimeVerdict(p, now) \notin {"GoodSafeOff", "GoodControlled"} THEN "BadRuntime"
  ELSE IF ~(Required \subseteq p.caps) THEN "BadCapabilityGap"
  ELSE "Good"

Evidence(p, now) ==
  {e \in {"OutputsSafe", "LeaseValid", "TripClear", "FaultClear"} :
     \/ e = "OutputsSafe" /\ Effective(p) = Safe
     \/ e = "LeaseValid"  /\ LeaseValid(p, now)
     \/ e = "TripClear"   /\ ~p.trip
     \/ e = "FaultClear"  /\ p.fault = "None"}
  \cup (p.caps \cap (Required \ Implemented))

Status(p, now) ==
  [stage |-> p.stage, state |-> p.state, fault |-> p.fault,
   runtime |-> RuntimeVerdict(p, now), production |-> ProductionVerdict(p, now),
   capabilities |-> p.caps, evidence |-> Evidence(p, now),
   lease |-> LeaseRemaining(p, now), outputs |-> Effective(p), trip |-> p.trip]
=============================================================================
