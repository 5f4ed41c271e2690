------------------------- MODULE SafetyPolicyProofs -------------------------
(***************************************************************************)
(* The properties of SafetyPolicy for every lease timeout, clock width,    *)
(* set of fan percentages and set of configured stages.                    *)
(***************************************************************************)
EXTENDS SafetyPolicy, SafetyProofs

(* The inductive invariant: the policy is well formed, the last Result is  *)
(* never the expiry error, and no lease reaches further than one timeout.  *)
IInv ==
  /\ PolicyInv(policy)
  /\ now \in Time
  /\ last.op \in Calls /\ last.res \in Results \ {"LeaseExpired"}
  /\ last = [op |-> last.op, res |-> last.res]
  /\ LeaseBounded

(* Boot satisfies the invariant. *)
LEMMA InitIInv == Init => IInv
<1> SUFFICES ASSUME Init PROVE IInv
  OBVIOUS
<1>1. PICK stage \in ConfiguredStages, caps \in {Implemented, Required} :
        policy = NewPolicy(stage, caps)
  BY DEF Init
<1>2. stage \in Stages /\ caps \in SUBSET Required
  BY StageAssumption DEF Implemented, Required
<1>3. PolicyInv(policy)
  BY <1>1, <1>2, NewPolicyInv
<1>4. policy.deadline = NoLease
  BY <1>1 DEF NewPolicy
<1>5. 0 \in Time
  BY SafetyAssumption, SMT DEF Time
<1> QED BY <1>3, <1>4, <1>5 DEF IInv, Init, Calls, Results, Errors, LeaseBounded

(* What one step of a caller does, if it is not clear_fault: a call that   *)
(* keeps what CallKeeps says, under an operation name.                     *)
Kept(op) ==
  \E r, renews : /\ CallKeeps(policy, r, now, renews)
                  /\ policy' = r.policy
                  /\ last' = [op |-> op, res |-> r.res]
                  /\ now' = now

(* Every call but clear_fault is such a step. *)
LEMMA CallsKeep ==
  ASSUME IInv,
         \/ CallTick \/ CallArm \/ CallHeartbeat \/ CallFiveVoltOn \/ CallFiveVoltOff
         \/ CallResetAssert \/ CallResetRelease \/ CallFan \/ CallDisarm
  PROVE  \E op \in Calls \ {"clear_fault", "none"} : Kept(op)
<1>0. PolicyInv(policy) /\ now \in Time
  BY DEF IInv
<1>1. CASE CallTick
  <2>1. PICK trip \in BOOLEAN : Return("tick", Ok(Tick(policy, now, trip)))
    BY <1>1 DEF CallTick
  <2>2. CallKeeps(policy, Ok(Tick(policy, now, trip)), now, FALSE)
    BY <1>0, TickKeeps
  <2>3. Kept("tick")
    BY <2>1, <2>2 DEF Kept, Return
  <2> QED BY <2>3 DEF Calls
<1>2. CASE CallArm
  <2>1. Kept("arm")
    BY <1>0, <1>2, ArmKeeps DEF CallArm, Return, Kept
  <2> QED BY <2>1 DEF Calls
<1>3. CASE CallHeartbeat
  <2>1. Kept("heartbeat")
    BY <1>0, <1>3, HeartbeatKeeps DEF CallHeartbeat, Return, Kept
  <2> QED BY <2>1 DEF Calls
<1>4. CASE CallFiveVoltOn
  <2>1. Kept("five_volt_on")
    BY <1>0, <1>4, RequestFiveVoltKeeps DEF CallFiveVoltOn, Return, Kept
  <2> QED BY <2>1 DEF Calls
<1>5. CASE CallFiveVoltOff
  <2>1. Kept("five_volt_off")
    BY <1>0, <1>5, RequestFiveVoltKeeps DEF CallFiveVoltOff, Return, Kept
  <2> QED BY <2>1 DEF Calls
<1>6. CASE CallResetAssert
  <2>1. Kept("reset_assert")
    BY <1>0, <1>6, RequestAsicResetKeeps DEF CallResetAssert, Return, Kept
  <2> QED BY <2>1 DEF Calls
<1>7. CASE CallResetRelease
  <2>1. Kept("reset_release")
    BY <1>0, <1>7, RequestAsicResetKeeps DEF CallResetRelease, Return, Kept
  <2> QED BY <2>1 DEF Calls
<1>8. CASE CallFan
  <2>1. PICK percent \in FanPercents : Return("fan", RequestFan(policy, percent, now))
    BY <1>8 DEF CallFan
  <2>2. Kept("fan")
    BY <1>0, <2>1, RequestFanKeeps DEF Return, Kept
  <2> QED BY <2>2 DEF Calls
<1>9. CASE CallDisarm
  <2>1. Kept("disarm")
    BY <1>0, <1>9, DisarmKeeps DEF CallDisarm, Return, Kept
  <2> QED BY <2>1 DEF Calls
<1> QED BY <1>1, <1>2, <1>3, <1>4, <1>5, <1>6, <1>7, <1>8, <1>9

(* The invariant is inductive. *)
LEMMA NextIInv ==
  ASSUME IInv, [Next]_vars
  PROVE  IInv'
<1>0. PolicyInv(policy) /\ now \in Time
  BY DEF IInv
<1>1. ASSUME NEW op \in Calls \ {"clear_fault", "none"}, Kept(op)
      PROVE  IInv'
  <2>1. PICK r, renews : CallKeeps(policy, r, now, renews) /\ policy' = r.policy
                         /\ last' = [op |-> op, res |-> r.res] /\ now' = now
    BY <1>1 DEF Kept
  <2>2. PolicyInv(policy') /\ now' \in Time
    BY <1>0, <2>1 DEF CallKeeps
  <2>3. LeaseBounded'
    BY <2>1, <1>0, LeaseFromType DEF IInv, CallKeeps, LeaseBounded
  <2>4. last'.op = op /\ last'.res = r.res /\ r.res \in Results \ {"LeaseExpired"}
    BY <2>1 DEF CallKeeps
  <2> QED BY <1>1, <2>1, <2>2, <2>3, <2>4 DEF IInv
<1>2. CASE CallClearFault
  <2>1. /\ policy' = ClearFault(policy, now).policy
        /\ last' = [op |-> "clear_fault", res |-> ClearFault(policy, now).res]
        /\ now' = now
    BY <1>2 DEF CallClearFault, Return
  <2>2. /\ PolicyInv(policy')
        /\ policy' = policy \/ policy'.deadline = NoLease
        /\ ClearFault(policy, now).res \in {"Ok", "TripActive"}
    BY <1>0, <2>1, ClearFaultEffect
  <2>3. LeaseBounded'
    BY <2>1, <2>2 DEF IInv, LeaseBounded
  <2> QED BY <1>0, <2>1, <2>2, <2>3 DEF IInv, Calls, Results, Errors
<1>3. CASE Elapse
  <2>1. now' \in Time /\ now' >= now
    BY <1>0, <1>3, SafetyAssumption, SMT DEF Elapse, Time
  <2>2. LeaseBounded'
    <3>1. policy.deadline \in Time \cup {NoLease}
      BY <1>0 DEF PolicyInv, Policy
    <3> QED BY <1>0, <1>3, <2>1, <3>1, SafetyAssumption, SMT DEF IInv, Elapse, LeaseBounded, Time, NoLease
  <2> QED BY <1>3, <2>1, <2>2 DEF IInv, Elapse
<1>4. CASE UNCHANGED vars
  BY <1>4 DEF vars, IInv, LeaseBounded
<1> QED BY <1>1, <1>2, <1>3, <1>4, CallsKeep DEF Next

(* Every reachable state satisfies the invariant. *)
THEOREM Invariance == Spec => []IInv
BY InitIInv, NextIInv, PTL DEF Spec

-----------------------------------------------------------------------------
(* What follows from the invariant. *)

(* Type correctness: every call returns a policy, a clock and a Result of  *)
(* the types the code declares.                                            *)
THEOREM TypeCorrect == Spec => []TypeOK
<1>1. IInv => TypeOK
  BY DEF IInv, TypeOK, PolicyInv, Results
<1> QED BY <1>1, Invariance, PTL

(* The fault and state fields never disagree. *)
THEOREM FaultCoherence == Spec => []FaultCoherent
<1>1. IInv => FaultCoherent
  BY DEF IInv, PolicyInv, FaultCoherent
<1> QED BY <1>1, Invariance, PTL

(* Nothing unsafe is requested outside Controlled, and a lease is held     *)
(* exactly while Controlled.                                               *)
THEOREM SafeOutsideControlled == Spec => []ControlledOrSafe
<1>1. IInv => ControlledOrSafe
  BY DEF IInv, PolicyInv, ControlledOrSafe
<1> QED BY <1>1, Invariance, PTL

(* Reset, 5 V and fan stay ordered, whatever sequence of calls is made.    *)
THEOREM PowerOrder == Spec => []PowerOrdered
<1>1. IInv => PowerOrdered
  BY DEF IInv, PolicyInv, PowerOrdered
<1> QED BY <1>1, Invariance, PTL

(* A trip once sampled is never forgotten by a TripLatch policy. *)
THEOREM TripLatched == Spec => []TripAlwaysLatched
<1>1. IInv => TripAlwaysLatched
  BY DEF IInv, PolicyInv, TripAlwaysLatched
<1> QED BY <1>1, Invariance, PTL

(* SafetyError::LeaseExpired is never returned. *)
THEOREM NoExpiryError == Spec => []ExpiryErrorUnreachable
<1>1. IInv => ExpiryErrorUnreachable
  BY DEF IInv, ExpiryErrorUnreachable
<1> QED BY <1>1, Invariance, PTL

(* No lease reaches further than one timeout from now. *)
THEOREM LeaseBound == Spec => []LeaseBounded
<1>1. IInv => LeaseBounded
  BY DEF IInv
<1> QED BY <1>1, Invariance, PTL

(* Every status reported in a reachable state is honest. *)
THEOREM HonestStatus == Spec => []StatusHonest
<1>1. ASSUME IInv PROVE StatusHonest
  <2> DEFINE s == Status(policy, now)
  <2>1. /\ policy \in Policy /\ FaultMatches(policy) /\ LeaseMatches(policy)
        /\ now \in Time /\ LeaseBounded
    BY <1>1 DEF IInv, PolicyInv
  <2>2. policy.state = "SafeOff" => Effective(policy) = Safe
    BY <2>1 DEF LeaseMatches, Effective
  <2>3. /\ s.runtime = RuntimeVerdict(policy, now) /\ s.production = ProductionVerdict(policy, now)
        /\ s.state = policy.state /\ s.fault = policy.fault /\ s.trip = policy.trip
        /\ s.outputs = Effective(policy) /\ s.capabilities = policy.caps
        /\ s.stage = policy.stage /\ s.lease = LeaseRemaining(policy, now)
    BY DEF Status
  <2> HIDE DEF s
  <2>4. policy.deadline \in Time \cup {NoLease}
    BY <2>1 DEF Policy
  <2>5. /\ LeaseRemaining(policy, now) \in Nat
        /\ LeaseRemaining(policy, now) > 0 =>
             /\ LeaseRemaining(policy, now) = policy.deadline - now
             /\ policy.deadline # NoLease /\ now < policy.deadline
        /\ LeaseRemaining(policy, now) = TimeLeft(policy, now)
    BY <2>1, <2>4, SafetyAssumption, SMT DEF LeaseRemaining, TimeLeft, LeaseBounded, Time, NoLease
  <2>6. s.runtime # "BadUnsafeOutputs"
    BY <2>2, <2>3 DEF RuntimeVerdict
  <2>7. s.runtime = "GoodSafeOff" => s.outputs = Safe /\ s.state = "SafeOff"
    BY <2>2, <2>3 DEF RuntimeVerdict
  <2>8. s.runtime \in {"GoodSafeOff", "GoodControlled"} => s.fault = "None" /\ ~s.trip
    BY <2>3 DEF RuntimeVerdict
  <2>9. ASSUME s.runtime = "GoodControlled"
        PROVE  /\ s.state = "Controlled"
               /\ EnforcesLease(policy) => now < policy.deadline
    <3>1. policy.fault = "None" /\ policy.state # "SafeOff"
          /\ (EnforcesLease(policy) => LeaseValid(policy, now))
      BY <2>2, <2>3, <2>9 DEF RuntimeVerdict
    <3>2. policy.state = "Controlled"
      BY <2>1, <3>1 DEF FaultMatches, Policy, States
    <3>3. EnforcesLease(policy) => now < policy.deadline
      BY <2>5, <3>1 DEF LeaseValid
    <3> QED BY <2>3, <3>2, <3>3
  <2>10. ASSUME s.production = "Good"
         PROVE  /\ s.capabilities = Required /\ s.stage = "TripLatch"
                /\ s.runtime \in {"GoodSafeOff", "GoodControlled"}
    <3>1. /\ EnforcesTrip(policy) /\ Required \subseteq policy.caps
          /\ RuntimeVerdict(policy, now) \in {"GoodSafeOff", "GoodControlled"}
      BY <2>3, <2>10 DEF ProductionVerdict
    <3>2. policy.caps \subseteq Required
      BY <2>1 DEF Policy
    <3> QED BY <2>3, <3>1, <3>2 DEF EnforcesTrip
  <2>11. ASSUME s.production = "Good", s.state = "Controlled" PROVE s.lease > 0
    <3>1. s.runtime = "GoodControlled" /\ EnforcesLease(policy)
      BY <2>7, <2>10, <2>11, <2>3 DEF EnforcesLease
    <3>2. LeaseValid(policy, now)
      BY <2>2, <2>3, <3>1 DEF RuntimeVerdict
    <3> QED BY <2>3, <3>1, <3>2 DEF LeaseValid
  <2>12. s.lease = TimeLeft(policy, now)
    BY <2>3, <2>5
  <2>13. s.lease > 0 => s.state = "Controlled"
    BY <2>1, <2>3, <2>5 DEF LeaseMatches
  <2> QED BY <2>6, <2>7, <2>8, <2>9, <2>10, <2>11, <2>12, <2>13 DEF StatusHonest, s
<1> QED BY <1>1, Invariance, PTL

-----------------------------------------------------------------------------
(* Action properties: what a step may never do. *)

(* A step from a reachable state is a call that keeps what CallKeeps says, *)
(* or clear_fault, or changes neither the policy nor the last Result.      *)
LEMMA StepCases ==
  ASSUME IInv, [Next]_vars
  PROVE  \/ \E r, renews : CallKeeps(policy, r, now, renews) /\ policy' = r.policy /\ last'.res = r.res
         \/ /\ last'.op = "clear_fault"
            /\ policy' = ClearFault(policy, now).policy
            /\ last'.res = ClearFault(policy, now).res
         \/ policy' = policy /\ last' = last
<1>1. ASSUME NEW op \in Calls, Kept(op)
      PROVE  \E r, renews : CallKeeps(policy, r, now, renews) /\ policy' = r.policy /\ last'.res = r.res
  BY <1>1 DEF Kept
<1>2. CASE CallClearFault
  BY <1>2 DEF CallClearFault, Return
<1>3. CASE Elapse \/ UNCHANGED vars
  BY <1>3 DEF Elapse, vars
<1> QED BY <1>1, <1>2, <1>3, CallsKeep DEF Next

(* No call changes the reason of a latched fault; only clear_fault, with   *)
(* the last sampled trip low, removes it.                                  *)
THEOREM StickyFault == Spec => FaultSticky
<1>1. ASSUME IInv, [Next]_vars, policy.fault # "None", policy'.fault # policy.fault
      PROVE  last'.op = "clear_fault" /\ ~policy.trip /\ policy'.fault = "None"
  <2>1. PolicyInv(policy) /\ now \in Time
    BY <1>1 DEF IInv
  <2>2. /\ last'.op = "clear_fault"
        /\ policy' = ClearFault(policy, now).policy
    BY <1>1, StepCases DEF CallKeeps
  <2> QED BY <1>1, <2>1, <2>2, ClearFaultEffect
<1> QED BY <1>1, Invariance, PTL DEF FaultSticky, Spec

(* A lease that has run out is never renewed, by whatever call comes next. *)
THEOREM DeadLease == Spec => ExpiredLeaseIsDead
<1>1. ASSUME IInv, [Next]_vars, Expired(policy, now)
      PROVE  policy'.deadline \in {policy.deadline, NoLease}
  <2>1. PolicyInv(policy) /\ now \in Time
    BY <1>1 DEF IInv
  <2>2. policy' = ClearFault(policy, now).policy => policy'.deadline \in {policy.deadline, NoLease}
    BY <2>1, ClearFaultEffect
  <2> QED BY <1>1, <2>2, StepCases DEF CallKeeps
<1> QED BY <1>1, Invariance, PTL DEF ExpiredLeaseIsDead, Spec

(* A refused call leaves the policy as it was, or with the end of a lapsed *)
(* lease latched and nothing else.                                         *)
THEOREM InertRefusal == Spec => RefusalIsInert
<1>1. ASSUME IInv, [Next]_vars, last'.res # "Ok"
      PROVE  RefusalLeaves(policy, policy', now)
  <2>1. PolicyInv(policy) /\ now \in Time
    BY <1>1 DEF IInv
  <2>2. /\ policy' = ClearFault(policy, now).policy
        /\ last'.res = ClearFault(policy, now).res
        => policy' = policy
    BY <1>1, <2>1, ClearFaultEffect
  <2>3. policy' = policy \/ RefusalLeaves(policy, policy', now)
    BY <1>1, <2>2, StepCases DEF CallKeeps
  <2> QED BY <2>3 DEF RefusalLeaves
<1>2. ASSUME IInv, [Next]_vars
      PROVE  last'.res # "Ok" =>
               \/ policy' = policy
               \/ LeaseLapses(policy, now) /\ policy' = LatchFault(policy, "LeaseExpired")
  BY <1>1, <1>2 DEF RefusalLeaves
<1> QED BY <1>2, Invariance, PTL DEF RefusalIsInert, Spec

-----------------------------------------------------------------------------
(* The ladder.  SafetyPolicy implements PowerLadder in every stage that    *)
(* enforces the lease: each call is one rung up under a live lease, any    *)
(* number down, a latch, a release, or nothing at all.                     *)

(* A policy q that succeeds p at time t stands where one step of the       *)
(* ladder, or none, could have taken it.                                   *)
Moves(p, q, t) ==
  \/ /\ q.state = p.state
     /\ RungOf(q.out) = RungOf(p.out)
     /\ TimeLeft(q, t) = TimeLeft(p, t)
  \/ /\ p.state # "FaultLatched"
     /\ p.state = "Controlled" => TimeLeft(p, t) > 0
     /\ q.state = "Controlled"
     /\ RungOf(q.out) = "Safe"
     /\ TimeLeft(q, t) \in 0 .. LeaseTimeout
  \/ /\ p.state = "Controlled" /\ q.state = "Controlled"
     /\ TimeLeft(p, t) > 0
     /\ TimeLeft(q, t) \in 0 .. LeaseTimeout
     /\ RungOf(q.out) = RungOf(p.out)
  \/ /\ p.state = "Controlled" /\ q.state = "Controlled"
     /\ TimeLeft(p, t) > 0
     /\ TimeLeft(q, t) = TimeLeft(p, t)
     /\ <<RungOf(p.out), RungOf(q.out)>> \in Ladder!Up
  \/ /\ q.state = p.state
     /\ TimeLeft(q, t) = TimeLeft(p, t)
     /\ <<RungOf(p.out), RungOf(q.out)>> \in Ladder!Down
  \/ /\ p.state # "FaultLatched"
     /\ q.state = "FaultLatched" /\ RungOf(q.out) = "Safe" /\ TimeLeft(q, t) = 0
  \/ q.state = "SafeOff" /\ RungOf(q.out) = "Safe" /\ TimeLeft(q, t) = 0

(* A move of the policy at a standing clock is a step of the ladder.       *)
LEMMA MovesRefine ==
  ASSUME Moves(policy, policy', now), now' = now
  PROVE  [Ladder!Next]_(Ladder!vars)
<1>1. RungOf(policy.out)' = RungOf(policy'.out) /\ TimeLeft(policy, now)' = TimeLeft(policy', now)
  BY DEF RungOf, TimeLeft
<1> QED
  BY <1>1 DEF Moves, Ladder!Next, Ladder!vars, Ladder!Arm, Ladder!Renew, Ladder!Climb,
              Ladder!Descend, Ladder!Latch, Ladder!Release

(* The safe outputs are the bottom rung. *)
LEMMA SafeRung == RungOf(Safe) = "Safe"
BY DEF RungOf, Safe

(* Without a lease no time is left. *)
LEMMA NoTimeLeft ==
  ASSUME NEW p, p.deadline = NoLease, NEW t
  PROVE  TimeLeft(p, t) = 0
BY DEF TimeLeft

(* A ticked policy that is Controlled under a lease has time left, and a   *)
(* fresh lease is within the timeout.                                      *)
LEMMA LeaseTimes ==
  ASSUME NEW now0 \in Time
  PROVE  /\ \A p : /\ PolicyInv(p) /\ EnforcesLease(p) /\ ~Expired(p, now0)
                   /\ p.state = "Controlled"
                   => TimeLeft(p, now0) > 0
         /\ \A p : p.deadline = LeaseFrom(now0) => TimeLeft(p, now0) \in 0 .. LeaseTimeout
<1>1. ASSUME NEW p, PolicyInv(p), EnforcesLease(p), ~Expired(p, now0), p.state = "Controlled"
      PROVE  TimeLeft(p, now0) > 0
  <2>1. p.deadline \in Time /\ p.deadline # NoLease
    BY <1>1 DEF PolicyInv, Policy, LeaseMatches
  <2>2. now0 < p.deadline
    BY <1>1, <2>1, SafetyAssumption, SMT DEF Expired, Time
  <2> QED BY <2>1, <2>2, SafetyAssumption, SMT DEF TimeLeft, Time
<1>2. ASSUME NEW p, p.deadline = LeaseFrom(now0)
      PROVE  TimeLeft(p, now0) \in 0 .. LeaseTimeout
  <2> DEFINE d == LeaseFrom(now0)
  <2>1. d \in Time /\ d >= now0 /\ d <= now0 + LeaseTimeout
    BY LeaseFromType
  <2> HIDE DEF d
  <2>2. p.deadline = d
    BY <1>2 DEF d
  <2> QED BY <2>1, <2>2, SafetyAssumption, SMT DEF TimeLeft, Time
<1> QED BY <1>1, <1>2

(* Latching, from wherever, is a move: nothing is requested and no lease   *)
(* is held in FaultLatched.                                                *)
LEMMA LatchMoves ==
  ASSUME NEW p, PolicyInv(p), NEW q, PolicyInv(q), EnforcesLease(p), EnforcesLease(q),
         q.state = "FaultLatched", NEW t
  PROVE  Moves(p, q, t)
<1>1. RungOf(q.out) = "Safe" /\ TimeLeft(q, t) = 0
  BY SafeRung, NoTimeLeft DEF PolicyInv, LeaseMatches
<1>2. p.state = "FaultLatched" => RungOf(p.out) = "Safe" /\ TimeLeft(p, t) = 0
  BY SafeRung, NoTimeLeft DEF PolicyInv, LeaseMatches
<1> QED BY <1>1, <1>2 DEF Moves

(* A call that ticks first moves the policy if it leaves a policy that the *)
(* tick latched latched, and moves one that the tick did not latch.        *)
LEMMA TickThenMove ==
  ASSUME NEW p0, PolicyInv(p0), EnforcesLease(p0), NEW t \in Time, NEW trip \in BOOLEAN,
         NEW r, NEW renews, CallKeeps(p0, r, t, renews),
         Tick(p0, t, trip).state = "FaultLatched" => r.policy.state = "FaultLatched",
         Tick(p0, t, trip).state # "FaultLatched" => Moves(Tick(p0, t, trip), r.policy, t)
  PROVE  Moves(p0, r.policy, t)
<1> DEFINE p == Tick(p0, t, trip)
<1>1. \/ p.state = "FaultLatched"
      \/ p.state = p0.state /\ p.out = p0.out /\ p.deadline = p0.deadline
  BY TickEffect
<1>2. /\ p.state = "FaultLatched" => r.policy.state = "FaultLatched"
      /\ p.state # "FaultLatched" => Moves(p, r.policy, t)
  OBVIOUS
<1> HIDE DEF p
<1>3. CASE p.state = "FaultLatched"
  <2>1. PolicyInv(r.policy) /\ EnforcesLease(r.policy)
    BY DEF CallKeeps, EnforcesLease
  <2> QED BY <1>2, <1>3, <2>1, LatchMoves
<1>4. CASE p.state # "FaultLatched"
  BY <1>1, <1>2, <1>4 DEF Moves, TimeLeft
<1> QED BY <1>3, <1>4

(* Under a lease ensure_controlled() changes nothing, and succeeds only in *)
(* Controlled.                                                             *)
LEMMA EnsureUnderLease ==
  ASSUME NEW p, PolicyInv(p), EnforcesLease(p), NEW t \in Time, ~Expired(p, t)
  PROVE  /\ EnsureControlled(p, t).policy = p
         /\ EnsureControlled(p, t).res = "Ok" => p.state = "Controlled"
<1> DEFINE c == EnsureControlled(p, t)
<1>1. p.state = "SafeOff" \/ p.state = "FaultLatched" => c.policy = p /\ c.res # "Ok"
  BY DEF EnsureControlled, Refuse
<1>2. ASSUME p.state = "Controlled" PROVE c.policy = p
  <2>1. p = [p EXCEPT !.state = "Controlled"]
    BY <1>2 DEF PolicyInv, Policy
  <2>2. ~(p.deadline = NoLease \/ t >= p.deadline)
    BY <1>2 DEF PolicyInv, LeaseMatches, Expired
  <2> QED BY <1>2, <2>1, <2>2 DEF EnsureControlled, Ok
<1>3. p.state \in States
  BY DEF PolicyInv, Policy
<1> QED BY <1>1, <1>2, <1>3 DEF States

-----------------------------------------------------------------------------
(* One lemma per call. *)

LeasedTick(p0, t) ==
  LET p == Tick(p0, t, p0.trip)
  IN  PolicyInv(p) /\ EnforcesLease(p) /\ ~Expired(p, t)

(* What the call acts on after its tick. *)
LEMMA Leased ==
  ASSUME NEW p0, PolicyInv(p0), EnforcesLease(p0), NEW t \in Time
  PROVE  LeasedTick(p0, t) /\ p0.trip \in BOOLEAN
<1>1. p0.trip \in BOOLEAN
  BY DEF PolicyInv, Policy
<1> QED BY <1>1, TickInv, TickEffect DEF LeasedTick

(* Two policies with the same state and lease, and a step between rungs.   *)
LEMMA RungMoves ==
  ASSUME NEW p, NEW q, NEW t, q.state = p.state, q.deadline = p.deadline,
         \/ RungOf(q.out) = RungOf(p.out)
         \/ <<RungOf(p.out), RungOf(q.out)>> \in Ladder!Down
         \/ /\ <<RungOf(p.out), RungOf(q.out)>> \in Ladder!Up
            /\ p.state = "Controlled" /\ TimeLeft(p, t) > 0
  PROVE  Moves(p, q, t)
<1>1. TimeLeft(q, t) = TimeLeft(p, t)
  BY DEF TimeLeft
<1> QED BY <1>1 DEF Moves

(* arm() moves to the bottom rung under a fresh lease, or not at all.      *)
LEMMA ArmMoves ==
  ASSUME NEW p0, PolicyInv(p0), EnforcesLease(p0), NEW t \in Time
  PROVE  Moves(p0, Arm(p0, t).policy, t)
<1> DEFINE p == Tick(p0, t, p0.trip)
           q == Arm(p0, t).policy
<1>1. PolicyInv(p) /\ EnforcesLease(p) /\ ~Expired(p, t) /\ p0.trip \in BOOLEAN
  BY Leased DEF LeasedTick
<1>2. CASE p.state = "FaultLatched" \/ (EnforcesTrip(p) /\ p.trip)
  <2>1. q = p
    BY <1>2 DEF Arm, Refuse
  <2>2. Moves(p, q, t)
    BY <2>1 DEF Moves
  <2> QED BY <1>1, <2>1, <2>2, ArmKeeps, TickThenMove
<1>3. CASE p.state # "FaultLatched" /\ ~(EnforcesTrip(p) /\ p.trip)
  <2>1. q.state = "Controlled" /\ q.out = Safe /\ q.deadline = LeaseFrom(t)
    BY <1>1, <1>3 DEF Arm, Ok, PolicyInv, Policy
  <2>2. Moves(p, q, t)
    <3> HIDE DEF q, p
    <3> QED BY <1>1, <1>3, <2>1, SafeRung, LeaseTimes DEF Moves
  <2> QED BY <1>1, <1>3, <2>2, ArmKeeps, TickThenMove
<1> QED BY <1>2, <1>3

(* heartbeat() renews, or moves nothing. *)
LEMMA HeartbeatMoves ==
  ASSUME NEW p0, PolicyInv(p0), EnforcesLease(p0), NEW t \in Time
  PROVE  Moves(p0, Heartbeat(p0, t).policy, t)
<1> DEFINE p == Tick(p0, t, p0.trip)
           q == Heartbeat(p0, t).policy
<1>1. PolicyInv(p) /\ EnforcesLease(p) /\ ~Expired(p, t) /\ p0.trip \in BOOLEAN
  BY Leased DEF LeasedTick
<1>2. CASE p.state # "Controlled"
  <2>1. q = p
    BY <1>2 DEF Heartbeat, Refuse
  <2>2. Moves(p, q, t)
    BY <2>1 DEF Moves
  <2> QED BY <1>1, <2>1, <2>2, HeartbeatKeeps, TickThenMove
<1>3. CASE p.state = "Controlled"
  <2>1. q.state = "Controlled" /\ q.out = p.out /\ q.deadline = LeaseFrom(t)
    BY <1>1, <1>3 DEF Heartbeat, Ok, PolicyInv, Policy
  <2>2. Moves(p, q, t)
    <3> HIDE DEF q, p
    <3> QED BY <1>1, <1>3, <2>1, LeaseTimes DEF Moves
  <2> QED BY <1>1, <1>3, <2>2, HeartbeatKeeps, TickThenMove
<1> QED BY <1>2, <1>3

(* request_five_volt_enabled() climbs from Safe to Powered, falls to Safe, *)
(* or moves nothing.                                                       *)
LEMMA FiveVoltMoves ==
  ASSUME NEW p0, PolicyInv(p0), EnforcesLease(p0), NEW t \in Time, NEW enabled \in BOOLEAN
  PROVE  Moves(p0, RequestFiveVolt(p0, enabled, t).policy, t)
<1> DEFINE p == Tick(p0, t, p0.trip)
           r == RequestFiveVolt(p0, enabled, t)
           q == r.policy
<1>1. PolicyInv(p) /\ EnforcesLease(p) /\ ~Expired(p, t) /\ p0.trip \in BOOLEAN
  BY Leased DEF LeasedTick
<1>2. /\ EnsureControlled(p, t).policy = p
      /\ EnsureControlled(p, t).res = "Ok" => p.state = "Controlled" /\ TimeLeft(p, t) > 0
  BY <1>1, EnsureUnderLease, LeaseTimes
<1>3. /\ q.state = p.state /\ q.deadline = p.deadline
      /\ \/ q.out = p.out
         \/ q.out = Safe
         \/ /\ p.state = "Controlled" /\ TimeLeft(p, t) > 0
            /\ p.out.fan = 100 /\ p.out.rst
            /\ q.out = [p.out EXCEPT !.v5 = TRUE]
  <2>1. CASE ~enabled
    BY <1>1, <2>1 DEF RequestFiveVolt, Ok, PolicyInv, Policy
  <2>2. CASE enabled /\ EnsureControlled(p, t).res # "Ok"
    BY <1>2, <2>2 DEF RequestFiveVolt
  <2>3. CASE enabled /\ EnsureControlled(p, t).res = "Ok"
    <3>1. \/ q = p
          \/ q = [p EXCEPT !.out.v5 = TRUE] /\ p.out.fan = 100 /\ p.out.rst
      BY <1>1, <1>2, <2>3 DEF RequestFiveVolt, Ok, Refuse
    <3>2. p \in Policy /\ p.state = "Controlled" /\ TimeLeft(p, t) > 0
      BY <1>1, <1>2, <2>3 DEF PolicyInv
    <3> HIDE DEF p, q
    <3>3. CASE q = p
      BY <3>3
    <3>4. CASE q = [p EXCEPT !.out.v5 = TRUE] /\ p.out.fan = 100 /\ p.out.rst
      <4>1. q.state = p.state /\ q.deadline = p.deadline /\ q.out = [p.out EXCEPT !.v5 = TRUE]
        BY <3>2, <3>4 DEF Policy
      <4> QED BY <3>2, <3>4, <4>1
    <3> QED BY <3>1, <3>3, <3>4
  <2> QED BY <2>1, <2>2, <2>3
<1>4. Moves(p, q, t)
  <2> HIDE DEF p, q
  <2>1. RungOf(p.out) \in Ladder!Rungs
    BY <1>1 DEF PolicyInv, Policy, Outputs, Ordered, RungOf, Ladder!Rungs
  <2>2. CASE q.out = p.out
    BY <1>3, <2>2, RungMoves
  <2>3. CASE q.out = Safe
    BY <1>3, <2>1, <2>3, SafeRung, RungMoves DEF Ladder!Down
  <2>4. CASE /\ p.state = "Controlled" /\ TimeLeft(p, t) > 0 /\ p.out.fan = 100 /\ p.out.rst
             /\ q.out = [p.out EXCEPT !.v5 = TRUE]
    <3>1. RungOf(q.out) = "Powered" /\ RungOf(p.out) \in {"Safe", "Powered"}
      BY <1>1, <2>4 DEF PolicyInv, Policy, Outputs, RungOf
    <3> QED BY <1>3, <2>4, <3>1, RungMoves DEF Ladder!Up
  <2> QED BY <1>3, <2>2, <2>3, <2>4
<1> QED BY <1>1, <1>3, <1>4, RequestFiveVoltKeeps, TickThenMove

(* request_asic_reset_asserted() steps between Powered and Running, or     *)
(* moves nothing.                                                          *)
LEMMA AsicResetMoves ==
  ASSUME NEW p0, PolicyInv(p0), EnforcesLease(p0), NEW t \in Time, NEW asserted \in BOOLEAN
  PROVE  Moves(p0, RequestAsicReset(p0, asserted, t).policy, t)
<1> DEFINE p == Tick(p0, t, p0.trip)
           r == RequestAsicReset(p0, asserted, t)
           q == r.policy
<1>1. PolicyInv(p) /\ EnforcesLease(p) /\ ~Expired(p, t) /\ p0.trip \in BOOLEAN
  BY Leased DEF LeasedTick
<1>2. /\ EnsureControlled(p, t).policy = p
      /\ EnsureControlled(p, t).res = "Ok" => p.state = "Controlled" /\ TimeLeft(p, t) > 0
  BY <1>1, EnsureUnderLease, LeaseTimes
<1>3. /\ q.state = p.state /\ q.deadline = p.deadline
      /\ \/ q.out = p.out
         \/ q.out = [p.out EXCEPT !.rst = TRUE]
         \/ /\ p.state = "Controlled" /\ TimeLeft(p, t) > 0
            /\ p.out.v5
            /\ q.out = [p.out EXCEPT !.rst = FALSE]
  <2>1. CASE asserted
    BY <1>1, <2>1 DEF RequestAsicReset, Ok, PolicyInv, Policy
  <2>2. CASE ~asserted /\ EnsureControlled(p, t).res # "Ok"
    BY <1>2, <2>2 DEF RequestAsicReset
  <2>3. CASE ~asserted /\ EnsureControlled(p, t).res = "Ok"
    <3>1. q = p \/ (q = [p EXCEPT !.out.rst = FALSE] /\ p.out.v5)
      BY <1>1, <1>2, <2>3 DEF RequestAsicReset, Ok, Refuse
    <3>2. p \in Policy /\ p.state = "Controlled" /\ TimeLeft(p, t) > 0
      BY <1>1, <1>2, <2>3 DEF PolicyInv
    <3> HIDE DEF p, q
    <3>3. CASE q = p
      BY <3>3
    <3>4. CASE q = [p EXCEPT !.out.rst = FALSE] /\ p.out.v5
      <4>1. q.state = p.state /\ q.deadline = p.deadline /\ q.out = [p.out EXCEPT !.rst = FALSE]
        BY <3>2, <3>4 DEF Policy
      <4> QED BY <3>2, <3>4, <4>1
    <3> QED BY <3>1, <3>3, <3>4
  <2> QED BY <2>1, <2>2, <2>3
<1>4. Moves(p, q, t)
  <2> HIDE DEF p, q
  <2>2. CASE q.out = p.out
    BY <1>3, <2>2, RungMoves
  <2>3. CASE q.out = [p.out EXCEPT !.rst = TRUE]
    <3>1. RungOf(q.out) = RungOf(p.out) \/ (RungOf(p.out) = "Running" /\ RungOf(q.out) = "Powered")
      BY <1>1, <2>3 DEF PolicyInv, Policy, Outputs, Ordered, RungOf
    <3> QED BY <1>3, <3>1, RungMoves DEF Ladder!Down
  <2>4. CASE /\ p.state = "Controlled" /\ TimeLeft(p, t) > 0 /\ p.out.v5
             /\ q.out = [p.out EXCEPT !.rst = FALSE]
    <3>1. RungOf(q.out) = "Running" /\ RungOf(p.out) \in {"Powered", "Running"}
      BY <1>1, <2>4 DEF PolicyInv, Policy, Outputs, Ordered, RungOf
    <3> QED BY <1>3, <2>4, <3>1, RungMoves DEF Ladder!Up
  <2> QED BY <1>3, <2>2, <2>3, <2>4
<1> QED BY <1>1, <1>3, <1>4, RequestAsicResetKeeps, TickThenMove

(* request_fan_percent() steps between Safe and FanLow, or moves nothing.  *)
LEMMA FanMoves ==
  ASSUME NEW p0, PolicyInv(p0), EnforcesLease(p0), NEW t \in Time, NEW percent \in FanPercents
  PROVE  Moves(p0, RequestFan(p0, percent, t).policy, t)
<1> DEFINE p == Tick(p0, t, p0.trip)
           r == RequestFan(p0, percent, t)
           q == r.policy
<1>1. PolicyInv(p) /\ EnforcesLease(p) /\ ~Expired(p, t) /\ p0.trip \in BOOLEAN
  BY Leased DEF LeasedTick
<1>2. /\ EnsureControlled(p, t).policy = p
      /\ EnsureControlled(p, t).res = "Ok" => p.state = "Controlled" /\ TimeLeft(p, t) > 0
  BY <1>1, EnsureUnderLease, LeaseTimes
<1>3. /\ q.state = p.state /\ q.deadline = p.deadline
      /\ \/ q.out = p.out
         \/ q.out = [p.out EXCEPT !.fan = 100]
         \/ /\ p.state = "Controlled" /\ TimeLeft(p, t) > 0
            /\ ~p.out.v5
            /\ q.out = [p.out EXCEPT !.fan = percent]
  <2>1. CASE percent > 100
    BY <2>1 DEF RequestFan, Refuse
  <2>2. CASE ~(percent > 100) /\ percent = 100
    BY <1>1, <2>2 DEF RequestFan, Ok, PolicyInv, Policy
  <2>3. CASE ~(percent > 100) /\ percent # 100 /\ EnsureControlled(p, t).res # "Ok"
    BY <1>2, <2>3 DEF RequestFan
  <2>4. CASE ~(percent > 100) /\ percent # 100 /\ EnsureControlled(p, t).res = "Ok"
    <3>1. q = p \/ (q = [p EXCEPT !.out.fan = percent] /\ ~p.out.v5)
      BY <1>1, <1>2, <2>4 DEF RequestFan, Ok, Refuse
    <3> HIDE DEF p, q
    <3> QED BY <1>1, <1>2, <2>4, <3>1 DEF PolicyInv, Policy
  <2> QED BY <2>1, <2>2, <2>3, <2>4
<1>4. Moves(p, q, t)
  <2> HIDE DEF p, q
  <2>1. /\ RungOf(p.out) \in Ladder!Rungs
        /\ ~p.out.v5 => p.out.rst
        /\ p.out.v5 => p.out.fan = 100
    BY <1>1 DEF PolicyInv, Policy, Outputs, Ordered, RungOf, Ladder!Rungs
  <2>2. CASE q.out = p.out
    BY <1>3, <2>2, RungMoves
  <2>3. CASE q.out = [p.out EXCEPT !.fan = 100]
    <3>1. RungOf(q.out) = RungOf(p.out) \/ (RungOf(p.out) = "FanLow" /\ RungOf(q.out) = "Safe")
      BY <1>1, <2>1, <2>3 DEF PolicyInv, Policy, Outputs, RungOf
    <3> QED BY <1>3, <2>1, <3>1, RungMoves DEF Ladder!Down
  <2>4. CASE /\ p.state = "Controlled" /\ TimeLeft(p, t) > 0 /\ ~p.out.v5
             /\ q.out = [p.out EXCEPT !.fan = percent]
    <3>1. RungOf(p.out) \in {"Safe", "FanLow"} /\ RungOf(q.out) \in {"Safe", "FanLow"}
      BY <1>1, <2>1, <2>4 DEF PolicyInv, Policy, Outputs, RungOf
    <3> QED BY <1>3, <2>4, <3>1, RungMoves DEF Ladder!Up, Ladder!Down, Ladder!Rungs
  <2> QED BY <1>3, <2>2, <2>3, <2>4
<1> QED BY <1>1, <1>3, <1>4, RequestFanKeeps, TickThenMove

(* tick() latches, or moves nothing. *)
LEMMA TickMoves ==
  ASSUME NEW p, PolicyInv(p), EnforcesLease(p), NEW t \in Time, NEW trip \in BOOLEAN
  PROVE  Moves(p, Tick(p, t, trip), t)
<1>1. Moves(Tick(p, t, trip), Tick(p, t, trip), t)
  BY DEF Moves
<1>2. Ok(Tick(p, t, trip)).policy = Tick(p, t, trip)
  BY DEF Ok
<1> QED BY <1>1, <1>2, TickKeeps, TickThenMove

(* disarm() releases, or finds a latched fault and moves nothing. *)
LEMMA DisarmMoves ==
  ASSUME NEW p, PolicyInv(p), EnforcesLease(p), NEW t \in Time
  PROVE  Moves(p, Disarm(p), t)
<1> DEFINE q == Disarm(p)
<1>1. /\ q.out = Safe /\ q.deadline = NoLease /\ q.fault = p.fault
      /\ q.state = IF p.fault = "None" THEN "SafeOff" ELSE p.state
      /\ EnforcesLease(q)
  BY DEF Disarm, PolicyInv, Policy, EnforcesLease
<1>2. PolicyInv(q)
  BY DisarmKeeps DEF CallKeeps, Ok
<1> HIDE DEF q
<1>3. ASSUME p.fault = "None" PROVE Moves(p, q, t)
  BY <1>1, <1>3, SafeRung, NoTimeLeft DEF Moves
<1>4. ASSUME p.fault # "None" PROVE Moves(p, q, t)
  BY <1>1, <1>2, <1>4, LatchMoves DEF PolicyInv, FaultMatches
<1>5. Moves(p, q, t)
  BY <1>3, <1>4
<1> QED BY <1>5 DEF q

(* clear_fault() releases, or is refused and moves nothing. *)
LEMMA ClearFaultMoves ==
  ASSUME NEW p, PolicyInv(p), EnforcesLease(p), NEW t \in Time
  PROVE  Moves(p, ClearFault(p, t).policy, t)
<1> DEFINE q == ClearFault(p, t).policy
<1>1. \/ q = p
      \/ q.state = "SafeOff" /\ q.out = Safe /\ q.deadline = NoLease
  BY ClearFaultEffect
<1> HIDE DEF q
<1>2. Moves(p, q, t)
  BY <1>1, SafeRung, NoTimeLeft DEF Moves
<1> QED BY <1>2 DEF q

-----------------------------------------------------------------------------
(* The refinement. *)

(* The invariant, in a stage that enforces the lease. *)
LeasedIInv == IInv /\ EnforcesLease(policy)

(* Every call of the policy is a step of the ladder, and so is a passing   *)
(* millisecond.                                                            *)
LEMMA StepRefines ==
  ASSUME LeasedIInv, [Next]_vars
  PROVE  [Ladder!Next]_(Ladder!vars)
<1>1. PolicyInv(policy) /\ EnforcesLease(policy) /\ now \in Time
  BY DEF LeasedIInv, IInv
<1>2. CASE CallTick
  BY <1>1, <1>2, TickMoves, MovesRefine DEF CallTick, Return, Ok
<1>3. CASE CallArm
  BY <1>1, <1>3, ArmMoves, MovesRefine DEF CallArm, Return
<1>4. CASE CallHeartbeat
  BY <1>1, <1>4, HeartbeatMoves, MovesRefine DEF CallHeartbeat, Return
<1>5. CASE CallFiveVoltOn
  BY <1>1, <1>5, FiveVoltMoves, MovesRefine DEF CallFiveVoltOn, Return
<1>6. CASE CallFiveVoltOff
  BY <1>1, <1>6, FiveVoltMoves, MovesRefine DEF CallFiveVoltOff, Return
<1>7. CASE CallResetAssert
  BY <1>1, <1>7, AsicResetMoves, MovesRefine DEF CallResetAssert, Return
<1>8. CASE CallResetRelease
  BY <1>1, <1>8, AsicResetMoves, MovesRefine DEF CallResetRelease, Return
<1>9. CASE CallFan
  BY <1>1, <1>9, FanMoves, MovesRefine DEF CallFan, Return
<1>10. CASE CallClearFault
  BY <1>1, <1>10, ClearFaultMoves, MovesRefine DEF CallClearFault, Return
<1>11. CASE CallDisarm
  BY <1>1, <1>11, DisarmMoves, MovesRefine DEF CallDisarm, Return, Ok
<1>12. CASE Elapse
  <2>1. policy.deadline \in Time \cup {NoLease}
    BY <1>1 DEF PolicyInv, Policy
  <2>2. policy' = policy /\ now' = now + 1 /\ now \in Time
    BY <1>1, <1>12 DEF Elapse
  <2>3. LET a == TimeLeft(policy, now)
            b == TimeLeft(policy, now)'
        IN  b = a \/ (a > 0 /\ b = a - 1)
    BY <2>1, <2>2, SafetyAssumption, SMT DEF TimeLeft, Time, NoLease
  <2>4. RungOf(policy.out)' = RungOf(policy.out)
    BY <2>2 DEF RungOf
  <2> QED BY <2>2, <2>3, <2>4 DEF Ladder!Next, Ladder!Pass, Ladder!vars
<1>13. CASE UNCHANGED vars
  BY <1>13 DEF vars, Ladder!vars, RungOf, TimeLeft
<1> QED BY <1>2, <1>3, <1>4, <1>5, <1>6, <1>7, <1>8, <1>9, <1>10, <1>11, <1>12, <1>13 DEF Next

(* Where only stages that enforce the lease are configured, the policy     *)
(* implements the ladder: 5 V comes on one rung at a time and never        *)
(* without a live lease, whatever the caller does.                         *)
THEOREM ImplementsLadder ==
  ConfiguredStages \subseteq {"Lease", "TripLatch"} => (Spec => LadderSpec)
<1> SUFFICES ASSUME ConfiguredStages \subseteq {"Lease", "TripLatch"} PROVE Spec => LadderSpec
  OBVIOUS
<1>1. Init => LeasedIInv /\ Ladder!Init
  <2> SUFFICES ASSUME Init PROVE LeasedIInv /\ Ladder!Init
    OBVIOUS
  <2>1. policy.stage \in {"Lease", "TripLatch"} /\ policy.state = "SafeOff"
        /\ policy.out = Safe /\ policy.deadline = NoLease
    BY DEF Init, NewPolicy
  <2> QED BY <2>1, InitIInv, SafeRung, NoTimeLeft DEF LeasedIInv, EnforcesLease, Ladder!Init
<1>2. ASSUME LeasedIInv, [Next]_vars PROVE LeasedIInv'
  <2>1. IInv' /\ PolicyInv(policy) /\ now \in Time
    BY <1>2, NextIInv DEF LeasedIInv, IInv
  <2>2. policy'.stage = policy.stage
    BY <1>2, <2>1, StepCases, ClearFaultEffect DEF LeasedIInv, CallKeeps
  <2> QED BY <1>2, <2>1, <2>2 DEF LeasedIInv, EnforcesLease
<1>3. ASSUME LeasedIInv, [Next]_vars PROVE [Ladder!Next]_(Ladder!vars)
  BY <1>3, StepRefines
<1> QED BY <1>1, <1>2, <1>3, PTL DEF Spec, LadderSpec, Ladder!Spec
=============================================================================
