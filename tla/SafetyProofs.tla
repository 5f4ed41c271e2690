---------------------------- MODULE SafetyProofs ----------------------------
(***************************************************************************)
(* What every operator of Safety.tla does to a policy that is well formed: *)
(* it returns a well-formed policy.  The lemmas are about one call, for    *)
(* every policy, clock and argument; SafetyPolicyProofs and                *)
(* BridgeControlProofs compose them.                                       *)
(***************************************************************************)
EXTENDS Safety, TLAPS

(* The inductive invariant of the policy record.  No part is inductive     *)
(* without the others: the ordering needs to know that nothing is          *)
(* requested outside Controlled, and disarm, which goes by the fault       *)
(* field, keeps the trip latched only because the two fields agree.        *)
PolicyInv(p) ==
  /\ p \in Policy
  /\ FaultMatches(p)
  /\ LeaseMatches(p)
  /\ Ordered(p)
  /\ TripHeld(p)

(* The results a call can return. *)
Results == Errors \cup {"Ok"}

(* The lease deadline that ARM and HEARTBEAT compute is a u64, and lies at *)
(* or after now and at most one timeout after it.                          *)
LEMMA LeaseFromType ==
  ASSUME NEW now \in Time
  PROVE  /\ LeaseFrom(now) \in Time
         /\ LeaseFrom(now) >= now
         /\ LeaseFrom(now) <= now + LeaseTimeout
         /\ LeaseFrom(now) # NoLease
BY SafetyAssumption, SMT DEF Time, LeaseFrom, NoLease

(* The boot outputs are a legal record. *)
LEMMA SafeType == Safe \in Outputs
BY SafetyAssumption DEF Safe, Outputs

(* The safe outputs are the only ones with 5 V off, reset on and full fan. *)
LEMMA SafeByFields ==
  ASSUME NEW o \in Outputs, ~o.v5, o.rst, o.fan = 100
  PROVE  o = Safe
BY DEF Safe, Outputs

(* A new policy is well formed. *)
LEMMA NewPolicyInv ==
  ASSUME NEW stage \in Stages, NEW caps \in SUBSET Required
  PROVE  PolicyInv(NewPolicy(stage, caps))
BY SafeType DEF PolicyInv, NewPolicy, Policy, FaultMatches, LeaseMatches, Ordered, TripHeld,
                Safe, States, Faults, NoLease

(* Latching a fault that the stage enforces keeps a policy well formed but *)
(* for the trip, which the latch itself settles.                           *)
LEMMA LatchFaultInv ==
  ASSUME NEW p \in Policy, NEW reason \in {"LeaseExpired", "AsicTrip"},
         reason = "LeaseExpired" => EnforcesLease(p),
         reason = "AsicTrip" => EnforcesTrip(p)
  PROVE  /\ PolicyInv(LatchFault(p, reason))
         /\ LatchFault(p, reason).stage = p.stage
         /\ LatchFault(p, reason).trip = p.trip
         /\ LatchFault(p, reason).state = "FaultLatched"
         /\ LatchFault(p, reason).fault = reason
         /\ LatchFault(p, reason).out = Safe
         /\ LatchFault(p, reason).deadline = NoLease
<1> DEFINE q == LatchFault(p, reason)
<1>1. /\ q \in Policy /\ q.stage = p.stage /\ q.trip = p.trip /\ q.state = "FaultLatched"
      /\ q.fault = reason /\ q.out = Safe /\ q.deadline = NoLease
  BY SafeType DEF LatchFault, Policy, States, Faults, NoLease
<1> HIDE DEF q
<1>2. PolicyInv(q)
  BY <1>1 DEF PolicyInv, FaultMatches, LeaseMatches, Ordered, TripHeld, Safe,
              EnforcesLease, EnforcesTrip
<1> QED BY <1>1, <1>2 DEF q

(* tick(): a well-formed policy stays so.  Unless it latches a fault, only *)
(* the sampled trip changes.                                               *)
LEMMA TickInv ==
  ASSUME NEW p, PolicyInv(p), NEW now \in Time, NEW trip \in BOOLEAN
  PROVE  PolicyInv(Tick(p, now, trip))
<1> DEFINE q == [p EXCEPT !.trip = trip]
<1>1. q \in Policy
  BY DEF PolicyInv, Policy
<1>2. CASE TripLatches(q, trip)
  BY <1>1, <1>2, LatchFaultInv DEF Tick, TripLatches
<1>3. CASE ~TripLatches(q, trip) /\ LeaseLapses(q, now)
  BY <1>1, <1>3, LatchFaultInv DEF Tick, LeaseLapses
<1>4. CASE ~TripLatches(q, trip) /\ ~LeaseLapses(q, now)
  <2>1. Tick(p, now, trip) = q
    BY <1>4 DEF Tick
  <2>2. PolicyInv(q)
    BY <1>1, <1>4 DEF PolicyInv, Policy, FaultMatches, LeaseMatches, Ordered, TripHeld,
                      TripLatches, EnforcesLease, EnforcesTrip
  <2> QED BY <2>1, <2>2
<1> QED BY <1>2, <1>3, <1>4

(* What a tick leaves alone, and what it decides: the stage never changes, *)
(* the sampled level is recorded, a lease that has run out is gone, and    *)
(* the rest is as before unless a fault is latched.                        *)
LEMMA TickEffect ==
  ASSUME NEW p, PolicyInv(p), NEW now \in Time, NEW trip \in BOOLEAN
  PROVE  LET t == Tick(p, now, trip)
         IN  /\ t.stage = p.stage
             /\ t.trip = trip
             /\ EnforcesLease(t) <=> EnforcesLease(p)
             /\ EnforcesTrip(t) <=> EnforcesTrip(p)
             /\ ~Expired(t, now)
             /\ \/ /\ t.state = "FaultLatched"
                   /\ t.out = Safe
                   /\ t.deadline = NoLease
                   /\ p.fault # "None" => t.fault = p.fault
                \/ /\ t.state = p.state /\ t.fault = p.fault /\ t.out = p.out
                   /\ t.deadline = p.deadline
<1> DEFINE q == [p EXCEPT !.trip = trip]
<1>1. q \in Policy
  BY DEF PolicyInv, Policy
<1>5. q.stage = p.stage /\ q.trip = trip /\ q.state = p.state
  BY DEF PolicyInv, Policy
<1>6. ASSUME NEW reason \in {"LeaseExpired", "AsicTrip"},
             reason = "LeaseExpired" => EnforcesLease(q),
             reason = "AsicTrip" => EnforcesTrip(q),
             q.state # "FaultLatched",
             Tick(p, now, trip) = LatchFault(q, reason)
      PROVE  LET t == Tick(p, now, trip)
             IN  /\ t.stage = p.stage /\ t.trip = trip /\ t.state = "FaultLatched"
                 /\ t.out = Safe /\ t.deadline = NoLease /\ p.fault = "None"
  <2>1. p.fault = "None"
    BY <1>5, <1>6 DEF PolicyInv, FaultMatches
  <2> HIDE DEF q
  <2> QED BY <1>1, <1>5, <1>6, <2>1, LatchFaultInv
<1>2. CASE TripLatches(q, trip)
  <2>1. Tick(p, now, trip) = LatchFault(q, "AsicTrip")
    BY <1>2 DEF Tick
  <2>2. EnforcesTrip(q) /\ q.state # "FaultLatched"
    BY <1>2 DEF TripLatches
  <2> HIDE DEF q
  <2> QED BY <1>6, <2>1, <2>2 DEF EnforcesLease, EnforcesTrip, Expired
<1>3. CASE ~TripLatches(q, trip) /\ LeaseLapses(q, now)
  <2>1. Tick(p, now, trip) = LatchFault(q, "LeaseExpired")
    BY <1>3 DEF Tick
  <2>2. EnforcesLease(q) /\ q.state # "FaultLatched"
    BY <1>3 DEF LeaseLapses
  <2> HIDE DEF q
  <2> QED BY <1>6, <2>1, <2>2 DEF EnforcesLease, EnforcesTrip, Expired
<1>4. CASE ~TripLatches(q, trip) /\ ~LeaseLapses(q, now)
  <2>1. Tick(p, now, trip) = q
    BY <1>4 DEF Tick
  <2>2. ~Expired(q, now)
    BY <1>1, <1>4 DEF PolicyInv, Policy, LeaseMatches, LeaseLapses, Expired, EnforcesLease, NoLease
  <2>3. q.state = "FaultLatched" => q.out = Safe /\ q.deadline = NoLease
    BY <1>1 DEF PolicyInv, Policy, LeaseMatches, EnforcesLease
  <2> QED BY <2>1, <2>2, <2>3 DEF EnforcesLease, EnforcesTrip, PolicyInv, Policy
<1> QED BY <1>2, <1>3, <1>4

-----------------------------------------------------------------------------
(* ensure_controlled() after a tick with the same clock: the second look   *)
(* at the lease finds nothing, so the call either refuses and changes      *)
(* nothing, or leaves a Controlled policy whose outputs are the old ones.  *)
LEMMA EnsureControlledEffect ==
  ASSUME NEW p, PolicyInv(p), NEW now \in Time, ~Expired(p, now)
  PROVE  LET c == EnsureControlled(p, now)
         IN  /\ PolicyInv(c.policy)
             /\ c.policy.stage = p.stage
             /\ c.policy.trip = p.trip
             /\ c.policy.out = p.out
             /\ c.policy.fault = p.fault
             /\ c.policy.deadline = p.deadline
             /\ c.res \in {"Ok", "FaultLatched", "LeaseRequired"}
             /\ c.res = "Ok" => c.policy.state = "Controlled"
             /\ c.res # "Ok" \/ EnforcesLease(p) => c.policy = p
<1>1. CASE p.state = "FaultLatched" \/ (p.state = "SafeOff" /\ EnforcesLease(p))
  BY <1>1 DEF EnsureControlled, Refuse
<1>2. CASE p.state # "FaultLatched" /\ ~(p.state = "SafeOff" /\ EnforcesLease(p))
  <2> DEFINE q == [p EXCEPT !.state = "Controlled"]
  <2>1. PolicyInv(q)
    BY <1>2 DEF PolicyInv, Policy, FaultMatches, LeaseMatches, Ordered, TripHeld, States,
                EnforcesLease, EnforcesTrip
  <2>2. ~(EnforcesLease(q) /\ (q.deadline = NoLease \/ now >= q.deadline))
    BY <1>2 DEF PolicyInv, Policy, LeaseMatches, EnforcesLease, States, Expired
  <2>3. EnsureControlled(p, now) = [policy |-> q, res |-> "Ok"]
    BY <1>2, <2>2 DEF EnsureControlled, Ok
  <2>4. EnforcesLease(p) => q = p
    BY <1>2 DEF PolicyInv, Policy, States
  <2> QED BY <2>1, <2>3, <2>4 DEF PolicyInv, Policy
<1> QED BY <1>1, <1>2

-----------------------------------------------------------------------------
(* The methods that return a Result.  CallKeeps says what each of them     *)
(* keeps: the policy stays well formed in the same stage, SafetyError::    *)
(* LeaseExpired is not among the answers, a fault stays, a lease is left   *)
(* alone, dropped, or (where the call renews) renewed while it was still   *)
(* alive, a refusal leaves the policy as it was or with its lapsed lease   *)
(* latched, and under a lease 5 V is on afterwards only where the fan was  *)
(* at full before.                                                         *)
RefusalLeaves(p, q, now) ==
  q = p \/ (LeaseLapses(p, now) /\ q = LatchFault(p, "LeaseExpired"))

CallKeeps(p, r, now, renews) ==
  /\ PolicyInv(r.policy)
  /\ r.res \in Results \ {"LeaseExpired"}
  /\ r.policy.stage = p.stage
  /\ p.fault # "None" => r.policy.fault = p.fault
  /\ \/ r.policy.deadline \in {p.deadline, NoLease}
     \/ /\ renews /\ r.res = "Ok"
        /\ p.state # "FaultLatched" /\ ~Expired(p, now)
        /\ r.policy.deadline = LeaseFrom(now)
  /\ r.res # "Ok" => RefusalLeaves(p, r.policy, now)
  /\ EnforcesLease(p) /\ r.policy.out.v5 => p.out.fan = 100

(* A tick with the level sampled last finds nothing new but the end of a   *)
(* lease: a trip that was sampled is latched already.                      *)
LEMMA TickAtRest ==
  ASSUME NEW p, PolicyInv(p), NEW now
  PROVE  RefusalLeaves(p, Tick(p, now, p.trip), now)
<1>1. [p EXCEPT !.trip = p.trip] = p
  BY DEF PolicyInv, Policy
<1>2. ~TripLatches(p, p.trip)
  BY DEF PolicyInv, TripHeld, TripLatches
<1> QED BY <1>1, <1>2 DEF Tick, RefusalLeaves

(* Every method but clear_fault and disarm ticks first; it is enough to    *)
(* look at what it does to the ticked policy.                              *)
LEMMA AfterTick ==
  ASSUME NEW p0, PolicyInv(p0), NEW now \in Time, NEW renews \in BOOLEAN, NEW trip \in BOOLEAN, NEW r,
         CallKeeps(Tick(p0, now, trip), r, now, renews),
         trip = p0.trip \/ r.res = "Ok"
  PROVE  CallKeeps(p0, r, now, renews)
<1> DEFINE t == Tick(p0, now, trip)
<1>1. PolicyInv(t)
  BY TickInv
<1>2. /\ t.stage = p0.stage
      /\ \/ /\ t.state = "FaultLatched" /\ t.out = Safe /\ t.deadline = NoLease
            /\ p0.fault # "None" => t.fault = p0.fault
         \/ /\ t.state = p0.state /\ t.fault = p0.fault /\ t.out = p0.out
            /\ t.deadline = p0.deadline
  BY TickEffect
<1>8. ~Expired(t, now)
  BY TickEffect
<1>3. CallKeeps(t, r, now, renews)
  OBVIOUS
<1> HIDE DEF t
<1>4. t.fault = p0.fault \/ p0.fault = "None"
  BY <1>2
<1>5. r.res # "Ok" => RefusalLeaves(p0, r.policy, now)
  <2>1. SUFFICES ASSUME r.res # "Ok" PROVE RefusalLeaves(p0, r.policy, now)
    OBVIOUS
  <2>2. RefusalLeaves(p0, t, now)
    BY <2>1, TickAtRest DEF t
  <2>3. ~LeaseLapses(t, now)
    BY <1>8 DEF LeaseLapses
  <2> QED BY <1>3, <2>1, <2>2, <2>3 DEF CallKeeps, RefusalLeaves
<1>6. t.state = "FaultLatched" => t.fault # "None"
  BY <1>1 DEF PolicyInv, FaultMatches
<1>7. EnforcesLease(p0) /\ r.policy.out.v5 => p0.out.fan = 100
  <2>1. CASE t.state = "FaultLatched"
    <3>1. r.policy.state = "FaultLatched"
      BY <1>3, <1>6, <2>1 DEF CallKeeps, PolicyInv, FaultMatches
    <3> QED BY <1>3, <3>1 DEF CallKeeps, PolicyInv, LeaseMatches, Safe
  <2>2. CASE t.state # "FaultLatched"
    BY <1>2, <1>3, <2>2 DEF CallKeeps, EnforcesLease
  <2> QED BY <2>1, <2>2
<1> QED BY <1>2, <1>3, <1>4, <1>5, <1>6, <1>7 DEF CallKeeps, Expired

(* What is known of the ticked policy. *)
LEMMA Ticked ==
  ASSUME NEW p0, PolicyInv(p0), NEW now \in Time
  PROVE  LET p == Tick(p0, now, p0.trip)
         IN  PolicyInv(p) /\ ~Expired(p, now)
<1>1. p0.trip \in BOOLEAN
  BY DEF PolicyInv, Policy
<1> QED BY <1>1, TickInv, TickEffect

(* A refusal that returns the ticked policy itself. *)
LEMMA RefuseKeeps ==
  ASSUME NEW p, PolicyInv(p), NEW now \in Time, NEW renews \in BOOLEAN, NEW e \in Results \ {"LeaseExpired"}
  PROVE  CallKeeps(p, [policy |-> p, res |-> e], now, renews)
BY DEF CallKeeps, RefusalLeaves, PolicyInv, Ordered

(* arm() *)
LEMMA ArmKeeps ==
  ASSUME NEW p0, PolicyInv(p0), NEW now \in Time
  PROVE  CallKeeps(p0, Arm(p0, now), now, TRUE)
<1> DEFINE p == Tick(p0, now, p0.trip)
<1>1. PolicyInv(p) /\ ~Expired(p, now)
  BY Ticked
<1>2. CallKeeps(p, Arm(p0, now), now, TRUE)
  <2>1. CASE p.state = "FaultLatched" \/ (EnforcesTrip(p) /\ p.trip)
    <3>1. Arm(p0, now) \in {Refuse(p, "FaultLatched"), Refuse(p, "TripActive")}
      BY <2>1 DEF Arm
    <3> HIDE DEF p
    <3> QED BY <1>1, <3>1, RefuseKeeps DEF Refuse, Results, Errors
  <2>2. CASE p.state # "FaultLatched" /\ ~(EnforcesTrip(p) /\ p.trip)
    <3> DEFINE d == IF EnforcesLease(p) THEN LeaseFrom(now) ELSE NoLease
               q == [p EXCEPT !.out = Safe, !.state = "Controlled", !.deadline = d]
    <3>1. Arm(p0, now) = [policy |-> q, res |-> "Ok"]
      BY <2>2 DEF Arm, Ok
    <3>2. d \in Time \cup {NoLease} /\ (EnforcesLease(p) <=> d # NoLease)
          /\ d \in {LeaseFrom(now), NoLease}
      BY LeaseFromType
    <3> HIDE DEF d, p
    <3>3. /\ q \in Policy /\ q.stage = p.stage /\ q.state = "Controlled"
          /\ q.fault = p.fault /\ q.out = Safe /\ q.trip = p.trip /\ q.deadline = d
      BY <1>1, <3>2, SafeType DEF PolicyInv, Policy, States
    <3> HIDE DEF q
    <3>4. PolicyInv(q)
      BY <1>1, <2>2, <3>2, <3>3
      DEF PolicyInv, FaultMatches, LeaseMatches, Ordered, TripHeld, Safe, EnforcesLease, EnforcesTrip
    <3>5. ~q.out.v5
      BY <3>3 DEF Safe
    <3> QED BY <1>1, <2>2, <3>1, <3>2, <3>3, <3>4, <3>5 DEF CallKeeps, Results
  <2> QED BY <2>1, <2>2
<1>3. p0.trip \in BOOLEAN
  BY DEF PolicyInv, Policy
<1> QED BY <1>2, <1>3, AfterTick

(* heartbeat() *)
LEMMA HeartbeatKeeps ==
  ASSUME NEW p0, PolicyInv(p0), NEW now \in Time
  PROVE  CallKeeps(p0, Heartbeat(p0, now), now, TRUE)
<1> DEFINE p == Tick(p0, now, p0.trip)
<1>1. PolicyInv(p) /\ ~Expired(p, now)
  BY Ticked
<1>2. CallKeeps(p, Heartbeat(p0, now), now, TRUE)
  <2>1. CASE p.state # "Controlled" \/ ~EnforcesLease(p)
    <3>1. \E e \in {"FaultLatched", "LeaseRequired", "Ok"} :
            Heartbeat(p0, now) = [policy |-> p, res |-> e]
      BY <2>1 DEF Heartbeat, Refuse, Ok
    <3> HIDE DEF p
    <3> QED BY <1>1, <3>1, RefuseKeeps DEF Results, Errors
  <2>2. CASE p.state = "Controlled" /\ EnforcesLease(p)
    <3> DEFINE q == [p EXCEPT !.deadline = LeaseFrom(now)]
    <3>1. Heartbeat(p0, now) = [policy |-> q, res |-> "Ok"]
      BY <2>2 DEF Heartbeat, Ok
    <3> HIDE DEF p
    <3>3. /\ q \in Policy /\ q.stage = p.stage /\ q.state = p.state /\ q.fault = p.fault
          /\ q.out = p.out /\ q.trip = p.trip /\ q.deadline = LeaseFrom(now)
      BY <1>1, LeaseFromType DEF PolicyInv, Policy
    <3> HIDE DEF q
    <3>4. PolicyInv(q)
      BY <1>1, <2>2, <3>3, LeaseFromType
      DEF PolicyInv, FaultMatches, LeaseMatches, Ordered, TripHeld, EnforcesLease, EnforcesTrip
    <3>5. EnforcesLease(p) /\ q.out.v5 => p.out.fan = 100
      BY <1>1, <3>3 DEF PolicyInv, Ordered
    <3> QED BY <1>1, <2>2, <3>1, <3>3, <3>4, <3>5 DEF CallKeeps, Results
  <2> QED BY <2>1, <2>2
<1>3. p0.trip \in BOOLEAN
  BY DEF PolicyInv, Policy
<1> QED BY <1>2, <1>3, AfterTick

(* A request that puts other outputs into the ticked policy is fine when   *)
(* the policy is Controlled, or the outputs are the safe ones, and the     *)
(* outputs are ordered.                                                    *)
LEMMA OutputsKeep ==
  ASSUME NEW p, PolicyInv(p), NEW now \in Time, NEW o \in Outputs,
         p.state # "Controlled" => o = Safe,
         EnforcesLease(p) => (~o.rst => o.v5) /\ (o.v5 => o.fan = 100),
         EnforcesLease(p) /\ o.v5 => p.out.fan = 100
  PROVE  CallKeeps(p, Ok([p EXCEPT !.out = o]), now, FALSE)
<1> DEFINE q == [p EXCEPT !.out = o]
<1>1. /\ q \in Policy /\ q.stage = p.stage /\ q.state = p.state /\ q.fault = p.fault
      /\ q.out = o /\ q.trip = p.trip /\ q.deadline = p.deadline
  BY DEF PolicyInv, Policy
<1>2. Ok(q) = [policy |-> q, res |-> "Ok"]
  BY DEF Ok
<1> HIDE DEF q
<1>3. PolicyInv(q)
  BY <1>1 DEF PolicyInv, FaultMatches, LeaseMatches, Ordered, TripHeld, EnforcesLease, EnforcesTrip
<1>4. CallKeeps(p, Ok(q), now, FALSE)
  BY <1>1, <1>2, <1>3 DEF CallKeeps, Results
<1> QED BY <1>4 DEF q

(* ensure_controlled() is called on a ticked policy, and what follows it   *)
(* acts on the policy it returns.  It refuses only under a lease, where    *)
(* ensure_controlled() has changed nothing.                                *)
LEMMA AfterEnsure ==
  ASSUME NEW p, PolicyInv(p), NEW now \in Time, NEW renews \in BOOLEAN, ~Expired(p, now), NEW r,
         CallKeeps(EnsureControlled(p, now).policy, r, now, renews),
         r.res # "Ok" => EnforcesLease(p)
  PROVE  CallKeeps(p, r, now, renews)
<1> DEFINE c == EnsureControlled(p, now)
<1>1. /\ PolicyInv(c.policy) /\ c.policy.stage = p.stage /\ c.policy.out = p.out
      /\ c.policy.fault = p.fault /\ c.policy.deadline = p.deadline
      /\ EnforcesLease(p) => c.policy = p
  BY EnsureControlledEffect
<1>2. p.state = "FaultLatched" <=> c.policy.state = "FaultLatched"
  BY <1>1 DEF PolicyInv, FaultMatches
<1>3. CallKeeps(c.policy, r, now, renews)
  OBVIOUS
<1> HIDE DEF c
<1> QED BY <1>1, <1>2, <1>3 DEF CallKeeps, Expired, EnforcesLease

(* request_five_volt_enabled() *)
LEMMA RequestFiveVoltKeeps ==
  ASSUME NEW p0, PolicyInv(p0), NEW now \in Time, NEW enabled \in BOOLEAN
  PROVE  CallKeeps(p0, RequestFiveVolt(p0, enabled, now), now, FALSE)
<1> DEFINE p == Tick(p0, now, p0.trip)
           c == EnsureControlled(p, now)
           q == c.policy
           r == RequestFiveVolt(p0, enabled, now)
<1>1. PolicyInv(p) /\ ~Expired(p, now)
  BY Ticked
<1>2. /\ PolicyInv(q) /\ c.res \in {"Ok", "FaultLatched", "LeaseRequired"}
      /\ c.res = "Ok" => q.state = "Controlled"
      /\ c.res # "Ok" => q = p
  BY <1>1, EnsureControlledEffect
<1>3. CallKeeps(p, r, now, FALSE)
  <2>1. CASE ~enabled
    <3>1. r = Ok([p EXCEPT !.out = Safe])
      BY <2>1 DEF RequestFiveVolt
    <3> HIDE DEF p, r
    <3> QED BY <1>1, <3>1, SafeType, OutputsKeep DEF Safe
  <2>2. CASE enabled /\ c.res # "Ok"
    <3>1. r = c /\ c = [policy |-> p, res |-> c.res]
      BY <1>2, <2>2 DEF RequestFiveVolt, EnsureControlled, Refuse, Ok
    <3> HIDE DEF p, r, c
    <3> QED BY <1>1, <1>2, <3>1, RefuseKeeps DEF Results, Errors
  <2>3. CASE enabled /\ c.res = "Ok"
    <3>1. \/ \E e \in {"FanNotSafe", "InvalidSequence"} : r = [policy |-> q, res |-> e]
          \/ /\ r = Ok([q EXCEPT !.out.v5 = TRUE])
             /\ EnforcesLease(q) => q.out.fan = 100 /\ q.out.rst
      BY <2>3 DEF RequestFiveVolt, Refuse
    <3>2. CallKeeps(q, r, now, FALSE)
      <4> HIDE DEF q, r
      <4>1. CASE \E e \in {"FanNotSafe", "InvalidSequence"} : r = [policy |-> q, res |-> e]
        BY <1>2, <4>1, RefuseKeeps DEF Results, Errors
      <4>2. CASE r = Ok([q EXCEPT !.out.v5 = TRUE])
                 /\ (EnforcesLease(q) => q.out.fan = 100 /\ q.out.rst)
        <5> DEFINE o == [q.out EXCEPT !.v5 = TRUE]
        <5>1. /\ o \in Outputs /\ o.v5 = TRUE /\ o.rst = q.out.rst /\ o.fan = q.out.fan
              /\ [q EXCEPT !.out.v5 = TRUE] = [q EXCEPT !.out = o]
          BY <1>2 DEF PolicyInv, Policy, Outputs
        <5>2. q.state = "Controlled"
          BY <1>2, <2>3 DEF q
        <5> HIDE DEF o
        <5>3. /\ q.state # "Controlled" => o = Safe
              /\ EnforcesLease(q) => (~o.rst => o.v5) /\ (o.v5 => o.fan = 100)
              /\ EnforcesLease(q) /\ o.v5 => q.out.fan = 100
          BY <1>2, <4>2, <5>1, <5>2 DEF PolicyInv, Ordered
        <5>4. CallKeeps(q, Ok([q EXCEPT !.out = o]), now, FALSE)
          BY <1>2, <5>1, <5>3, OutputsKeep
        <5> QED BY <4>2, <5>1, <5>4
      <4> QED BY <3>1, <4>1, <4>2
    <3>3. r.res # "Ok" => EnforcesLease(q)
      BY <2>3 DEF RequestFiveVolt, Refuse, Ok
    <3>4. q.stage = p.stage
      BY <1>1, EnsureControlledEffect
    <3> HIDE DEF p, r
    <3> QED BY <1>1, <3>2, <3>3, <3>4, AfterEnsure DEF EnforcesLease
  <2> QED BY <1>2, <2>1, <2>2, <2>3
<1>4. p0.trip \in BOOLEAN
  BY DEF PolicyInv, Policy
<1> QED BY <1>3, <1>4, AfterTick

(* request_asic_reset_asserted() *)
LEMMA RequestAsicResetKeeps ==
  ASSUME NEW p0, PolicyInv(p0), NEW now \in Time, NEW asserted \in BOOLEAN
  PROVE  CallKeeps(p0, RequestAsicReset(p0, asserted, now), now, FALSE)
<1> DEFINE p == Tick(p0, now, p0.trip)
           c == EnsureControlled(p, now)
           q == c.policy
           r == RequestAsicReset(p0, asserted, now)
<1>1. PolicyInv(p) /\ ~Expired(p, now)
  BY Ticked
<1>2. /\ PolicyInv(q) /\ c.res \in {"Ok", "FaultLatched", "LeaseRequired"}
      /\ c.res = "Ok" => q.state = "Controlled"
      /\ c.res # "Ok" => q = p
  BY <1>1, EnsureControlledEffect
<1>3. CallKeeps(p, r, now, FALSE)
  <2>1. CASE asserted
    <3>1. r = Ok([p EXCEPT !.out.rst = TRUE])
      BY <2>1 DEF RequestAsicReset
    <3> HIDE DEF p, r
    <3> DEFINE o == [p.out EXCEPT !.rst = TRUE]
    <3>2. /\ o \in Outputs /\ o.v5 = p.out.v5 /\ o.rst = TRUE /\ o.fan = p.out.fan
          /\ [p EXCEPT !.out.rst = TRUE] = [p EXCEPT !.out = o]
      BY <1>1 DEF PolicyInv, Policy, Outputs
    <3>3. ASSUME p.state # "Controlled" PROVE o = Safe
      <4>1. ~p.out.v5 /\ p.out.rst /\ p.out.fan = 100
        BY <1>1, <3>3 DEF PolicyInv, LeaseMatches, Safe
      <4> HIDE DEF o
      <4> QED BY <3>2, <4>1, SafeByFields
    <3>4. o.v5 => (EnforcesLease(p) => o.fan = 100)
      BY <1>1, <3>2 DEF PolicyInv, Ordered
    <3> HIDE DEF o
    <3>5. EnforcesLease(p) /\ o.v5 => p.out.fan = 100
      BY <1>1, <3>2 DEF PolicyInv, Ordered
    <3>6. CallKeeps(p, Ok([p EXCEPT !.out = o]), now, FALSE)
      BY <1>1, <3>2, <3>3, <3>4, <3>5, OutputsKeep
    <3> QED BY <3>1, <3>2, <3>6
  <2>2. CASE ~asserted /\ c.res # "Ok"
    <3>1. r = c /\ c = [policy |-> p, res |-> c.res]
      BY <1>2, <2>2 DEF RequestAsicReset, EnsureControlled, Refuse, Ok
    <3> HIDE DEF p, r, c
    <3> QED BY <1>1, <1>2, <3>1, RefuseKeeps DEF Results, Errors
  <2>3. CASE ~asserted /\ c.res = "Ok"
    <3>1. \/ r = [policy |-> q, res |-> "InvalidSequence"]
          \/ r = Ok([q EXCEPT !.out.rst = FALSE]) /\ (EnforcesLease(q) => q.out.v5)
      BY <2>3 DEF RequestAsicReset, Refuse
    <3>2. CallKeeps(q, r, now, FALSE)
      <4>3. q.state = "Controlled"
        BY <1>2, <2>3
      <4> HIDE DEF q, r
      <4>1. CASE r = [policy |-> q, res |-> "InvalidSequence"]
        BY <1>2, <4>1, RefuseKeeps DEF Results, Errors
      <4>2. CASE r = Ok([q EXCEPT !.out.rst = FALSE]) /\ (EnforcesLease(q) => q.out.v5)
        <5> DEFINE o == [q.out EXCEPT !.rst = FALSE]
        <5>1. /\ o \in Outputs /\ o.v5 = q.out.v5 /\ o.rst = FALSE /\ o.fan = q.out.fan
              /\ [q EXCEPT !.out.rst = FALSE] = [q EXCEPT !.out = o]
          BY <1>2 DEF PolicyInv, Policy, Outputs
        <5>2. EnforcesLease(q) => o.v5 /\ o.fan = 100
          BY <1>2, <4>2, <5>1 DEF PolicyInv, Ordered
        <5> HIDE DEF o
        <5>3. /\ q.state # "Controlled" => o = Safe
              /\ EnforcesLease(q) => (~o.rst => o.v5) /\ (o.v5 => o.fan = 100)
              /\ EnforcesLease(q) /\ o.v5 => q.out.fan = 100
          BY <1>2, <4>2, <4>3, <5>1, <5>2 DEF PolicyInv, Ordered
        <5>4. CallKeeps(q, Ok([q EXCEPT !.out = o]), now, FALSE)
          BY <1>2, <5>1, <5>3, OutputsKeep
        <5> QED BY <4>2, <5>1, <5>4
      <4> QED BY <3>1, <4>1, <4>2
    <3>3. r.res # "Ok" => EnforcesLease(q)
      BY <2>3 DEF RequestAsicReset, Refuse, Ok
    <3>4. q.stage = p.stage
      BY <1>1, EnsureControlledEffect
    <3> HIDE DEF p, r
    <3> QED BY <1>1, <3>2, <3>3, <3>4, AfterEnsure DEF EnforcesLease
  <2> QED BY <1>2, <2>1, <2>2, <2>3
<1>4. p0.trip \in BOOLEAN
  BY DEF PolicyInv, Policy
<1> QED BY <1>3, <1>4, AfterTick

(* request_fan_percent() *)
LEMMA RequestFanKeeps ==
  ASSUME NEW p0, PolicyInv(p0), NEW now \in Time, NEW percent \in FanPercents
  PROVE  CallKeeps(p0, RequestFan(p0, percent, now), now, FALSE)
<1> DEFINE p == Tick(p0, now, p0.trip)
           c == EnsureControlled(p, now)
           q == c.policy
           r == RequestFan(p0, percent, now)
<1>1. PolicyInv(p) /\ ~Expired(p, now)
  BY Ticked
<1>2. /\ PolicyInv(q) /\ c.res \in {"Ok", "FaultLatched", "LeaseRequired"}
      /\ c.res = "Ok" => q.state = "Controlled"
      /\ c.res # "Ok" => q = p
  BY <1>1, EnsureControlledEffect
<1>3. CallKeeps(p, r, now, FALSE)
  <2>1. CASE percent > 100
    <3>1. r = [policy |-> p, res |-> "InvalidFanPercent"]
      BY <2>1 DEF RequestFan, Refuse
    <3> HIDE DEF p, r
    <3> QED BY <1>1, <3>1, RefuseKeeps DEF Results, Errors
  <2>2. CASE ~(percent > 100) /\ percent = 100
    <3>1. r = Ok([p EXCEPT !.out.fan = 100])
      BY <2>2 DEF RequestFan
    <3> HIDE DEF p, r
    <3> DEFINE o == [p.out EXCEPT !.fan = 100]
    <3>2. /\ o \in Outputs /\ o.v5 = p.out.v5 /\ o.rst = p.out.rst /\ o.fan = 100
          /\ [p EXCEPT !.out.fan = 100] = [p EXCEPT !.out = o]
      BY <1>1, SafetyAssumption DEF PolicyInv, Policy, Outputs
    <3>3. ASSUME p.state # "Controlled" PROVE o = Safe
      <4>1. ~p.out.v5 /\ p.out.rst /\ p.out.fan = 100
        BY <1>1, <3>3 DEF PolicyInv, LeaseMatches, Safe
      <4> HIDE DEF o
      <4> QED BY <3>2, <4>1, SafeByFields
    <3>4. EnforcesLease(p) => (~o.rst => o.v5)
      BY <1>1, <3>2 DEF PolicyInv, Ordered
    <3> HIDE DEF o
    <3>5. EnforcesLease(p) /\ o.v5 => p.out.fan = 100
      BY <1>1, <3>2 DEF PolicyInv, Ordered
    <3>6. CallKeeps(p, Ok([p EXCEPT !.out = o]), now, FALSE)
      BY <1>1, <3>2, <3>3, <3>4, <3>5, OutputsKeep
    <3> QED BY <3>1, <3>2, <3>6
  <2>3. CASE ~(percent > 100) /\ percent # 100 /\ c.res # "Ok"
    <3>1. r = c /\ c = [policy |-> p, res |-> c.res]
      BY <1>2, <2>3 DEF RequestFan, EnsureControlled, Refuse, Ok
    <3> HIDE DEF p, r, c
    <3> QED BY <1>1, <1>2, <3>1, RefuseKeeps DEF Results, Errors
  <2>4. CASE ~(percent > 100) /\ percent # 100 /\ c.res = "Ok"
    <3>1. \/ r = [policy |-> q, res |-> "InvalidSequence"]
          \/ r = Ok([q EXCEPT !.out.fan = percent]) /\ (EnforcesLease(q) => ~q.out.v5)
      BY <2>4 DEF RequestFan, Refuse
    <3>2. CallKeeps(q, r, now, FALSE)
      <4>3. q.state = "Controlled"
        BY <1>2, <2>4
      <4> HIDE DEF q, r
      <4>1. CASE r = [policy |-> q, res |-> "InvalidSequence"]
        BY <1>2, <4>1, RefuseKeeps DEF Results, Errors
      <4>2. CASE r = Ok([q EXCEPT !.out.fan = percent]) /\ (EnforcesLease(q) => ~q.out.v5)
        <5> DEFINE o == [q.out EXCEPT !.fan = percent]
        <5>1. /\ o \in Outputs /\ o.v5 = q.out.v5 /\ o.rst = q.out.rst
              /\ [q EXCEPT !.out.fan = percent] = [q EXCEPT !.out = o]
          BY <1>2 DEF PolicyInv, Policy, Outputs
        <5>2. EnforcesLease(q) => ~o.v5 /\ o.rst
          BY <1>2, <4>2, <5>1 DEF PolicyInv, Ordered
        <5> HIDE DEF o
        <5>3. /\ q.state # "Controlled" => o = Safe
              /\ EnforcesLease(q) => (~o.rst => o.v5) /\ (o.v5 => o.fan = 100)
              /\ EnforcesLease(q) /\ o.v5 => q.out.fan = 100
          BY <1>2, <4>2, <4>3, <5>1, <5>2 DEF PolicyInv, Ordered
        <5>4. CallKeeps(q, Ok([q EXCEPT !.out = o]), now, FALSE)
          BY <1>2, <5>1, <5>3, OutputsKeep
        <5> QED BY <4>2, <5>1, <5>4
      <4> QED BY <3>1, <4>1, <4>2
    <3>3. r.res # "Ok" => EnforcesLease(q)
      BY <2>4 DEF RequestFan, Refuse, Ok
    <3>4. q.stage = p.stage
      BY <1>1, EnsureControlledEffect
    <3> HIDE DEF p, r
    <3> QED BY <1>1, <3>2, <3>3, <3>4, AfterEnsure DEF EnforcesLease
  <2> QED BY <1>2, <2>1, <2>2, <2>3, <2>4
<1>4. p0.trip \in BOOLEAN
  BY DEF PolicyInv, Policy
<1> QED BY <1>3, <1>4, AfterTick

(* tick() as a call of its own, with the level sampled from the pin *)
LEMMA TickKeeps ==
  ASSUME NEW p, PolicyInv(p), NEW now \in Time, NEW trip \in BOOLEAN
  PROVE  CallKeeps(p, Ok(Tick(p, now, trip)), now, FALSE)
<1>1. PolicyInv(Tick(p, now, trip))
  BY TickInv
<1>2. CallKeeps(Tick(p, now, trip), Ok(Tick(p, now, trip)), now, FALSE)
  BY <1>1, RefuseKeeps DEF Ok, Results
<1>3. Ok(Tick(p, now, trip)).res = "Ok"
  BY DEF Ok
<1> QED BY <1>2, <1>3, AfterTick

(* disarm(): it goes by the fault field and never ticks *)
LEMMA DisarmKeeps ==
  ASSUME NEW p, PolicyInv(p), NEW now \in Time
  PROVE  CallKeeps(p, Ok(Disarm(p)), now, FALSE)
<1> DEFINE q == Disarm(p)
<1>1. /\ q \in Policy /\ q.stage = p.stage /\ q.fault = p.fault /\ q.out = Safe
      /\ q.trip = p.trip /\ q.deadline = NoLease
      /\ q.state = IF p.fault = "None" THEN "SafeOff" ELSE p.state
  BY SafeType DEF Disarm, PolicyInv, Policy, States
<1>2. Ok(q) = [policy |-> q, res |-> "Ok"]
  BY DEF Ok
<1> HIDE DEF q
<1>3. PolicyInv(q)
  BY <1>1 DEF PolicyInv, FaultMatches, LeaseMatches, Ordered, TripHeld, Safe,
              EnforcesLease, EnforcesTrip
<1>4. ~q.out.v5
  BY <1>1 DEF Safe
<1>5. CallKeeps(p, Ok(q), now, FALSE)
  BY <1>1, <1>2, <1>3, <1>4 DEF CallKeeps, Results
<1> QED BY <1>5 DEF q

(* clear_fault(): refused as it stands while the last sampled level is     *)
(* high, and otherwise back to the state of boot, whatever it found.  The  *)
(* tick at its end never latches anything.                                 *)
LEMMA ClearFaultEffect ==
  ASSUME NEW p, PolicyInv(p), NEW now \in Time
  PROVE  LET r == ClearFault(p, now)
         IN  /\ PolicyInv(r.policy)
             /\ r.policy.stage = p.stage
             /\ r.policy.trip = p.trip
             /\ \/ p.trip /\ r.res = "TripActive" /\ r.policy = p
                \/ /\ ~p.trip /\ r.res = "Ok"
                   /\ r.policy.state = "SafeOff" /\ r.policy.fault = "None"
                   /\ r.policy.out = Safe /\ r.policy.deadline = NoLease
<1>1. CASE p.trip
  BY <1>1 DEF ClearFault, Refuse
<1>2. CASE ~p.trip
  <2> DEFINE q == [p EXCEPT !.state = "SafeOff", !.fault = "None", !.out = Safe,
                            !.deadline = NoLease]
             t == Tick(q, now, FALSE)
  <2>1. ClearFault(p, now) = [policy |-> t, res |-> "Ok"]
    BY <1>2 DEF ClearFault, Ok
  <2>2. /\ q \in Policy /\ q.stage = p.stage /\ q.state = "SafeOff" /\ q.fault = "None"
        /\ q.out = Safe /\ q.trip = p.trip /\ q.deadline = NoLease
    BY SafeType DEF PolicyInv, Policy, States, Faults
  <2>3. t = [q EXCEPT !.trip = FALSE]
    BY <2>2 DEF Tick, TripLatches, LeaseLapses, Policy
  <2> HIDE DEF q, t
  <2>4. /\ t \in Policy /\ t.stage = p.stage /\ t.state = "SafeOff" /\ t.fault = "None"
        /\ t.out = Safe /\ t.trip = FALSE /\ t.deadline = NoLease
    BY <2>2, <2>3 DEF Policy
  <2>5. PolicyInv(t)
    BY <2>4 DEF PolicyInv, FaultMatches, LeaseMatches, Ordered, TripHeld, Safe,
                EnforcesLease, EnforcesTrip
  <2>6. p.trip = FALSE
    BY <1>2 DEF PolicyInv, Policy
  <2>7. t.trip = p.trip
    BY <2>4, <2>6
  <2>8. ClearFault(p, now).policy = t /\ ClearFault(p, now).res = "Ok"
    BY <2>1
  <2> HIDE DEF PolicyInv
  <2> QED BY <1>2, <2>4, <2>5, <2>7, <2>8
<1> QED BY <1>1, <1>2

-----------------------------------------------------------------------------
(* Time.  BridgeControl keeps the time a lease has left instead of the     *)
(* deadline and the clock.  The policy does not notice: every call made at *)
(* a time on a policy gives, counted from that time, what the same call    *)
(* made at 0 gives on the policy counted from it.                          *)

(* The policy with its deadline counted from now. *)
Left(d, now) == IF d = NoLease THEN NoLease ELSE IF d > now THEN d - now ELSE 0
Counted(p, now) == [p EXCEPT !.deadline = Left(@, now)]

(* p at now and q at 0 tell the same story. *)
Same(p, q, now) ==
  /\ p \in Policy /\ q \in Policy /\ now \in Time
  /\ q.stage = p.stage /\ q.caps = p.caps /\ q.state = p.state /\ q.fault = p.fault
  /\ q.out = p.out /\ q.trip = p.trip
  /\ q.deadline = Left(p.deadline, now)

(* Two calls give the same Result and leave policies that tell the same.   *)
Agree(r, s, now) == s.res = r.res /\ Same(r.policy, s.policy, now)

(* Same is nothing but counting. *)
LEMMA SameIsCounted ==
  ASSUME NEW p \in Policy, NEW now \in Time
  PROVE  /\ Same(p, Counted(p, now), now)
         /\ \A q : Same(p, q, now) => q = Counted(p, now)
<1> DEFINE d == Left(p.deadline, now)
<1>1. d \in Time \cup {NoLease}
  BY SafetyAssumption, SMT DEF Left, Policy, Time, NoLease
<1>2. Counted(p, now) = [p EXCEPT !.deadline = d]
  BY DEF Counted, Policy
<1>3. d = Left(p.deadline, now)
  OBVIOUS
<1> HIDE DEF d
<1>4. Same(p, [p EXCEPT !.deadline = d], now)
  BY <1>1, <1>3 DEF Same, Policy
<1>5. ASSUME NEW q, Same(p, q, now) PROVE q = [p EXCEPT !.deadline = d]
  BY <1>3, <1>5 DEF Same, Policy
<1> QED BY <1>2, <1>4, <1>5

(* A lease has lapsed in the one exactly when it has in the other. *)
LEMMA SameExpired ==
  ASSUME NEW p, NEW q, NEW now, Same(p, q, now)
  PROVE  /\ Expired(q, 0) <=> Expired(p, now)
         /\ q.deadline = NoLease <=> p.deadline = NoLease
BY SafetyAssumption, SMT DEF Same, Policy, Time, NoLease, Left, Expired

(* The updates the policy makes, one lemma for each shape. *)
LEMMA SameUpdates ==
  ASSUME NEW p, NEW q, NEW now, Same(p, q, now)
  PROVE  /\ \A f \in Faults : Same(LatchFault(p, f), LatchFault(q, f), now)
         /\ \A b \in BOOLEAN : Same([p EXCEPT !.trip = b], [q EXCEPT !.trip = b], now)
         /\ \A s \in States : Same([p EXCEPT !.state = s], [q EXCEPT !.state = s], now)
         /\ \A o \in Outputs : Same([p EXCEPT !.out = o], [q EXCEPT !.out = o], now)
<1>1. Safe \in Outputs /\ "FaultLatched" \in States /\ Left(NoLease, now) = NoLease
  BY SafeType DEF States, Left
<1> USE DEF Same, Policy
<1>2. ASSUME NEW f \in Faults PROVE Same(LatchFault(p, f), LatchFault(q, f), now)
  BY <1>1 DEF LatchFault
<1>3. ASSUME NEW b \in BOOLEAN PROVE Same([p EXCEPT !.trip = b], [q EXCEPT !.trip = b], now)
  OBVIOUS
<1>4. ASSUME NEW s \in States PROVE Same([p EXCEPT !.state = s], [q EXCEPT !.state = s], now)
  OBVIOUS
<1>5. ASSUME NEW o \in Outputs PROVE Same([p EXCEPT !.out = o], [q EXCEPT !.out = o], now)
  OBVIOUS
<1> QED BY <1>2, <1>3, <1>4, <1>5

(* Ticking. *)
LEMMA SameTick ==
  ASSUME NEW p, NEW q, NEW now, Same(p, q, now), NEW level \in BOOLEAN
  PROVE  Same(Tick(p, now, level), Tick(q, 0, level), now)
<1> DEFINE p1 == [p EXCEPT !.trip = level]
           q1 == [q EXCEPT !.trip = level]
<1>1. Same(p1, q1, now)
  BY SameUpdates
<1>2. {"AsicTrip", "LeaseExpired"} \subseteq Faults
  BY DEF Faults
<1>3. /\ Tick(p, now, level) =
           IF TripLatches(p1, level) THEN LatchFault(p1, "AsicTrip")
           ELSE IF LeaseLapses(p1, now) THEN LatchFault(p1, "LeaseExpired") ELSE p1
      /\ Tick(q, 0, level) =
           IF TripLatches(q1, level) THEN LatchFault(q1, "AsicTrip")
           ELSE IF LeaseLapses(q1, 0) THEN LatchFault(q1, "LeaseExpired") ELSE q1
  BY DEF Tick
<1> HIDE DEF p1, q1
<1>4. /\ TripLatches(q1, level) <=> TripLatches(p1, level)
      /\ LeaseLapses(q1, 0) <=> LeaseLapses(p1, now)
  BY <1>1, SameExpired DEF Same, TripLatches, LeaseLapses, EnforcesTrip, EnforcesLease
<1> QED BY <1>1, <1>2, <1>3, <1>4, SameUpdates

(* A call that ticks with the last sampled level first. *)
LEMMA SameTicked ==
  ASSUME NEW p, NEW q, NEW now, Same(p, q, now)
  PROVE  Same(Tick(p, now, p.trip), Tick(q, 0, q.trip), now)
<1>1. p.trip \in BOOLEAN /\ q.trip = p.trip
  BY DEF Same, Policy
<1> QED BY <1>1, SameTick

(* A new lease, while the clock is not at its end. *)
LEMMA SameLease ==
  ASSUME NEW now \in Time, now + LeaseTimeout <= U64Max
  PROVE  LeaseFrom(0) = Left(LeaseFrom(now), now)
         /\ LeaseFrom(now) \in Time /\ LeaseFrom(0) \in Time
BY SafetyAssumption, SMT DEF LeaseFrom, Left, Time, NoLease

(* ensure_controlled. *)
LEMMA SameEnsure ==
  ASSUME NEW p, NEW q, NEW now, Same(p, q, now)
  PROVE  Agree(EnsureControlled(p, now), EnsureControlled(q, 0), now)
<1> DEFINE p1 == [p EXCEPT !.state = "Controlled"]
           q1 == [q EXCEPT !.state = "Controlled"]
<1>1. Same(p1, q1, now) /\ Same(LatchFault(p1, "LeaseExpired"), LatchFault(q1, "LeaseExpired"), now)
  <2>1. "Controlled" \in States /\ "LeaseExpired" \in Faults
    BY DEF States, Faults
  <2>2. Same(p1, q1, now)
    BY <2>1, SameUpdates
  <2> QED BY <2>1, <2>2, SameUpdates
<1>2. /\ EnforcesLease(q1) <=> EnforcesLease(p1)
      /\ EnforcesLease(q) <=> EnforcesLease(p)
      /\ q.state = p.state
      /\ (q1.deadline = NoLease \/ 0 >= q1.deadline) <=> (p1.deadline = NoLease \/ now >= p1.deadline)
  <2>1. /\ Expired(q1, 0) <=> Expired(p1, now)
        /\ q1.deadline = NoLease <=> p1.deadline = NoLease
    BY <1>1, SameExpired
  <2> HIDE DEF p1, q1
  <2> QED BY <1>1, <2>1 DEF Same, EnforcesLease, Expired
<1> HIDE DEF p1, q1
<1>3. /\ EnsureControlled(p, now) =
           IF p.state = "FaultLatched" THEN Refuse(p, "FaultLatched")
           ELSE IF p.state = "SafeOff" /\ EnforcesLease(p) THEN Refuse(p, "LeaseRequired")
           ELSE IF EnforcesLease(p1) /\ (p1.deadline = NoLease \/ now >= p1.deadline)
                THEN Refuse(LatchFault(p1, "LeaseExpired"), "LeaseExpired")
                ELSE Ok(p1)
      /\ EnsureControlled(q, 0) =
           IF q.state = "FaultLatched" THEN Refuse(q, "FaultLatched")
           ELSE IF q.state = "SafeOff" /\ EnforcesLease(q) THEN Refuse(q, "LeaseRequired")
           ELSE IF EnforcesLease(q1) /\ (q1.deadline = NoLease \/ 0 >= q1.deadline)
                THEN Refuse(LatchFault(q1, "LeaseExpired"), "LeaseExpired")
                ELSE Ok(q1)
  BY DEF EnsureControlled, p1, q1
<1> QED BY <1>1, <1>2, <1>3 DEF Agree, Refuse, Ok

(* What every call starts from: a tick on both sides, and an agreement     *)
(* about being controlled.                                                 *)
LEMMA SameStart ==
  ASSUME NEW p0, NEW q0, NEW now, Same(p0, q0, now)
  PROVE  LET p == Tick(p0, now, p0.trip)
             q == Tick(q0, 0, q0.trip)
         IN  /\ Same(p, q, now)
             /\ q.state = p.state /\ q.out = p.out /\ q.trip = p.trip
             /\ EnforcesLease(q) <=> EnforcesLease(p)
             /\ EnforcesTrip(q) <=> EnforcesTrip(p)
             /\ p.out \in Outputs
             /\ Agree(EnsureControlled(p, now), EnsureControlled(q, 0), now)
<1> DEFINE p == Tick(p0, now, p0.trip)
           q == Tick(q0, 0, q0.trip)
<1>1. Same(p, q, now)
  BY SameTicked
<1> HIDE DEF p, q
<1>2. Agree(EnsureControlled(p, now), EnsureControlled(q, 0), now)
  BY <1>1, SameEnsure
<1>3. /\ q.state = p.state /\ q.out = p.out /\ q.trip = p.trip
      /\ EnforcesLease(q) <=> EnforcesLease(p)
      /\ EnforcesTrip(q) <=> EnforcesTrip(p)
      /\ p.out \in Outputs
  BY <1>1 DEF Same, EnforcesLease, EnforcesTrip, Policy
<1> QED BY <1>1, <1>2, <1>3 DEF p, q

(* arm and heartbeat. *)
LEMMA SameRenewals ==
  ASSUME NEW p0, NEW q0, NEW now, Same(p0, q0, now), now + LeaseTimeout <= U64Max
  PROVE  /\ Agree(Arm(p0, now), Arm(q0, 0), now)
         /\ Agree(Heartbeat(p0, now), Heartbeat(q0, 0), now)
<1> DEFINE p == Tick(p0, now, p0.trip)
           q == Tick(q0, 0, q0.trip)
           Armed(r, d) == [r EXCEPT !.out = Safe, !.state = "Controlled", !.deadline = d]
           Renewed(r, d) == [r EXCEPT !.deadline = d]
<1>1. /\ Same(p, q, now) /\ q.state = p.state /\ q.trip = p.trip
      /\ EnforcesLease(q) <=> EnforcesLease(p)
      /\ EnforcesTrip(q) <=> EnforcesTrip(p)
  BY SameStart
<1>2. /\ Arm(p0, now) = IF p.state = "FaultLatched" THEN Refuse(p, "FaultLatched")
                        ELSE IF EnforcesTrip(p) /\ p.trip THEN Refuse(p, "TripActive")
                        ELSE Ok(Armed(p, IF EnforcesLease(p) THEN LeaseFrom(now) ELSE NoLease))
      /\ Arm(q0, 0) = IF q.state = "FaultLatched" THEN Refuse(q, "FaultLatched")
                      ELSE IF EnforcesTrip(q) /\ q.trip THEN Refuse(q, "TripActive")
                      ELSE Ok(Armed(q, IF EnforcesLease(q) THEN LeaseFrom(0) ELSE NoLease))
  BY DEF Arm
<1>3. /\ Heartbeat(p0, now) = IF p.state = "FaultLatched" THEN Refuse(p, "FaultLatched")
                              ELSE IF p.state # "Controlled" THEN Refuse(p, "LeaseRequired")
                              ELSE IF EnforcesLease(p) THEN Ok(Renewed(p, LeaseFrom(now)))
                              ELSE Ok(p)
      /\ Heartbeat(q0, 0) = IF q.state = "FaultLatched" THEN Refuse(q, "FaultLatched")
                            ELSE IF q.state # "Controlled" THEN Refuse(q, "LeaseRequired")
                            ELSE IF EnforcesLease(q) THEN Ok(Renewed(q, LeaseFrom(0)))
                            ELSE Ok(q)
  BY DEF Heartbeat
<1> HIDE DEF p, q
<1>4. ASSUME NEW d \in Time \cup {NoLease}, NEW e \in Time \cup {NoLease}, e = Left(d, now)
      PROVE  Same(Armed(p, d), Armed(q, e), now) /\ Same(Renewed(p, d), Renewed(q, e), now)
  <2>1. Safe \in Outputs /\ "Controlled" \in States
    BY SafeType DEF States
  <2>2. Same(Armed(p, d), Armed(q, e), now)
    BY <1>1, <1>4, <2>1 DEF Same, Policy
  <2>3. Same(Renewed(p, d), Renewed(q, e), now)
    BY <1>1, <1>4 DEF Same, Policy
  <2> QED BY <2>2, <2>3
<1>5. /\ LeaseFrom(0) = Left(LeaseFrom(now), now) /\ NoLease = Left(NoLease, now)
      /\ LeaseFrom(now) \in Time /\ LeaseFrom(0) \in Time
  BY SameLease DEF Same, Left
<1> HIDE DEF Armed, Renewed
<1>6. Agree(Arm(p0, now), Arm(q0, 0), now)
  BY <1>1, <1>2, <1>4, <1>5 DEF Agree, Ok, Refuse
<1>7. Agree(Heartbeat(p0, now), Heartbeat(q0, 0), now)
  BY <1>1, <1>3, <1>4, <1>5 DEF Agree, Ok, Refuse
<1> QED BY <1>6, <1>7

(* The three requests for an output. *)
LEMMA SameRequests ==
  ASSUME NEW p0, NEW q0, NEW now, Same(p0, q0, now), NEW on \in BOOLEAN, NEW percent \in FanPercents
  PROVE  /\ Agree(RequestFiveVolt(p0, on, now), RequestFiveVolt(q0, on, 0), now)
         /\ Agree(RequestAsicReset(p0, on, now), RequestAsicReset(q0, on, 0), now)
         /\ Agree(RequestFan(p0, percent, now), RequestFan(q0, percent, 0), now)
<1> DEFINE p == Tick(p0, now, p0.trip)
           q == Tick(q0, 0, q0.trip)
           c == EnsureControlled(p, now)
           e == EnsureControlled(q, 0)
           Out(r, o) == [r EXCEPT !.out = o]
<1>1. Same(p, q, now) /\ Agree(c, e, now)
  BY SameStart
<1>2. /\ RequestFiveVolt(p0, on, now) =
           IF ~on THEN Ok(Out(p, Safe))
           ELSE IF c.res # "Ok" THEN c
           ELSE IF EnforcesLease(c.policy) /\ c.policy.out.fan # 100 THEN Refuse(c.policy, "FanNotSafe")
           ELSE IF EnforcesLease(c.policy) /\ ~c.policy.out.rst THEN Refuse(c.policy, "InvalidSequence")
           ELSE Ok([c.policy EXCEPT !.out.v5 = TRUE])
      /\ RequestFiveVolt(q0, on, 0) =
           IF ~on THEN Ok(Out(q, Safe))
           ELSE IF e.res # "Ok" THEN e
           ELSE IF EnforcesLease(e.policy) /\ e.policy.out.fan # 100 THEN Refuse(e.policy, "FanNotSafe")
           ELSE IF EnforcesLease(e.policy) /\ ~e.policy.out.rst THEN Refuse(e.policy, "InvalidSequence")
           ELSE Ok([e.policy EXCEPT !.out.v5 = TRUE])
  BY DEF RequestFiveVolt
<1>3. /\ RequestAsicReset(p0, on, now) =
           IF on THEN Ok([p EXCEPT !.out.rst = TRUE])
           ELSE IF c.res # "Ok" THEN c
           ELSE IF EnforcesLease(c.policy) /\ ~c.policy.out.v5 THEN Refuse(c.policy, "InvalidSequence")
           ELSE Ok([c.policy EXCEPT !.out.rst = FALSE])
      /\ RequestAsicReset(q0, on, 0) =
           IF on THEN Ok([q EXCEPT !.out.rst = TRUE])
           ELSE IF e.res # "Ok" THEN e
           ELSE IF EnforcesLease(e.policy) /\ ~e.policy.out.v5 THEN Refuse(e.policy, "InvalidSequence")
           ELSE Ok([e.policy EXCEPT !.out.rst = FALSE])
  BY DEF RequestAsicReset
<1>4. /\ RequestFan(p0, percent, now) =
           IF percent > 100 THEN Refuse(p, "InvalidFanPercent")
           ELSE IF percent = 100 THEN Ok([p EXCEPT !.out.fan = 100])
           ELSE IF c.res # "Ok" THEN c
           ELSE IF EnforcesLease(c.policy) /\ c.policy.out.v5 THEN Refuse(c.policy, "InvalidSequence")
           ELSE Ok([c.policy EXCEPT !.out.fan = percent])
      /\ RequestFan(q0, percent, 0) =
           IF percent > 100 THEN Refuse(q, "InvalidFanPercent")
           ELSE IF percent = 100 THEN Ok([q EXCEPT !.out.fan = 100])
           ELSE IF e.res # "Ok" THEN e
           ELSE IF EnforcesLease(e.policy) /\ e.policy.out.v5 THEN Refuse(e.policy, "InvalidSequence")
           ELSE Ok([e.policy EXCEPT !.out.fan = percent])
  BY DEF RequestFan
<1> HIDE DEF p, q, c, e
<1>5. ASSUME NEW r, NEW s, Same(r, s, now)
      PROVE  /\ s.out = r.out /\ (EnforcesLease(s) <=> EnforcesLease(r))
             /\ Same(Out(r, Safe), Out(s, Safe), now)
             /\ \A b \in BOOLEAN :
                  /\ Same([r EXCEPT !.out.v5 = b], [s EXCEPT !.out.v5 = b], now)
                  /\ Same([r EXCEPT !.out.rst = b], [s EXCEPT !.out.rst = b], now)
             /\ \A f \in FanPercents : Same([r EXCEPT !.out.fan = f], [s EXCEPT !.out.fan = f], now)
  <2>1. s.out = r.out /\ r.out \in Outputs /\ (EnforcesLease(s) <=> EnforcesLease(r)) /\ Safe \in Outputs
    BY <1>5, SafeType DEF Same, EnforcesLease, Policy
  <2>2. \A o \in Outputs : Same(Out(r, o), Out(s, o), now)
    BY <1>5, SameUpdates
  <2>3. ASSUME NEW b \in BOOLEAN
        PROVE  /\ Same([r EXCEPT !.out.v5 = b], [s EXCEPT !.out.v5 = b], now)
               /\ Same([r EXCEPT !.out.rst = b], [s EXCEPT !.out.rst = b], now)
    <3>1. /\ [r EXCEPT !.out.v5 = b] = Out(r, [r.out EXCEPT !.v5 = b])
          /\ [s EXCEPT !.out.v5 = b] = Out(s, [r.out EXCEPT !.v5 = b])
          /\ [r EXCEPT !.out.rst = b] = Out(r, [r.out EXCEPT !.rst = b])
          /\ [s EXCEPT !.out.rst = b] = Out(s, [r.out EXCEPT !.rst = b])
      BY <2>1
    <3>2. [r.out EXCEPT !.v5 = b] \in Outputs /\ [r.out EXCEPT !.rst = b] \in Outputs
      BY <2>1 DEF Outputs
    <3> HIDE DEF Out
    <3> QED BY <2>2, <3>1, <3>2
  <2>4. ASSUME NEW f \in FanPercents
        PROVE  Same([r EXCEPT !.out.fan = f], [s EXCEPT !.out.fan = f], now)
    <3>1. /\ [r EXCEPT !.out.fan = f] = Out(r, [r.out EXCEPT !.fan = f])
          /\ [s EXCEPT !.out.fan = f] = Out(s, [r.out EXCEPT !.fan = f])
      BY <2>1
    <3>2. [r.out EXCEPT !.fan = f] \in Outputs
      BY <2>1 DEF Outputs
    <3> HIDE DEF Out
    <3> QED BY <2>2, <3>1, <3>2
  <2> QED BY <2>1, <2>2, <2>3, <2>4
<1> HIDE DEF Out
<1>6. Same(c.policy, e.policy, now) /\ e.res = c.res
  BY <1>1 DEF Agree
<1> DEFINE r == c.policy
           s == e.policy
<1>7. /\ 100 \in FanPercents /\ s.out = r.out /\ (EnforcesLease(s) <=> EnforcesLease(r))
      /\ Same(Out(p, Safe), Out(q, Safe), now)
      /\ Same([p EXCEPT !.out.rst = TRUE], [q EXCEPT !.out.rst = TRUE], now)
      /\ Same([p EXCEPT !.out.fan = 100], [q EXCEPT !.out.fan = 100], now)
      /\ Same([r EXCEPT !.out.v5 = TRUE], [s EXCEPT !.out.v5 = TRUE], now)
      /\ Same([r EXCEPT !.out.rst = FALSE], [s EXCEPT !.out.rst = FALSE], now)
      /\ Same([r EXCEPT !.out.fan = percent], [s EXCEPT !.out.fan = percent], now)
  <2>1. 100 \in FanPercents
    BY SafetyAssumption
  <2> QED BY <1>1, <1>5, <1>6, <2>1
<1>8. ASSUME NEW a, NEW b, Same(a, b, now)
      PROVE  Agree(Ok(a), Ok(b), now) /\ \A x : Agree(Refuse(a, x), Refuse(b, x), now)
  BY <1>8 DEF Agree, Ok, Refuse
<1>9. Agree(RequestFiveVolt(p0, on, now), RequestFiveVolt(q0, on, 0), now)
  BY <1>1, <1>2, <1>6, <1>7, <1>8
<1>10. Agree(RequestAsicReset(p0, on, now), RequestAsicReset(q0, on, 0), now)
  BY <1>1, <1>3, <1>6, <1>7, <1>8
<1>11. Agree(RequestFan(p0, percent, now), RequestFan(q0, percent, 0), now)
  BY <1>1, <1>4, <1>6, <1>7, <1>8
<1> QED BY <1>9, <1>10, <1>11

(* clear_fault and disarm. *)
LEMMA SameResets ==
  ASSUME NEW p, NEW q, NEW now, Same(p, q, now)
  PROVE  /\ Agree(ClearFault(p, now), ClearFault(q, 0), now)
         /\ Same(Disarm(p), Disarm(q), now)
<1> DEFINE Cleared(r) == [r EXCEPT !.state = "SafeOff", !.fault = "None", !.out = Safe,
                                   !.deadline = NoLease]
<1>1. Safe \in Outputs /\ "SafeOff" \in States /\ "None" \in Faults /\ Left(NoLease, now) = NoLease
  BY SafeType DEF States, Faults, Left
<1>2. Same(Cleared(p), Cleared(q), now) /\ q.trip = p.trip
  BY <1>1 DEF Same, Policy
<1>3. Same(Disarm(p), Disarm(q), now)
  BY <1>1 DEF Same, Policy, Disarm
<1>4. /\ ClearFault(p, now) = IF p.trip THEN Refuse(p, "TripActive") ELSE Ok(Tick(Cleared(p), now, FALSE))
      /\ ClearFault(q, 0) = IF q.trip THEN Refuse(q, "TripActive") ELSE Ok(Tick(Cleared(q), 0, FALSE))
  BY DEF ClearFault
<1> HIDE DEF Cleared
<1>5. Same(Tick(Cleared(p), now, FALSE), Tick(Cleared(q), 0, FALSE), now)
  BY <1>2, SameTick
<1>6. Agree(ClearFault(p, now), ClearFault(q, 0), now)
  <2>1. ASSUME NEW a, NEW b, Same(a, b, now)
        PROVE  Agree(Ok(a), Ok(b), now) /\ \A x : Agree(Refuse(a, x), Refuse(b, x), now)
    BY <2>1 DEF Agree, Ok, Refuse
  <2> QED BY <1>2, <1>4, <1>5, <2>1
<1> QED BY <1>3, <1>6

(* The policy keeps no clock: made at any time that leaves room for a      *)
(* lease, each call does what it would do at 0 with the lease counted from *)
(* that time.  This is what lets BridgeControl keep time by counting down. *)
THEOREM PolicyKeepsNoClock ==
  ASSUME NEW p \in Policy, NEW now \in Time, now + LeaseTimeout <= U64Max,
         NEW on \in BOOLEAN, NEW percent \in FanPercents
  PROVE  LET q == Counted(p, now)
         IN  /\ \A level \in BOOLEAN : Tick(q, 0, level) = Counted(Tick(p, now, level), now)
             /\ Disarm(q) = Counted(Disarm(p), now)
             /\ \A pair \in {<<Arm(p, now), Arm(q, 0)>>,
                             <<Heartbeat(p, now), Heartbeat(q, 0)>>,
                             <<RequestFiveVolt(p, on, now), RequestFiveVolt(q, on, 0)>>,
                             <<RequestAsicReset(p, on, now), RequestAsicReset(q, on, 0)>>,
                             <<RequestFan(p, percent, now), RequestFan(q, percent, 0)>>,
                             <<ClearFault(p, now), ClearFault(q, 0)>>} :
                  pair[2].res = pair[1].res /\ pair[2].policy = Counted(pair[1].policy, now)
<1> DEFINE q == Counted(p, now)
<1>1. Same(p, q, now)
  BY SameIsCounted
<1> HIDE DEF q
<1>2. ASSUME NEW a, NEW b, Same(a, b, now) PROVE b = Counted(a, now)
  <2>1. a \in Policy
    BY <1>2 DEF Same
  <2> QED BY <1>2, <2>1, SameIsCounted
<1>3. ASSUME NEW a, NEW b, Agree(a, b, now)
      PROVE  b.res = a.res /\ b.policy = Counted(a.policy, now)
  BY <1>2, <1>3 DEF Agree
<1>4. \A level \in BOOLEAN : Tick(q, 0, level) = Counted(Tick(p, now, level), now)
  BY <1>1, <1>2, SameTick
<1>5. Disarm(q) = Counted(Disarm(p), now)
  BY <1>1, <1>2, SameResets
<1>6. /\ Agree(Arm(p, now), Arm(q, 0), now)
      /\ Agree(Heartbeat(p, now), Heartbeat(q, 0), now)
      /\ Agree(RequestFiveVolt(p, on, now), RequestFiveVolt(q, on, 0), now)
      /\ Agree(RequestAsicReset(p, on, now), RequestAsicReset(q, on, 0), now)
      /\ Agree(RequestFan(p, percent, now), RequestFan(q, percent, 0), now)
      /\ Agree(ClearFault(p, now), ClearFault(q, 0), now)
  BY <1>1, SameRenewals, SameRequests, SameResets
<1>7. /\ Arm(q, 0).res = Arm(p, now).res
      /\ Arm(q, 0).policy = Counted(Arm(p, now).policy, now)
      /\ Heartbeat(q, 0).res = Heartbeat(p, now).res
      /\ Heartbeat(q, 0).policy = Counted(Heartbeat(p, now).policy, now)
      /\ RequestFiveVolt(q, on, 0).res = RequestFiveVolt(p, on, now).res
      /\ RequestFiveVolt(q, on, 0).policy = Counted(RequestFiveVolt(p, on, now).policy, now)
      /\ RequestAsicReset(q, on, 0).res = RequestAsicReset(p, on, now).res
      /\ RequestAsicReset(q, on, 0).policy = Counted(RequestAsicReset(p, on, now).policy, now)
      /\ RequestFan(q, percent, 0).res = RequestFan(p, percent, now).res
      /\ RequestFan(q, percent, 0).policy = Counted(RequestFan(p, percent, now).policy, now)
      /\ ClearFault(q, 0).res = ClearFault(p, now).res
      /\ ClearFault(q, 0).policy = Counted(ClearFault(p, now).policy, now)
  BY <1>3, <1>6
<1> QED BY <1>4, <1>5, <1>7 DEF q

(* Ageing a counted policy is counting from one millisecond later: a step  *)
(* of the clock is what BridgeControl's Elapse makes of it.                *)
THEOREM CountingDownIsTime ==
  ASSUME NEW d \in Time \cup {NoLease}, NEW now \in Time
  PROVE  Left(d, now + 1) = IF Left(d, now) > 0 THEN Left(d, now) - 1 ELSE Left(d, now)
BY SafetyAssumption, SMT DEF Left, Time, NoLease
=============================================================================
