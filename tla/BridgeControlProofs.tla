------------------------- MODULE BridgeControlProofs -------------------------
(***************************************************************************)
(* The safety properties of BridgeControl, for every lease, every duration *)
(* the task may take and every set of fan speeds.                          *)
(***************************************************************************)
EXTENDS BridgeControl, SafetyProofs

(* The parts of the inductive invariant. *)

(* Types, the policy's own invariant, and which command is under way.      *)
CoreInv ==
  /\ TypeOK
  /\ PolicyInv(policy)
  /\ policy.stage = "TripLatch"
  /\ policy.deadline <= LeaseTimeout
  /\ after = "exec" => cmd \in Commands
  /\ pc = "exec" => after = "exec"
  /\ pc \in {"service", "sample"} => after # "answer"
  /\ pc = "sample" => /\ clock = NoLease <=> policy.deadline = NoLease
                      /\ policy.deadline <= clock

(* 0 <= HostCap and so on: the numbers the model is made of.               *)
LEMMA Numbers ==
  /\ ReadTime \in Nat /\ WriteTime \in Nat /\ HandlerTime \in Nat
  /\ ServiceInterval \in Nat /\ TachTime \in Nat /\ WatchdogTimeout \in Nat
  /\ LeaseTimeout \in Nat /\ LeaseTimeout > 0 /\ U64Max \in Nat
  /\ HostCap \in Nat /\ ExposureCap \in Nat
  /\ Present \in Time
  /\ LeaseFrom(Present) = LeaseTimeout
BY TimingAssumption, SafetyAssumption, SMT DEF HostCap, ExposureCap, Present, Time, LeaseFrom

(* The service gap is at least as long as each of the paths between two    *)
(* services, and the watchdog is longer.                                   *)
LEMMA Gaps ==
  /\ ServiceGap \in Nat /\ ServiceGap < WatchdogTimeout
  /\ ReadTime <= ServiceGap /\ HandlerTime <= ServiceGap /\ WriteTime <= ServiceGap
  /\ ReadTime + WriteTime <= ServiceGap
  /\ HandlerTime + WriteTime <= ServiceGap
  /\ ReadTime + ServiceInterval <= ServiceGap
  /\ ServiceInterval <= ServiceGap
BY Numbers, WatchdogAssumption, SMT DEF ServiceGap

(* A well-formed policy has no requests that are not in effect.            *)
LEMMA EffectiveIsRequested ==
  ASSUME NEW p, PolicyInv(p)
  PROVE  Effective(p) = p.out /\ p.out \in Outputs
BY DEF PolicyInv, LeaseMatches, Effective, Policy

(* What any command does to the policy.  Only ARM and HEARTBEAT, when they *)
(* succeed, move the deadline away from zero.                              *)
LEMMA PerformKeeps ==
  ASSUME NEW p, PolicyInv(p), p.stage = "TripLatch", NEW c \in Commands
  PROVE  LET r == Perform(p, c)
         IN  /\ PolicyInv(r.policy)
             /\ r.policy.stage = "TripLatch"
             /\ r.res \in Results
             /\ \/ r.policy.deadline \in {p.deadline, NoLease}
                \/ /\ c.op \in {"arm", "heartbeat"} /\ r.res = "Ok"
                   /\ r.policy.deadline = LeaseTimeout
             /\ r.policy.out.v5 => p.out.fan = 100
<1>0. Present \in Time /\ LeaseFrom(Present) = LeaseTimeout /\ EnforcesLease(p)
  BY Numbers DEF EnforcesLease
<1>1. ASSUME NEW renews \in BOOLEAN, CallKeeps(p, Perform(p, c), Present, renews),
             renews => c.op \in {"arm", "heartbeat"}
      PROVE  LET r == Perform(p, c)
             IN  /\ PolicyInv(r.policy)
                 /\ r.policy.stage = "TripLatch"
                 /\ r.res \in Results
                 /\ \/ r.policy.deadline \in {p.deadline, NoLease}
                    \/ /\ c.op \in {"arm", "heartbeat"} /\ r.res = "Ok"
                       /\ r.policy.deadline = LeaseTimeout
                 /\ r.policy.out.v5 => p.out.fan = 100
  BY <1>0, <1>1 DEF CallKeeps
<1>2. CASE c.op = "arm"
  BY <1>0, <1>1, <1>2, ArmKeeps DEF Perform
<1>3. CASE c.op = "heartbeat"
  BY <1>0, <1>1, <1>3, HeartbeatKeeps DEF Perform
<1>4. CASE c.op = "five_volt_on"
  BY <1>0, <1>1, <1>4, RequestFiveVoltKeeps DEF Perform
<1>5. CASE c.op = "five_volt_off"
  BY <1>0, <1>1, <1>5, RequestFiveVoltKeeps DEF Perform
<1>6. CASE c.op = "reset_assert"
  BY <1>0, <1>1, <1>6, RequestAsicResetKeeps DEF Perform
<1>7. CASE c.op = "reset_release"
  BY <1>0, <1>1, <1>7, RequestAsicResetKeeps DEF Perform
<1>8. CASE c.op = "fan"
  <2>1. c.percent \in FanPercents
    BY SafetyAssumption DEF Commands
  <2> QED BY <1>0, <1>1, <1>8, <2>1, RequestFanKeeps DEF Perform
<1>9. CASE c.op = "clear_fault"
  <2>1. Perform(p, c) = ClearFault(p, Present)
    BY <1>9 DEF Perform
  <2>2. /\ PolicyInv(ClearFault(p, Present).policy)
        /\ ClearFault(p, Present).policy.stage = p.stage
        /\ \/ ClearFault(p, Present).res = "TripActive" /\ ClearFault(p, Present).policy = p
           \/ /\ ClearFault(p, Present).res = "Ok"
              /\ ClearFault(p, Present).policy.out = Safe
              /\ ClearFault(p, Present).policy.deadline = NoLease
    BY <1>0, ClearFaultEffect
  <2>3. p.out.v5 => p.out.fan = 100
    BY <1>0 DEF PolicyInv, Ordered
  <2>4. ~Safe.v5 /\ {"Ok", "TripActive"} \subseteq Results
    BY DEF Safe, Results, Errors
  <2> QED BY <2>1, <2>2, <2>3, <2>4
<1>10. CASE c.op = "disarm"
  BY <1>0, <1>1, <1>10, DisarmKeeps DEF Perform
<1>11. c.op \in Ops \cup {"fan"}
  BY DEF Commands
<1> QED BY <1>2, <1>3, <1>4, <1>5, <1>6, <1>7, <1>8, <1>9, <1>10, <1>11 DEF Ops

(* A well-formed policy whose lease ends at another time is well-formed.   *)
LEMMA DeadlineMoved ==
  ASSUME NEW p, PolicyInv(p), p.deadline # NoLease, NEW d \in Time
  PROVE  LET q == [p EXCEPT !.deadline = d]
         IN  /\ PolicyInv(q) /\ q.deadline = d
             /\ q.stage = p.stage /\ q.state = p.state /\ q.out = p.out
<1> DEFINE q == [p EXCEPT !.deadline = d]
<1>1. /\ q \in Policy /\ q.stage = p.stage /\ q.state = p.state /\ q.fault = p.fault
      /\ q.out = p.out /\ q.trip = p.trip /\ q.deadline = d
  BY DEF PolicyInv, Policy
<1>2. d # NoLease
  BY SafetyAssumption, SMT DEF Time, NoLease
<1> HIDE DEF q
<1>3. PolicyInv(q)
  BY <1>1, <1>2 DEF PolicyInv, FaultMatches, LeaseMatches, Ordered, TripHeld,
                    EnforcesLease, EnforcesTrip
<1> QED BY <1>1, <1>3 DEF q

(* What a tick does to the policy: nothing but a latch, or the level of    *)
(* the trip; and a lease that is at its end is gone afterwards, as is 5 V  *)
(* when the trip is high.                                                  *)
LEMMA PresentTick ==
  ASSUME NEW p, PolicyInv(p), p.stage = "TripLatch", NEW level \in BOOLEAN
  PROVE  LET t == Tick(p, Present, level)
         IN  /\ PolicyInv(t) /\ t.stage = "TripLatch"
             /\ t.deadline = NoLease \/ (t.deadline = p.deadline /\ t.deadline > 0)
             /\ t.out.v5 => p.out.fan = 100
             /\ level => ~t.out.v5
<1> DEFINE t == Tick(p, Present, level)
<1>0. Present \in Time
  BY Numbers
<1>1. /\ PolicyInv(t) /\ t.stage = "TripLatch" /\ t.trip = level /\ ~Expired(t, Present)
      /\ \/ t.state = "FaultLatched" /\ t.out = Safe /\ t.deadline = NoLease
         \/ t.out = p.out /\ t.deadline = p.deadline
  BY <1>0, TickInv, TickEffect
<1> HIDE DEF t
<1>2. t.deadline = NoLease \/ (t.deadline \in Time /\ t.deadline > 0)
  BY <1>1, SafetyAssumption, SMT DEF PolicyInv, Policy, Expired, Present, Time, NoLease
<1>3. t.out.v5 => p.out.fan = 100
  BY <1>1 DEF PolicyInv, Ordered, EnforcesLease, Safe
<1>4. level => t.out = Safe
  BY <1>1 DEF PolicyInv, TripHeld, EnforcesTrip, LeaseMatches
<1> QED BY <1>1, <1>2, <1>3, <1>4 DEF Safe, t

(* The same with the clock that was read before the sample: the lease that *)
(* was at its end then is gone, and another one is as it was.              *)
LEMMA ServiceTick ==
  ASSUME CoreInv, pc = "sample", NEW level \in BOOLEAN
  PROVE  LET t == TickAtReading(level)
         IN  /\ PolicyInv(t) /\ t.stage = "TripLatch"
             /\ t.deadline = NoLease \/ (t.deadline = policy.deadline /\ clock > 0)
             /\ t.out.v5 => policy.out.fan = 100
             /\ level => ~t.out.v5
<1> DEFINE q == [policy EXCEPT !.deadline = clock]
           t == Tick(q, Present, level)
<1>1. /\ PolicyInv(policy) /\ policy.stage = "TripLatch" /\ policy \in Policy
      /\ clock \in Time \cup {NoLease} /\ (clock = NoLease <=> policy.deadline = NoLease)
      /\ policy.deadline \in Time \cup {NoLease}
  BY DEF CoreInv, TypeOK, Policy
<1>2. PolicyInv(q) /\ q.stage = "TripLatch" /\ q.out = policy.out /\ q.deadline = clock
  <2>1. CASE clock = NoLease
    <3>1. q = policy
      BY <1>1, <2>1 DEF Policy
    <3> QED BY <1>1, <2>1, <3>1
  <2>2. CASE clock # NoLease
    BY <1>1, <2>2, DeadlineMoved
  <2> QED BY <2>1, <2>2
<1>3. TickAtReading(level) = IF t.deadline = NoLease THEN t
                             ELSE [t EXCEPT !.deadline = policy.deadline]
  BY DEF TickAtReading
<1> HIDE DEF q
<1>4. /\ PolicyInv(t) /\ t.stage = "TripLatch"
      /\ t.deadline = NoLease \/ (t.deadline = clock /\ clock > 0)
      /\ t.out.v5 => policy.out.fan = 100
      /\ level => ~t.out.v5
  BY <1>2, PresentTick
<1> HIDE DEF t
<1>5. CASE t.deadline = NoLease
  BY <1>3, <1>4, <1>5
<1>6. CASE t.deadline # NoLease
  <2>1. clock > 0 /\ policy.deadline \in Time
    BY <1>1, <1>4, <1>6
  <2>2. LET u == [t EXCEPT !.deadline = policy.deadline]
        IN  PolicyInv(u) /\ u.deadline = policy.deadline /\ u.stage = t.stage /\ u.out = t.out
    BY <1>4, <1>6, <2>1, DeadlineMoved
  <2> QED BY <1>3, <1>4, <1>6, <2>1, <2>2
<1> QED BY <1>5, <1>6

(* Ageing a policy moves its deadline towards zero and nothing else.       *)
LEMMA AgedKeeps ==
  ASSUME NEW p, PolicyInv(p)
  PROVE  /\ PolicyInv(Aged(p))
         /\ Aged(p).stage = p.stage /\ Aged(p).state = p.state /\ Aged(p).out = p.out
         /\ Aged(p).deadline = IF p.deadline > 0 THEN p.deadline - 1 ELSE p.deadline
<1>1. p.deadline \in Int
  BY SafetyAssumption, SMT DEF PolicyInv, Policy, Time, NoLease
<1>2. CASE p.deadline > 0
  <2> DEFINE d == p.deadline - 1
             q == [p EXCEPT !.deadline = d]
  <2>1. Aged(p) = q
    BY <1>2 DEF Aged
  <2>2. d \in Time /\ d # NoLease /\ p.deadline # NoLease
    BY <1>1, <1>2, SafetyAssumption, SMT DEF PolicyInv, Policy, Time, NoLease
  <2> HIDE DEF d
  <2>3. /\ PolicyInv(q) /\ q.stage = p.stage /\ q.state = p.state /\ q.out = p.out
        /\ q.deadline = d
    BY <2>2, DeadlineMoved
  <2> QED BY <1>2, <2>1, <2>3 DEF d
<1>3. CASE ~(p.deadline > 0)
  BY <1>3 DEF Aged
<1> QED BY <1>2, <1>3

(* Boot. *)
LEMMA FirmwareInv ==
  PolicyInv(Firmware) /\ Firmware.stage = "TripLatch" /\ Firmware.deadline = NoLease
  /\ Firmware.out = Safe
<1>1. PolicyInv(Firmware)
  BY NewPolicyInv DEF Firmware, Stages, Implemented, Required
<1> QED BY <1>1 DEF Firmware, NewPolicy

(* The boot levels are legal. *)
LEMMA BootPinsType == BootPins \in Pins
BY SafetyAssumption DEF BootPins, Pins

(* Types hold at boot. *)
LEMMA InitCore == Init => CoreInv
<1> SUFFICES ASSUME Init PROVE CoreInv
  OBVIOUS
<1>1. policy \in Policy /\ PolicyInv(policy) /\ policy.stage = "TripLatch" /\ policy.deadline = NoLease
  BY FirmwareInv DEF Init, PolicyInv
<1>2. NoLease <= LeaseTimeout /\ clock \in Time \cup {NoLease}
  BY Numbers, SMT DEF Init, NoLease
<1>3. /\ sinceHost \in 0 .. HostCap /\ exposure \in 0 .. ExposureCap
      /\ wd \in 0 .. WatchdogTimeout /\ timer \in Nat /\ tach \in 0 .. TachTime
  BY Numbers DEF Init
<1> QED BY <1>1, <1>2, <1>3, BootPinsType DEF Init, CoreInv, TypeOK, Places, Returns

(* Types survive every step of the task. *)
LEMMA TaskCore ==
  ASSUME CoreInv, Task
  PROVE  CoreInv'
<1> USE DEF CoreInv, TypeOK, Running, boardVars, histVars
<1>0. Effective(policy) = policy.out /\ policy.out \in Outputs
  BY EffectiveIsRequested
<1>16. CASE ReadClock
  <2>1. policy.deadline \in Time \cup {NoLease} /\ policy.deadline \in Int
    BY SafetyAssumption, SMT DEF Policy, Time, NoLease
  <2> QED BY <1>16, <2>1 DEF ReadClock, Places
<1>1. CASE Service
  <2>1. PolicyInv(policy') /\ policy'.stage = "TripLatch" /\ policy' \in Policy
        /\ policy'.deadline \in {NoLease, policy.deadline}
    BY <1>1, ServiceTick DEF Service, ServiceWith, PolicyInv
  <2>2. NoLease <= LeaseTimeout
    BY Numbers, SMT DEF NoLease
  <2> QED BY <1>1, <2>1, <2>2 DEF Service, ServiceWith, Places
<1>2. CASE Apply
  BY <1>2, Numbers DEF Apply, ApplyUnless, Applied, Places
<1>3. CASE SetV5
  <2>1. pins' \in Pins
    BY <1>0, <1>3 DEF SetV5, Pins, Outputs
  <2>2. exposure' \in 0 .. ExposureCap
    BY <1>3, Numbers DEF SetV5
  <2> QED BY <1>3, <2>1, <2>2 DEF SetV5, Places
<1>4. CASE SetRst
  <2>1. pins' \in Pins
    BY <1>0, <1>4 DEF SetRst, Pins, Outputs
  <2> QED BY <1>4, <2>1 DEF SetRst, Places
<1>5. CASE SetFan
  <2>1. pins' \in Pins
    BY <1>0, <1>5 DEF SetFan, Pins, Outputs
  <2> QED BY <1>5, <2>1 DEF SetFan, Places
<1>6. CASE OpenGate
  <2>1. rx' \in BOOLEAN
    BY <1>0, <1>6 DEF OpenGate, Forwards, Outputs
  <2>2. applied' \in {{o} : o \in Outputs}
    BY <1>0, <1>6 DEF OpenGate
  <2> QED BY <1>6, <2>1, <2>2, Numbers DEF OpenGate, Applied, Places
<1>7. CASE Feed
  <2>1. wd' \in 0 .. WatchdogTimeout
    BY <1>7, Numbers DEF Feed, Proceed
  <2>2. timer' \in Nat /\ pc' \in Places /\ after' \in Returns
        /\ (after' = "exec" => after = "exec") /\ (pc' = "exec" => after' = "exec")
    BY <1>7, Numbers DEF Feed, Proceed, Places, Returns
  <2> QED BY <1>7, <2>1, <2>2 DEF Feed, Proceed
<1>8. CASE ReadNothing
  BY <1>8 DEF ReadNothing, Places, Returns
<1>9. CASE ReadQuery
  BY <1>9, Numbers DEF ReadQuery, Places, Returns
<1>10. CASE ReadCommand
  BY <1>10 DEF ReadCommand, Places, Returns
<1>11. CASE ReadTach
  <2>1. tach' \in 0 .. TachTime /\ timer' \in Nat
    BY <1>11, Numbers DEF ReadTach, Measure
  <2> QED BY <1>11, <2>1 DEF ReadTach, Measure, Places
<1>12. CASE TachService
  BY <1>12 DEF TachService, Places, Returns
<1>13. CASE TachDone
  BY <1>13 DEF TachDone, Places, Returns
<1>14. CASE Exec
  <2> DEFINE r == Perform(policy, cmd)
  <2>1. /\ PolicyInv(r.policy) /\ r.policy.stage = "TripLatch" /\ r.res \in Results
        /\ r.policy.deadline \in {policy.deadline, NoLease, LeaseTimeout}
    BY <1>14, PerformKeeps DEF Exec, Decide
  <2>2. policy' = r.policy /\ res' = r.res
    BY <1>14 DEF Exec, Decide
  <2> HIDE DEF r
  <2>3. policy' \in Policy /\ policy'.deadline <= LeaseTimeout
    BY <2>1, <2>2, Numbers, SMT DEF PolicyInv, NoLease
  <2>4. sinceHost' \in 0 .. HostCap
    BY <1>14, Numbers DEF Exec, Decide
  <2> QED BY <1>14, <2>1, <2>2, <2>3, <2>4 DEF Exec, Decide, Places, Returns, Results
<1>15. CASE Respond
  BY <1>15 DEF Respond, Places, Returns
<1> QED
  BY <1>1, <1>2, <1>3, <1>4, <1>5, <1>6, <1>7, <1>8, <1>9, <1>10, <1>11, <1>12, <1>13,
     <1>14, <1>15, <1>16 DEF Task

(* ... and every step of the world around it. *)
LEMMA WorldCore ==
  ASSUME CoreInv, TripChange \/ Stall \/ Resume \/ WatchdogReset \/ Elapse \/ UNCHANGED vars
  PROVE  CoreInv'
<1> USE DEF CoreInv, TypeOK, boardVars, taskVars, histVars
<1>1. CASE TripChange
  BY <1>1, Numbers DEF TripChange
<1>2. CASE Stall
  BY <1>2 DEF Stall
<1>3. CASE Resume
  BY <1>3 DEF Resume
<1>4. CASE WatchdogReset
  <2>1. policy' \in Policy /\ PolicyInv(policy') /\ policy'.stage = "TripLatch"
        /\ policy'.deadline = NoLease
    BY <1>4, FirmwareInv DEF WatchdogReset, PolicyInv
  <2>2. NoLease <= LeaseTimeout
    BY Numbers, SMT DEF NoLease
  <2>3. exposure' \in 0 .. ExposureCap /\ wd' \in 0 .. WatchdogTimeout /\ timer' \in Nat
        /\ tach' \in 0 .. TachTime
    BY <1>4, Numbers DEF WatchdogReset
  <2> QED BY <1>4, <2>1, <2>2, <2>3, BootPinsType DEF WatchdogReset, Places, Returns
<1>5. CASE Elapse
  <2>1. /\ policy' \in Policy /\ PolicyInv(policy') /\ policy'.stage = "TripLatch"
        /\ policy'.deadline = IF policy.deadline > 0 THEN policy.deadline - 1 ELSE policy.deadline
    BY <1>5, AgedKeeps DEF Elapse, PolicyInv
  <2>2. policy.deadline \in Int
    BY SafetyAssumption, SMT DEF Policy, Time, NoLease
  <2>3. policy'.deadline <= LeaseTimeout
    BY <2>1, <2>2, Numbers, SMT
  <2>4. /\ timer' \in Nat /\ tach' \in 0 .. TachTime /\ wd' \in 0 .. WatchdogTimeout
        /\ sinceHost' \in 0 .. HostCap /\ exposure' \in 0 .. ExposureCap
    BY <1>5, Numbers, SMT DEF Elapse, Less
  <2>5. pc = "sample" => /\ clock = NoLease <=> policy'.deadline = NoLease
                         /\ policy'.deadline <= clock
    <3>1. clock \in Int
      BY SafetyAssumption, SMT DEF Time, NoLease
    <3> QED BY <2>1, <2>2, <3>1, SMT DEF NoLease
  <2> QED BY <1>5, <2>1, <2>3, <2>4, <2>5 DEF Elapse
<1>6. CASE UNCHANGED vars
  BY <1>6 DEF vars
<1> QED BY <1>1, <1>2, <1>3, <1>4, <1>5, <1>6

-----------------------------------------------------------------------------
(* The pins. *)

Writing == {"setV5", "setRst", "setFan", "openGate"}

OrderedOutputs(o) == (~o.rst => o.v5) /\ (o.v5 => o.fan = 100)

(* a is what the board showed when the last write was finished.  While     *)
(* apply_safety_outputs() is at work, each pin shows a until it is         *)
(* written, and the effective outputs from then on; the gate is open only  *)
(* where both forward.                                                     *)
Shows(a) ==
  LET o == policy.out
  IN  /\ a \in Outputs
      /\ applied = {a} \/ (applied = {} /\ a = Safe)
      /\ OrderedOutputs(a)
      /\ o.v5 => a.fan = 100
      /\ pins.v5 <=> IF pc \in {"setRst", "setFan", "openGate"} THEN o.v5 ELSE a.v5
      /\ pins.rstN <=> IF pc \in {"setFan", "openGate"} THEN ~o.rst ELSE ~a.rst
      /\ pins.fan = IF pc = "openGate" THEN o.fan ELSE a.fan
      /\ rx <=> Forwards(a) /\ (pc \in Writing => Forwards(o))
      /\ pc \notin Writing \cup {"apply"} => a = o

PinsInv == \E a \in Outputs : Shows(a)

(* The requests of a well-formed TripLatch policy are ordered. *)
LEMMA RequestsOrdered ==
  ASSUME CoreInv
  PROVE  /\ OrderedOutputs(policy.out) /\ policy.out \in Outputs
         /\ Effective(policy) = policy.out
         /\ pins \in Pins
BY EffectiveIsRequested DEF CoreInv, TypeOK, PolicyInv, Ordered, OrderedOutputs, EnforcesLease

(* Boot: the outputs have never been applied, and the pins are safe. *)
LEMMA BootShows ==
  ASSUME policy.out = Safe, applied = {}, pins = BootPins, rx = FALSE,
         pc = "service"
  PROVE  PinsInv
<1>1. Shows(Safe)
  BY SafeType DEF Shows, OrderedOutputs, Safe, BootPins, Forwards, Writing
<1> QED BY <1>1, SafeType DEF PinsInv

(* Every step of the task keeps PinsInv. *)
LEMMA TaskPins ==
  ASSUME CoreInv, PinsInv, Task
  PROVE  PinsInv'
<1>1. PICK a \in Outputs : Shows(a)
  BY DEF PinsInv
<1>2. /\ OrderedOutputs(policy.out) /\ policy.out \in Outputs /\ Effective(policy) = policy.out
      /\ pins \in Pins
  BY RequestsOrdered
<1> USE DEF Running, boardVars, histVars
<1>3. ASSUME NEW b \in Outputs, Shows(b)' PROVE PinsInv'
  BY <1>3 DEF PinsInv
<1>4. CASE Service
  <2>1. policy'.out.v5 => policy.out.fan = 100
    BY <1>4, ServiceTick DEF Service, ServiceWith, CoreInv, TypeOK
  <2>2. Shows(a)'
    BY <1>1, <1>4, <2>1 DEF Service, ServiceWith, Shows, Writing
  <2> QED BY <1>3, <2>2
<1>5. CASE Exec
  <2>1. policy'.out.v5 => policy.out.fan = 100
    BY <1>5, PerformKeeps DEF Exec, Decide, CoreInv
  <2>2. Shows(a)'
    BY <1>1, <1>5, <2>1 DEF Exec, Decide, Shows, Writing
  <2> QED BY <1>3, <2>2
<1>6. CASE Apply
  <2>1. CASE applied = {policy.out}
    <3>1. a = policy.out
      BY <1>1, <2>1 DEF Shows
    <3>2. Shows(a)'
      BY <1>1, <1>2, <1>6, <2>1, <3>1 DEF Apply, ApplyUnless, Applied, Shows, Writing
    <3> QED BY <1>3, <3>2
  <2>2. CASE applied # {policy.out}
    <3>1. /\ pc = "apply" /\ pc' = "setV5" /\ policy' = policy /\ applied' = applied
          /\ pins' = pins
          /\ rx' <=> rx /\ Forwards(policy.out)
      BY <1>2, <1>6, <2>2 DEF Apply, ApplyUnless
    <3>2. Shows(a)'
      BY <1>1, <3>1 DEF Shows, Writing
    <3> QED BY <1>3, <3>2
  <2> QED BY <2>1, <2>2
<1>7. CASE SetV5
  <2>1. /\ pins'.v5 = policy.out.v5 /\ pins'.rstN = pins.rstN /\ pins'.fan = pins.fan
    BY <1>2, <1>7 DEF SetV5, Pins
  <2>2. Shows(a)'
    BY <1>1, <1>7, <2>1 DEF SetV5, Shows, Writing
  <2> QED BY <1>3, <2>2
<1>8. CASE SetRst
  <2>1. /\ pins'.v5 = pins.v5 /\ pins'.rstN = ~policy.out.rst /\ pins'.fan = pins.fan
    BY <1>2, <1>8 DEF SetRst, Pins
  <2>2. Shows(a)'
    BY <1>1, <1>8, <2>1 DEF SetRst, Shows, Writing
  <2> QED BY <1>3, <2>2
<1>9. CASE SetFan
  <2>1. /\ pins'.v5 = pins.v5 /\ pins'.rstN = pins.rstN /\ pins'.fan = policy.out.fan
    BY <1>2, <1>9 DEF SetFan, Pins
  <2>2. Shows(a)'
    BY <1>1, <1>9, <2>1 DEF SetFan, Shows, Writing
  <2> QED BY <1>3, <2>2
<1>10. CASE OpenGate
  <2> DEFINE o == policy.out
  <2>1. /\ pc' \in {"respond", "feed"} /\ applied' = {o} /\ policy' = policy /\ pins' = pins
        /\ rx' <=> rx \/ Forwards(o)
    BY <1>2, <1>10 DEF OpenGate, Applied
  <2>2. Shows(o)'
    BY <1>1, <1>2, <1>10, <2>1 DEF OpenGate, Shows, Writing, OrderedOutputs
  <2> QED BY <1>2, <1>3, <2>1, <2>2
<1>11. CASE ReadClock \/ Feed \/ ReadNothing \/ ReadQuery \/ ReadCommand \/ ReadTach \/ TachService
            \/ TachDone \/ Respond
  <2>1. /\ policy' = policy /\ applied' = applied /\ pins' = pins /\ rx' = rx
        /\ pc \notin Writing \cup {"apply"} /\ pc' \notin Writing \cup {"apply"}
    BY <1>11 DEF ReadClock, Feed, Proceed, ReadNothing, ReadQuery, ReadCommand, ReadTach, Measure, TachService, TachDone,
                 Respond, Writing
  <2>2. Shows(a)'
    BY <1>1, <2>1 DEF Shows, Writing
  <2> QED BY <1>3, <2>2
<1> QED BY <1>4, <1>5, <1>6, <1>7, <1>8, <1>9, <1>10, <1>11 DEF Task

(* The world around the task does not write pins, but for a restart.       *)
LEMMA WorldPins ==
  ASSUME CoreInv, PinsInv,
         TripChange \/ Stall \/ Resume \/ WatchdogReset \/ Elapse \/ UNCHANGED vars
  PROVE  PinsInv'
<1>1. PICK a \in Outputs : Shows(a)
  BY DEF PinsInv
<1>2. CASE TripChange \/ Stall \/ Resume \/ Elapse \/ UNCHANGED vars
  <2>1. /\ policy'.out = policy.out /\ applied' = applied /\ pins' = pins /\ rx' = rx
        /\ pc' = pc
    BY <1>2, AgedKeeps
    DEF CoreInv, TripChange, Stall, Resume, Elapse, vars, boardVars, taskVars
  <2>2. Shows(a)'
    BY <1>1, <2>1 DEF Shows, Writing
  <2> QED BY <2>2 DEF PinsInv
<1>3. CASE WatchdogReset
  <2>1. policy'.out = Safe
    BY <1>3, FirmwareInv DEF WatchdogReset
  <2>2. Shows(Safe)'
    BY <1>3, <2>1, SafeType
    DEF WatchdogReset, Shows, OrderedOutputs, Safe, BootPins, Forwards, Writing
  <2> QED BY <2>2, SafeType DEF PinsInv
<1> QED BY <1>2, <1>3

(* What PinsInv says of the pins. *)
LEMMA PinsSound ==
  ASSUME CoreInv, PinsInv
  PROVE  RxGated /\ PinOrder /\ PinsFollowPolicy
<1>1. PICK a \in Outputs : Shows(a)
  BY DEF PinsInv
<1>2. /\ OrderedOutputs(policy.out) /\ policy.out \in Outputs /\ Effective(policy) = policy.out
      /\ pins \in Pins
  BY RequestsOrdered
<1>3. RxGated
  BY <1>1 DEF RxGated, Shows, Forwards, Writing
<1>4. PinOrder
  BY <1>1, <1>2 DEF PinOrder, Shows, OrderedOutputs, CoreInv, TypeOK, Places
<1>5. PinsFollowPolicy
  <2> SUFFICES ASSUME pc \in {"feed", "read", "exec", "respond", "tach"}
               PROVE  /\ pins = [v5 |-> policy.out.v5, rstN |-> ~policy.out.rst,
                                  fan |-> policy.out.fan]
                      /\ rx = Forwards(policy.out)
    BY <1>2 DEF PinsFollowPolicy
  <2>1. /\ pins.v5 <=> policy.out.v5
        /\ pins.rstN <=> ~policy.out.rst
        /\ pins.fan = policy.out.fan
        /\ rx <=> Forwards(policy.out)
    BY <1>1 DEF Shows, Writing
  <2>2. pins.v5 = policy.out.v5 /\ pins.rstN = ~policy.out.rst
    BY <1>2, <2>1 DEF Pins, Outputs
  <2>3. rx = Forwards(policy.out)
    BY <1>2, <2>1 DEF CoreInv, TypeOK, Forwards, Outputs
  <2> QED BY <1>2, <2>1, <2>2, <2>3 DEF Pins
<1> QED BY <1>3, <1>4, <1>5

-----------------------------------------------------------------------------
(* Time. *)

Lag == WatchdogTimeout - wd      \* since the last feed, or since boot

(* Between the tick of a service and its feed. *)
Fresh == pc \in Writing \cup {"apply", "feed"} /\ after # "answer"

(* A task that is not stalled: what is left of an await fits into what is  *)
(* left of the service gap.                                                *)
LagInv ==
  ~MayStall =>
    /\ ~stalled
    /\ Lag <= ServiceGap
    /\ pc = "read" => Lag + timer <= ReadTime
    /\ pc = "exec" => Lag + timer <= HandlerTime
    /\ pc \in Writing \cup {"apply"} /\ after = "answer" => Lag <= HandlerTime
    /\ pc \in {"respond", "tach"} => Lag + timer <= ServiceGap

(* The host: a lease that has time left was renewed accordingly late, one  *)
(* that has none ran out no longer ago than the feeds allow.               *)
HostInv ==
  /\ policy.deadline > 0 => sinceHost + policy.deadline <= LeaseTimeout
  /\ policy.deadline = 0 => sinceHost < LeaseTimeout + (WatchdogTimeout - 1) + Lag
  /\ policy.deadline = 0 /\ Fresh => sinceHost < LeaseTimeout + Lag
  /\ policy.deadline = 0 /\ pc = "sample" /\ clock > 0 => sinceHost < LeaseTimeout + Lag
  /\ pins.v5 => sinceHost < LeaseTimeout + (WatchdogTimeout - 1) + Lag
  /\ ~MayStall =>
       /\ pc = "sample" => clock = policy.deadline
       /\ policy.deadline = 0 => ~Fresh /\ sinceHost < LeaseTimeout + Lag
       /\ pins.v5 => sinceHost < LeaseTimeout + Lag

(* The trip: 5 V under a high trip has been on since a sample that was     *)
(* still low.                                                              *)
TripInv ==
  /\ ~trip \/ ~pins.v5 => exposure = 0
  /\ exposure <= (WatchdogTimeout - 1) + Lag
  /\ Fresh /\ policy.out.v5 => exposure <= Lag
  /\ ~MayStall =>
       /\ exposure <= Lag
       /\ Fresh /\ policy.out.v5 => exposure = 0

TimeInv == LagInv /\ HostInv /\ TripInv

(* 5 V on the pins when the watchdog is fed is 5 V in the requests, and    *)
(* that needs a lease.                                                     *)
LEMMA PoweredIsLeased ==
  ASSUME CoreInv, PinsInv
  PROVE  /\ policy.out.v5 => policy.deadline # NoLease
         /\ pc \in {"feed", "setRst", "setFan", "openGate"} => (pins.v5 <=> policy.out.v5)
         /\ policy.deadline = NoLease \/ policy.deadline >= 0
         /\ policy.deadline \in Int /\ NoLease \in Int /\ NoLease < 0
<1>1. policy.out.v5 => policy.deadline # NoLease
  BY DEF CoreInv, PolicyInv, LeaseMatches, Safe, EnforcesLease
<1>2. pc \in {"feed", "setRst", "setFan", "openGate"} => (pins.v5 <=> policy.out.v5)
  BY DEF PinsInv, Shows, Writing
<1>3. /\ policy.deadline = NoLease \/ policy.deadline >= 0
      /\ policy.deadline \in Int /\ NoLease \in Int /\ NoLease < 0
  BY SafetyAssumption, SMT DEF CoreInv, TypeOK, Policy, Time, NoLease
<1> QED BY <1>1, <1>2, <1>3

(* At boot nothing has been fed and nothing is on. *)
LEMMA InitTime == Init => TimeInv
<1> SUFFICES ASSUME Init PROVE TimeInv
  OBVIOUS
<1>1. Lag = 0
  BY Numbers, SMT DEF Init, Lag
<1>2. policy.deadline = NoLease /\ ~policy.out.v5 /\ ~pins.v5 /\ ~Fresh
  BY FirmwareInv DEF Init, BootPins, Fresh, Writing, Safe
<1>3. ~(NoLease > 0) /\ NoLease # 0
  BY SMT DEF NoLease
<1> HIDE DEF Lag
<1> QED
  BY <1>1, <1>2, <1>3, Gaps, Numbers, SMT
  DEF Init, TimeInv, LagInv, HostInv, TripInv, Writing

(* The numbers of a state. *)
LEMMA TimeTypes ==
  ASSUME CoreInv
  PROVE  /\ wd \in Nat /\ wd <= WatchdogTimeout /\ timer \in Nat
         /\ sinceHost \in Nat /\ exposure \in Nat
         /\ Lag \in Nat /\ Lag <= WatchdogTimeout
         /\ WatchdogTimeout >= 1
BY Numbers, Gaps, SMT DEF CoreInv, TypeOK, Lag

(* How each step of the task moves it, as far as the service gap cares.    *)
LEMMA TaskMoves ==
  ASSUME CoreInv, LagInv, ~MayStall, Task
  PROVE  /\ ~stalled'
         /\ \/ /\ Lag' = 0 /\ timer' \in Nat
               /\ pc' = "read" => timer' <= ReadTime
               /\ pc' = "exec" => timer' <= HandlerTime
               /\ pc' \in {"respond", "tach"} => timer' <= ServiceGap
               /\ pc' \in {"service", "read", "exec", "respond", "tach"}
            \/ Lag' = Lag /\ pc' \in {"service", "sample"}
            \/ /\ Lag' = Lag /\ pc' \in Writing \cup {"apply", "feed"}
               /\ after' = "answer" => Lag <= HandlerTime
            \/ /\ Lag' = Lag /\ pc' = "respond" /\ timer' = WriteTime
               /\ Lag <= HandlerTime \/ Lag <= ReadTime
            \/ /\ Lag' = Lag /\ pc' = "tach" /\ timer' = ServiceInterval
               /\ Lag <= ReadTime
<1>0. /\ Lag \in Nat /\ timer \in Nat /\ ~stalled
      /\ pc = "read" => Lag <= ReadTime
      /\ pc = "exec" => Lag <= HandlerTime
      /\ pc \in Writing \cup {"apply"} /\ after = "answer" => Lag <= HandlerTime
  <2>1. Lag \in Nat /\ timer \in Nat
    BY TimeTypes
  <2> HIDE DEF Lag
  <2> QED BY <2>1, Numbers, SMT DEF LagInv
<1>1. wd' = wd => Lag' = Lag
  BY DEF Lag
<1> USE DEF Running
<1>2. CASE Feed
  <2>1. Lag' = 0
    BY <1>2, Numbers, SMT DEF Feed, Proceed, Lag
  <2>2. /\ ~stalled' /\ timer' \in Nat
        /\ pc' = "read" => timer' <= ReadTime
        /\ pc' = "exec" => timer' <= HandlerTime
        /\ pc' \in {"respond", "tach"} => timer' <= ServiceGap
        /\ pc' \in {"service", "read", "exec", "respond", "tach"}
    BY <1>0, <1>2, Gaps, Numbers, SMT DEF Feed, Proceed
  <2> QED BY <2>1, <2>2
<1> HIDE DEF Lag
<1>3. CASE Service
  BY <1>0, <1>1, <1>3 DEF Service, ServiceWith, Writing, CoreInv
<1>4. CASE SetV5 \/ SetRst \/ SetFan
  BY <1>0, <1>1, <1>4 DEF SetV5, SetRst, SetFan, Writing
<1>5. CASE Apply \/ OpenGate
  BY <1>0, <1>1, <1>5 DEF Apply, ApplyUnless, OpenGate, Applied, Writing
<1>6. CASE Exec
  BY <1>0, <1>1, <1>6 DEF Exec, Decide, Writing
<1>7. CASE ReadClock \/ ReadNothing \/ ReadCommand \/ TachService \/ TachDone \/ Respond
  BY <1>0, <1>1, <1>7 DEF ReadClock, ReadNothing, ReadCommand, TachService, TachDone, Respond
<1>8. CASE ReadQuery \/ ReadTach
  BY <1>0, <1>1, <1>8 DEF ReadQuery, ReadTach, Measure
<1> QED BY <1>2, <1>3, <1>4, <1>5, <1>6, <1>7, <1>8 DEF Task

(* So each step of a task that is not stalled keeps the service gap.       *)
LEMMA TaskLag ==
  ASSUME CoreInv, LagInv, Task
  PROVE  LagInv'
<1> SUFFICES ASSUME ~MayStall PROVE LagInv'
  BY DEF LagInv
<1>1. Lag \in Nat /\ Lag <= ServiceGap
  BY TimeTypes DEF LagInv
<1> HIDE DEF Lag
<1> QED BY <1>1, TaskMoves, Gaps, Numbers, SMT DEF LagInv, Writing

(* Outside a stall a millisecond passes only inside an await. *)
LEMMA WorldLag ==
  ASSUME CoreInv, LagInv,
         TripChange \/ Stall \/ Resume \/ WatchdogReset \/ Elapse \/ UNCHANGED vars
  PROVE  LagInv'
<1> SUFFICES ASSUME ~MayStall PROVE LagInv'
  BY DEF LagInv
<1>1. Lag \in Nat /\ Lag <= ServiceGap /\ timer \in Nat /\ ~stalled /\ wd \in Nat
  BY TimeTypes DEF LagInv
<1>2. CASE TripChange \/ UNCHANGED vars
  BY <1>2 DEF TripChange, vars, taskVars, LagInv, Lag
<1>3. ~(Stall \/ Resume)
  BY <1>1 DEF Stall, Resume
<1>4. CASE WatchdogReset
  <2>1. Lag' = 0
    BY <1>4, Numbers, SMT DEF WatchdogReset, Lag
  <2> HIDE DEF Lag
  <2> QED BY <1>4, <2>1, Gaps DEF WatchdogReset, LagInv, Writing
<1>5. CASE Elapse
  <2>1. /\ pc \in {"read", "exec", "respond", "tach"} /\ timer > 0
        /\ pc' = pc /\ after' = after /\ stalled' = stalled
        /\ timer' = timer - 1 /\ wd' = wd - 1
    BY <1>1, <1>5 DEF Elapse, Less
  <2>2. Lag' = Lag + 1
    BY <1>1, <2>1, Numbers, SMT DEF Lag
  <2> HIDE DEF Lag
  <2>3. Lag' + timer' = Lag + timer /\ timer' >= 0
    BY <1>1, <2>1, <2>2, SMT
  <2>4. Lag + timer <= ServiceGap
    BY <1>1, <2>1, Gaps, Numbers, SMT DEF LagInv
  <2> QED BY <1>1, <2>1, <2>2, <2>3, <2>4, Gaps, Numbers, SMT DEF LagInv, Writing
<1> QED BY <1>2, <1>3, <1>4, <1>5

(* What each step does to the lease, the host's clock and the powered pin. *)
LEMMA TaskHost ==
  ASSUME CoreInv, PinsInv, LagInv, HostInv, Task
  PROVE  HostInv'
<1> DEFINE d == policy.deadline
<1>0. /\ wd \in Nat /\ Lag \in Nat /\ Lag <= WatchdogTimeout /\ sinceHost \in Nat /\ WatchdogTimeout >= 1
      /\ d = NoLease \/ d >= 0
      /\ d \in Int /\ NoLease \in Int /\ NoLease < 0
      /\ policy.out.v5 => d # NoLease
      /\ ~MayStall => Lag <= ServiceGap /\ ServiceGap < WatchdogTimeout
  BY TimeTypes, PoweredIsLeased, Gaps DEF LagInv
<1>1. wd' = wd => Lag' = Lag
  BY DEF Lag
<1> USE DEF Running, boardVars, histVars
<1>2. CASE Service
  <2>1. /\ policy'.deadline = NoLease \/ (policy'.deadline = d /\ clock > 0)
        /\ Lag' = Lag /\ pins' = pins /\ sinceHost' = sinceHost /\ pc = "sample" /\ pc' = "apply"
    BY <1>1, <1>2, ServiceTick DEF Service, ServiceWith, CoreInv, TypeOK
  <2> HIDE DEF Lag
  <2>2. policy'.deadline = 0 => sinceHost' < LeaseTimeout + Lag' /\ MayStall
    BY <1>0, <2>1, SMT DEF HostInv
  <2> QED BY <1>0, <2>1, <2>2, Numbers, SMT DEF HostInv
<1>8. CASE ReadClock
  <2>1. /\ policy' = policy /\ clock' = d /\ pins' = pins /\ Lag' = Lag
        /\ sinceHost' = sinceHost /\ ~Fresh'
    BY <1>1, <1>8 DEF ReadClock, Fresh, Writing
  <2> HIDE DEF Lag
  <2> QED BY <1>0, <2>1, SMT DEF HostInv
<1>3. CASE Exec
  <2> DEFINE r == Perform(policy, cmd)
  <2>1. /\ r.policy.deadline \in {d, NoLease} \/ (cmd.op \in {"arm", "heartbeat"} /\ r.res = "Ok"
                                               /\ r.policy.deadline = LeaseTimeout)
    BY <1>3, PerformKeeps DEF Exec, Decide, CoreInv
  <2>2. /\ policy' = r.policy /\ Lag' = Lag /\ pins' = pins
        /\ sinceHost' = IF r.res = "Ok" /\ cmd.op \in {"arm", "heartbeat"} THEN 0 ELSE sinceHost
        /\ pc' = "apply" /\ after' = "answer"
    BY <1>1, <1>3 DEF Exec, Decide
  <2> HIDE DEF r, Lag
  <2>3. sinceHost' \in {0, sinceHost} /\ ~Fresh'
    BY <2>2 DEF Fresh
  <2>4. CASE policy'.deadline \in {d, NoLease}
    BY <1>0, <2>2, <2>3, <2>4, Numbers, SMT DEF HostInv
  <2>5. CASE policy'.deadline = LeaseTimeout /\ sinceHost' = 0
    BY <1>0, <2>2, <2>3, <2>5, Numbers, SMT DEF HostInv
  <2> QED BY <2>1, <2>2, <2>4, <2>5
<1>4. CASE Apply \/ SetRst \/ SetFan \/ OpenGate
  <2>1. /\ policy' = policy /\ Lag' = Lag /\ sinceHost' = sinceHost /\ (Fresh' => Fresh)
        /\ pc' # "sample"
    BY <1>1, <1>4 DEF Apply, ApplyUnless, SetRst, SetFan, OpenGate, Applied, Fresh, Writing
  <2>2. pins'.v5 = pins.v5
    BY <1>4, RequestsOrdered DEF Apply, ApplyUnless, SetRst, SetFan, OpenGate, Pins
  <2> HIDE DEF Lag
  <2> QED BY <2>1, <2>2 DEF HostInv
<1>5. CASE SetV5
  <2>1. /\ policy' = policy /\ Lag' = Lag /\ sinceHost' = sinceHost /\ (Fresh' => Fresh)
        /\ pc' # "sample"
    BY <1>1, <1>5 DEF SetV5, Fresh, Writing
  <2>2. pins'.v5 = policy.out.v5
    BY <1>5, RequestsOrdered DEF SetV5, Pins
  <2> HIDE DEF Lag
  <2>3. pins'.v5 => d > 0 \/ d = 0
    BY <1>0, <2>2, SMT
  <2>4. d > 0 => sinceHost < LeaseTimeout
    BY <1>0, Numbers, SMT DEF HostInv
  <2> QED BY <1>0, <2>1, <2>3, <2>4, Numbers, SMT DEF HostInv
<1>6. CASE Feed
  <2>1. /\ policy' = policy /\ sinceHost' = sinceHost /\ ~Fresh' /\ Fresh
        /\ pins' = pins /\ (pins.v5 <=> policy.out.v5) /\ pc' # "sample"
    BY <1>6, PoweredIsLeased DEF Feed, Proceed, Fresh, Writing
  <2>2. Lag' = 0 /\ Lag <= WatchdogTimeout - 1
    BY <1>0, <1>6, Numbers, SMT DEF Feed, Proceed, Lag
  <2> HIDE DEF Lag
  <2>3. pins'.v5 => d > 0 \/ d = 0
    BY <1>0, <2>1, SMT
  <2>4. d > 0 => sinceHost < LeaseTimeout
    BY <1>0, Numbers, SMT DEF HostInv
  <2>5. d = 0 => MayStall /\ sinceHost < LeaseTimeout + (WatchdogTimeout - 1)
    BY <1>0, <2>1, <2>2, Numbers, SMT DEF HostInv
  <2> QED BY <1>0, <2>1, <2>2, <2>3, <2>4, <2>5, Numbers, SMT DEF HostInv
<1>7. CASE ReadNothing \/ ReadQuery \/ ReadCommand \/ ReadTach \/ TachService \/ TachDone \/ Respond
  <2>1. /\ policy' = policy /\ pins' = pins /\ Lag' = Lag /\ sinceHost' = sinceHost /\ ~Fresh'
        /\ pc' # "sample"
    BY <1>1, <1>7 DEF ReadNothing, ReadQuery, ReadCommand, ReadTach, Measure, TachService, TachDone,
                      Respond, Fresh, Writing
  <2> HIDE DEF Lag
  <2> QED BY <2>1 DEF HostInv
<1> QED BY <1>2, <1>3, <1>4, <1>5, <1>6, <1>7, <1>8 DEF Task

(* ... and what the world around the task does to them. *)
LEMMA WorldHost ==
  ASSUME CoreInv, LagInv, HostInv,
         TripChange \/ Stall \/ Resume \/ WatchdogReset \/ Elapse \/ UNCHANGED vars
  PROVE  HostInv'
<1> DEFINE d == policy.deadline
<1>0. /\ wd \in Nat /\ Lag \in Nat /\ Lag <= WatchdogTimeout /\ sinceHost \in Nat /\ WatchdogTimeout >= 1
      /\ d \in Int /\ NoLease \in Int /\ NoLease < 0 /\ (d = NoLease \/ d >= 0)
  <2>1. d \in Int /\ NoLease \in Int /\ NoLease < 0 /\ (d = NoLease \/ d >= 0)
    BY SafetyAssumption, SMT DEF CoreInv, TypeOK, Policy, Time, NoLease
  <2> QED BY <2>1, TimeTypes
<1>1. CASE TripChange \/ Stall \/ Resume \/ UNCHANGED vars
  <2>1. /\ policy' = policy /\ pins' = pins /\ wd' = wd /\ sinceHost' = sinceHost
        /\ pc' = pc /\ clock' = clock /\ after' = after
    BY <1>1 DEF TripChange, Stall, Resume, vars, boardVars, taskVars, histVars
  <2> QED BY <2>1 DEF HostInv, Fresh, Lag
<1>2. CASE WatchdogReset
  <2>1. policy'.deadline = NoLease /\ ~pins'.v5 /\ pc' # "sample"
    BY <1>2, FirmwareInv DEF WatchdogReset, BootPins
  <2> QED BY <1>0, <2>1, SMT DEF HostInv
<1>3. CASE Elapse
  <2>1. /\ policy'.deadline = IF d > 0 THEN d - 1 ELSE d
        /\ pins' = pins /\ pc' = pc /\ clock' = clock /\ after' = after /\ wd' = wd - 1
        /\ sinceHost' = IF sinceHost < HostCap THEN sinceHost + 1 ELSE sinceHost
        /\ ~MayStall => ~Fresh /\ pc # "sample"
    BY <1>3, AgedKeeps DEF Elapse, CoreInv, LagInv, boardVars, Fresh, Writing
  <2>2. Lag' = Lag + 1 /\ sinceHost' <= sinceHost + 1 /\ (Fresh' <=> Fresh)
    BY <1>0, <2>1, Numbers, SMT DEF Lag, Fresh
  <2> HIDE DEF Lag
  <2>3. sinceHost' \in Nat
    BY <1>0, <2>1, SMT
  <2>4. policy'.deadline > 0 => sinceHost' + policy'.deadline <= LeaseTimeout
    BY <1>0, <2>1, <2>2, <2>3, Numbers, SMT DEF HostInv
  <2>5. policy'.deadline = 0 => d = 0 \/ (d = 1 /\ sinceHost + 1 <= LeaseTimeout)
    BY <1>0, <2>1, Numbers, SMT DEF HostInv
  <2>6. policy'.deadline = 0 => /\ sinceHost' < LeaseTimeout + (WatchdogTimeout - 1) + Lag'
                                /\ Fresh' => sinceHost' < LeaseTimeout + Lag'
                                /\ pc' = "sample" /\ clock' > 0 => sinceHost' < LeaseTimeout + Lag'
                                /\ ~MayStall => ~Fresh' /\ sinceHost' < LeaseTimeout + Lag'
    BY <1>0, <2>1, <2>2, <2>3, <2>5, Numbers, SMT DEF HostInv
  <2>7. pins'.v5 => /\ sinceHost' < LeaseTimeout + (WatchdogTimeout - 1) + Lag'
                    /\ ~MayStall => sinceHost' < LeaseTimeout + Lag'
    BY <1>0, <2>1, <2>2, <2>3, Numbers, SMT DEF HostInv
  <2> QED BY <2>1, <2>4, <2>6, <2>7 DEF HostInv
<1> QED BY <1>1, <1>2, <1>3

(* What each step of the task does to the time 5 V is on under a trip.     *)
LEMMA TaskTrip ==
  ASSUME CoreInv, PinsInv, LagInv, TripInv, Task
  PROVE  TripInv'
<1>0. /\ wd \in Nat /\ Lag \in Nat /\ Lag <= WatchdogTimeout /\ exposure \in Nat
      /\ WatchdogTimeout >= 1
  BY TimeTypes
<1>1. wd' = wd => Lag' = Lag
  BY DEF Lag
<1> USE DEF Running, boardVars, histVars
<1>2. CASE Service
  <2>1. /\ trip => ~policy'.out.v5
        /\ Lag' = Lag /\ pins' = pins /\ exposure' = exposure /\ trip' = trip
    BY <1>1, <1>2, ServiceTick DEF Service, ServiceWith, CoreInv, TypeOK
  <2> HIDE DEF Lag
  <2>2. Fresh' /\ policy'.out.v5 => exposure' = 0
    BY <2>1 DEF TripInv
  <2>3. Lag' = Lag /\ exposure' = exposure /\ (~trip' \/ ~pins'.v5 => exposure' = 0)
    BY <2>1 DEF TripInv
  <2> QED BY <1>0, <2>2, <2>3, Numbers, SMT DEF TripInv
<1>3. CASE ReadClock \/ Exec \/ ReadNothing \/ ReadQuery \/ ReadCommand \/ ReadTach \/ TachService
           \/ TachDone \/ Respond
  <2>1. /\ pins' = pins /\ Lag' = Lag /\ exposure' = exposure /\ trip' = trip /\ ~Fresh'
    BY <1>1, <1>3 DEF ReadClock, Exec, Decide, ReadNothing, ReadQuery, ReadCommand, ReadTach, Measure,
                      TachService, TachDone, Respond, Fresh, Writing
  <2> HIDE DEF Lag
  <2> QED BY <2>1 DEF TripInv
<1>4. CASE Apply \/ SetRst \/ SetFan \/ OpenGate
  <2>1. /\ policy' = policy /\ Lag' = Lag /\ exposure' = exposure /\ trip' = trip
        /\ (Fresh' => Fresh)
    BY <1>1, <1>4 DEF Apply, ApplyUnless, SetRst, SetFan, OpenGate, Applied, Fresh, Writing
  <2>2. pins'.v5 = pins.v5
    BY <1>4, RequestsOrdered DEF Apply, ApplyUnless, SetRst, SetFan, OpenGate, Pins
  <2> HIDE DEF Lag
  <2> QED BY <2>1, <2>2 DEF TripInv
<1>5. CASE SetV5
  <2>1. /\ policy' = policy /\ Lag' = Lag /\ trip' = trip /\ (Fresh' => Fresh)
        /\ exposure' = IF pins'.v5 THEN exposure ELSE 0
    BY <1>1, <1>5 DEF SetV5, Fresh, Writing
  <2> HIDE DEF Lag
  <2>2. ~trip' \/ ~pins'.v5 => exposure' = 0
    BY <2>1 DEF TripInv
  <2>3. CASE exposure' = exposure
    BY <2>1, <2>2, <2>3 DEF TripInv
  <2>4. CASE exposure' = 0
    BY <1>0, <2>1, <2>2, <2>4, Numbers, SMT DEF TripInv
  <2> QED BY <2>1, <2>3, <2>4
<1>6. CASE Feed
  <2>1. /\ policy' = policy /\ exposure' = exposure /\ trip' = trip /\ ~Fresh' /\ Fresh
        /\ pins' = pins /\ (pins.v5 <=> policy.out.v5)
    BY <1>6, PoweredIsLeased DEF Feed, Proceed, Fresh, Writing
  <2>2. Lag' = 0 /\ Lag <= WatchdogTimeout - 1
    BY <1>0, <1>6, Numbers, SMT DEF Feed, Proceed, Lag
  <2> HIDE DEF Lag
  <2>3. exposure <= WatchdogTimeout - 1 /\ (~MayStall => exposure = 0)
    <3>1. CASE pins.v5
      BY <1>0, <2>1, <2>2, <3>1, Numbers, SMT DEF TripInv
    <3>2. CASE ~pins.v5
      BY <1>0, <2>1, <3>2, Numbers, SMT DEF TripInv
    <3> QED BY <3>1, <3>2
  <2> QED BY <1>0, <2>1, <2>2, <2>3, Numbers, SMT DEF TripInv
<1> QED BY <1>2, <1>3, <1>4, <1>5, <1>6 DEF Task

(* ... and what the world around the task does to it. *)
LEMMA WorldTrip ==
  ASSUME CoreInv, LagInv, TripInv,
         TripChange \/ Stall \/ Resume \/ WatchdogReset \/ Elapse \/ UNCHANGED vars
  PROVE  TripInv'
<1>0. /\ wd \in Nat /\ Lag \in Nat /\ Lag <= WatchdogTimeout /\ exposure \in Nat
      /\ WatchdogTimeout >= 1
  BY TimeTypes
<1>1. CASE Stall \/ Resume \/ UNCHANGED vars
  <2>1. /\ policy' = policy /\ pins' = pins /\ wd' = wd /\ exposure' = exposure /\ trip' = trip
        /\ pc' = pc /\ after' = after
    BY <1>1 DEF Stall, Resume, vars, boardVars, taskVars, histVars
  <2> QED BY <2>1 DEF TripInv, Fresh, Lag
<1>2. CASE TripChange
  <2>1. exposure' = 0 /\ wd' = wd
    BY <1>2 DEF TripChange
  <2>2. Lag' = Lag
    BY <2>1 DEF Lag
  <2> HIDE DEF Lag
  <2> QED BY <1>0, <2>1, <2>2, Numbers, SMT DEF TripInv
<1>3. CASE WatchdogReset
  <2>1. exposure' = 0 /\ wd' = WatchdogTimeout
    BY <1>3 DEF WatchdogReset
  <2>2. Lag' = 0
    BY <2>1, Numbers, SMT DEF Lag
  <2> HIDE DEF Lag
  <2> QED BY <1>0, <2>1, <2>2, Numbers, SMT DEF TripInv
<1>4. CASE Elapse
  <2>1. /\ policy'.out = policy.out /\ trip' = trip
        /\ pins' = pins /\ pc' = pc /\ after' = after /\ wd' = wd - 1
        /\ exposure' = IF trip /\ pins.v5 /\ exposure < ExposureCap THEN exposure + 1 ELSE exposure
        /\ ~MayStall => ~Fresh
    BY <1>4, AgedKeeps DEF Elapse, CoreInv, LagInv, boardVars, Fresh, Writing
  <2>2. Lag' = Lag + 1 /\ exposure' <= exposure + 1 /\ exposure' \in Nat /\ (Fresh' <=> Fresh)
    BY <1>0, <2>1, Numbers, SMT DEF Lag, Fresh
  <2> HIDE DEF Lag
  <2>3. ~trip' \/ ~pins'.v5 => exposure' = 0
    BY <2>1 DEF TripInv
  <2>4. exposure' <= (WatchdogTimeout - 1) + Lag' /\ (~MayStall => exposure' <= Lag')
    BY <1>0, <2>2, Numbers, SMT DEF TripInv
  <2>5. Fresh' /\ policy'.out.v5 => MayStall /\ exposure' <= Lag'
    BY <1>0, <2>1, <2>2, Numbers, SMT DEF TripInv
  <2> QED BY <2>3, <2>4, <2>5 DEF TripInv
<1> QED BY <1>1, <1>2, <1>3, <1>4

-----------------------------------------------------------------------------
(* The answers. *)

(* What a command asks for, if it is to succeed. *)
Granted(c, p) ==
  /\ c.op = "five_volt_on" => p.out.v5
  /\ c.op = "reset_release" => ~p.out.rst
  /\ c.op \in {"five_volt_off", "clear_fault", "disarm", "arm"} => p.out = Safe
  /\ c.op = "reset_assert" => p.out.rst
  /\ c.op = "fan" => p.out.fan = c.percent
  /\ c.op \in {"arm", "heartbeat"} => p.state = "Controlled"

(* A command is under way only between its packet and its answer; from the *)
(* decision to the answer the policy does not change, so that what it has  *)
(* granted is still what it requests when the pins have been written.      *)
AnswerInv ==
  /\ after \notin {"exec", "answer"} => cmd = NoCommand
  /\ pc \in {"read", "tach"} => after \notin {"exec", "answer"}
  /\ pc = "respond" => after # "exec"
  /\ after = "answer" /\ res = "Ok" => Granted(cmd, policy)

(* No command asks for nothing. *)
LEMMA NothingGranted == ASSUME NEW p PROVE Granted(NoCommand, p)
BY DEF Granted, NoCommand

(* The policy after ensure_controlled() has the outputs it had before.     *)
LEMMA Ensured ==
  ASSUME NEW p0, PolicyInv(p0)
  PROVE  LET p == Tick(p0, Present, p0.trip)
             q == EnsureControlled(p, Present).policy
         IN  /\ PolicyInv(p) /\ p.out \in Outputs
             /\ PolicyInv(q) /\ q.out \in Outputs
<1> DEFINE p == Tick(p0, Present, p0.trip)
<1>1. Present \in Time
  BY Numbers
<1>2. PolicyInv(p) /\ ~Expired(p, Present)
  BY <1>1, Ticked
<1>3. PolicyInv(EnsureControlled(p, Present).policy)
  BY <1>1, <1>2, EnsureControlledEffect
<1> QED BY <1>2, <1>3 DEF PolicyInv, Policy

(* Success is reported of what has been granted, command by command.       *)
LEMMA OkIsGranted ==
  ASSUME NEW s, PolicyInv(s), s.stage = "TripLatch", NEW c \in Commands,
         Perform(s, c).res = "Ok"
  PROVE  Granted(c, Perform(s, c).policy)
<1> DEFINE p == Tick(s, Present, s.trip)
           e == EnsureControlled(p, Present)
           q == e.policy
           r == Perform(s, c)
<1>1. PolicyInv(p) /\ p \in Policy /\ p.out \in Outputs /\ PolicyInv(q) /\ q \in Policy /\ q.out \in Outputs
  BY Ensured DEF PolicyInv
<1>2. c.op \in Ops \cup {"fan"}
  BY DEF Commands
<1>3. CASE c.op = "arm"
  <2>1. r = Arm(s, Present)
    BY <1>3 DEF Perform
  <2>2. r.policy.out = Safe /\ r.policy.state = "Controlled"
    <3> DEFINE d == IF EnforcesLease(p) THEN LeaseFrom(Present) ELSE NoLease
    <3> HIDE DEF p
    <3>1. p.state # "FaultLatched" /\ ~(EnforcesTrip(p) /\ p.trip)
      BY <2>1 DEF Arm, Refuse, p
    <3>2. r.policy = [p EXCEPT !.out = Safe, !.state = "Controlled", !.deadline = d]
      BY <2>1, <3>1 DEF Arm, Ok, p
    <3> QED BY <1>1, <3>2 DEF Policy
  <2> QED BY <1>3, <2>2 DEF Granted
<1>4. CASE c.op = "heartbeat"
  <2>1. r = Heartbeat(s, Present)
    BY <1>4 DEF Perform
  <2>2. r.policy.state = "Controlled"
    <3> DEFINE d == LeaseFrom(Present)
    <3> HIDE DEF p
    <3>1. p.state = "Controlled"
      BY <2>1 DEF Heartbeat, Refuse, p
    <3>2. r.policy = p \/ r.policy = [p EXCEPT !.deadline = d]
      BY <2>1, <3>1 DEF Heartbeat, Ok, p
    <3> QED BY <1>1, <3>1, <3>2 DEF Policy
  <2> QED BY <1>4, <2>2 DEF Granted
<1>5. CASE c.op = "five_volt_on"
  <2>1. r = RequestFiveVolt(s, TRUE, Present)
    BY <1>5 DEF Perform
  <2>2. r.policy.out.v5
    <3> HIDE DEF q
    <3>1. r.policy = [q EXCEPT !.out.v5 = TRUE]
      BY <2>1 DEF RequestFiveVolt, Refuse, Ok, q
    <3> QED BY <1>1, <3>1 DEF Policy, Outputs
  <2> QED BY <1>5, <2>2 DEF Granted
<1>6. CASE c.op = "five_volt_off"
  <2>1. r.policy = [p EXCEPT !.out = Safe]
    BY <1>6 DEF Perform, RequestFiveVolt, Ok
  <2>2. r.policy.out = Safe
    BY <1>1, <2>1 DEF Policy
  <2> QED BY <1>6, <2>2 DEF Granted
<1>7. CASE c.op = "reset_assert"
  <2>1. r.policy = [p EXCEPT !.out.rst = TRUE]
    BY <1>7 DEF Perform, RequestAsicReset, Ok
  <2>2. r.policy.out.rst
    BY <1>1, <2>1 DEF Policy, Outputs
  <2> QED BY <1>7, <2>2 DEF Granted
<1>8. CASE c.op = "reset_release"
  <2>1. r = RequestAsicReset(s, FALSE, Present)
    BY <1>8 DEF Perform
  <2>2. ~r.policy.out.rst
    <3> HIDE DEF q
    <3>1. r.policy = [q EXCEPT !.out.rst = FALSE]
      BY <2>1 DEF RequestAsicReset, Refuse, Ok, q
    <3> QED BY <1>1, <3>1 DEF Policy, Outputs
  <2> QED BY <1>8, <2>2 DEF Granted
<1>9. CASE c.op = "fan"
  <2>1. r = RequestFan(s, c.percent, Present)
    BY <1>9 DEF Perform
  <2>2. r.policy.out.fan = c.percent
    <3> HIDE DEF p, q
    <3>1. \/ c.percent = 100 /\ r.policy = [p EXCEPT !.out.fan = 100]
          \/ r.policy = [q EXCEPT !.out.fan = c.percent]
      BY <2>1 DEF RequestFan, Refuse, Ok, p, q
    <3> QED BY <1>1, <3>1 DEF Policy, Outputs
  <2> QED BY <1>9, <2>2 DEF Granted
<1>10. CASE c.op = "clear_fault"
  <2>1. r = ClearFault(s, Present)
    BY <1>10 DEF Perform
  <2>2. r.policy.out = Safe
    BY <2>1, Numbers, ClearFaultEffect
  <2> QED BY <1>10, <2>2 DEF Granted
<1>11. CASE c.op = "disarm"
  <2>1. r.policy = Disarm(s)
    BY <1>11 DEF Perform, Ok
  <2>2. r.policy.out = Safe
    BY <2>1 DEF Disarm, PolicyInv, Policy
  <2> QED BY <1>11, <2>2 DEF Granted
<1> QED BY <1>2, <1>3, <1>4, <1>5, <1>6, <1>7, <1>8, <1>9, <1>10, <1>11 DEF Ops

(* A decided command stays granted until it has been answered. *)
LEMMA AnswerStep ==
  ASSUME CoreInv, AnswerInv, [Next]_vars
  PROVE  AnswerInv'
<1> USE DEF AnswerInv, Running
<1>1. CASE ReadClock \/ Service
  BY <1>1 DEF ReadClock, Service, ServiceWith, CoreInv
<1>2. CASE Apply \/ SetV5 \/ SetRst \/ SetFan \/ OpenGate
  <2>1. policy' = policy /\ cmd' = cmd /\ res' = res /\ after' = after /\ pc' \notin {"read", "tach"}
        /\ (pc' = "respond" => after = "answer")
    BY <1>2 DEF Apply, ApplyUnless, Applied, SetV5, SetRst, SetFan, OpenGate
  <2> QED BY <2>1
<1>3. CASE Feed
  BY <1>3 DEF Feed, Proceed
<1>4. CASE ReadNothing \/ ReadQuery \/ ReadCommand \/ ReadTach
  BY <1>4, NothingGranted DEF ReadNothing, ReadQuery, ReadCommand, ReadTach, Measure
<1>5. CASE TachService \/ TachDone
  BY <1>5 DEF TachService, TachDone
<1>6. CASE Exec
  <2>1. policy' = Perform(policy, cmd).policy /\ res' = Perform(policy, cmd).res /\ cmd' = cmd
        /\ after' = "answer" /\ pc' = "apply" /\ cmd \in Commands
    BY <1>6 DEF Exec, Decide, CoreInv
  <2>2. res' = "Ok" => Granted(cmd, policy')
    BY <2>1, OkIsGranted DEF CoreInv
  <2> QED BY <2>1, <2>2
<1>7. CASE Respond
  BY <1>7 DEF Respond
<1>8. CASE TripChange \/ Stall \/ Resume \/ UNCHANGED vars
  BY <1>8 DEF TripChange, Stall, Resume, vars, taskVars
<1>9. CASE WatchdogReset
  BY <1>9 DEF WatchdogReset
<1>10. CASE Elapse
  <2>1. /\ policy'.out = policy.out /\ policy'.state = policy.state
        /\ pc' = pc /\ after' = after /\ cmd' = cmd /\ res' = res
    BY <1>10, AgedKeeps DEF Elapse, CoreInv
  <2> QED BY <2>1 DEF Granted
<1> QED BY <1>1, <1>2, <1>3, <1>4, <1>5, <1>6, <1>7, <1>8, <1>9, <1>10 DEF Next, Task

(* A granted command shows on the pins when the task answers. *)
LEMMA AnswerSound ==
  ASSUME CoreInv, PinsInv, AnswerInv
  PROVE  AnswerTrue
<1> SUFFICES ASSUME pc = "respond", res = "Ok"
             PROVE  /\ cmd.op = "five_volt_on" => pins.v5 /\ pins.fan = 100
                    /\ cmd.op = "reset_release" => pins.v5 /\ pins.rstN /\ rx
                    /\ cmd.op \in {"five_volt_off", "clear_fault", "disarm", "arm"}
                         => pins = BootPins /\ ~rx
                    /\ cmd.op = "reset_assert" => ~pins.rstN /\ ~rx
                    /\ cmd.op = "fan" => pins.fan = cmd.percent
                    /\ cmd.op \in {"arm", "heartbeat"} => policy.state = "Controlled"
  BY DEF AnswerTrue
<1>1. Granted(cmd, policy)
  <2>1. CASE after = "answer"
    BY <2>1 DEF AnswerInv
  <2>2. CASE after # "answer"
    BY <2>2, NothingGranted DEF AnswerInv
  <2> QED BY <2>1, <2>2
<1>2. /\ OrderedOutputs(policy.out) /\ policy.out \in Outputs
      /\ pins = [v5 |-> policy.out.v5, rstN |-> ~policy.out.rst, fan |-> policy.out.fan]
      /\ rx = Forwards(policy.out)
  BY PinsSound, RequestsOrdered DEF PinsFollowPolicy
<1>3. policy.out = Safe => pins = BootPins /\ ~rx
  <2>1. Safe.v5 = FALSE /\ (~Safe.rst) = FALSE /\ Safe.fan = 100
    BY DEF Safe
  <2> QED BY <1>2, <2>1 DEF BootPins, Forwards
<1> QED BY <1>1, <1>2, <1>3 DEF Granted, OrderedOutputs, Forwards

-----------------------------------------------------------------------------
(* The theorems. *)

IInv == CoreInv /\ PinsInv /\ TimeInv

(* Every reachable state satisfies the inductive invariant: types and      *)
(* policy, the pins between and during the writes, and the time since the  *)
(* last feed, the last renewal and the last low sample of the trip.        *)
THEOREM ControlInvariance == Spec => []IInv
<1>1. Init => IInv
  <2> SUFFICES ASSUME Init PROVE IInv
    OBVIOUS
  <2>1. policy.out = Safe /\ applied = {} /\ pins = BootPins /\ rx = FALSE /\ pc = "service"
    BY FirmwareInv DEF Init
  <2> QED BY <2>1, InitCore, BootShows, InitTime DEF IInv
<1>2. IInv /\ [Next]_vars => IInv'
  <2> SUFFICES ASSUME IInv, [Next]_vars PROVE IInv'
    OBVIOUS
  <2>1. CoreInv /\ PinsInv /\ LagInv /\ HostInv /\ TripInv
    BY DEF IInv, TimeInv
  <2>2. CASE Task
    BY <2>1, <2>2, TaskCore, TaskPins, TaskLag, TaskHost, TaskTrip DEF IInv, TimeInv
  <2>3. CASE TripChange \/ Stall \/ Resume \/ WatchdogReset \/ Elapse \/ UNCHANGED vars
    BY <2>1, <2>3, WorldCore, WorldPins, WorldLag, WorldHost, WorldTrip DEF IInv, TimeInv
  <2> QED BY <2>2, <2>3 DEF Next
<1> QED BY <1>1, <1>2, PTL DEF Spec

(* The state is always of its type. *)
THEOREM ControlTypeCorrect == Spec => []TypeOK
<1>1. IInv => TypeOK
  BY DEF IInv, CoreInv
<1> QED BY <1>1, ControlInvariance, PTL

(* ASIC RX is forwarded only while the ASIC is powered and out of reset,   *)
(* after every pin write.                                                  *)
THEOREM GateFollowsPower == Spec => []RxGated
<1>1. IInv => RxGated
  BY PinsSound DEF IInv
<1> QED BY <1>1, ControlInvariance, PTL

(* The pins keep the power order at every instant. *)
THEOREM PinsOrdered == Spec => []PinOrder
<1>1. IInv => PinOrder
  BY PinsSound DEF IInv
<1> QED BY <1>1, ControlInvariance, PTL

(* The pins are those of the policy whenever the task feeds or waits. *)
THEOREM PinsAreApplied == Spec => []PinsFollowPolicy
<1>1. IInv => PinsFollowPolicy
  BY PinsSound DEF IInv
<1> QED BY <1>1, ControlInvariance, PTL

(* A request is answered with success only when the pins, or for a renewal *)
(* the state of the policy, are as requested.                              *)
THEOREM TrueAnswers == Spec => []AnswerTrue
<1>1. Init => AnswerInv
  BY NothingGranted DEF Init, AnswerInv
<1>2. IInv /\ AnswerInv /\ [Next]_vars => AnswerInv'
  BY AnswerStep DEF IInv
<1>3. IInv /\ AnswerInv => AnswerTrue
  BY AnswerSound DEF IInv
<1> QED BY <1>1, <1>2, <1>3, ControlInvariance, PTL DEF Spec

(* However the task stalls, 5 V is off within the lease and two watchdog   *)
(* periods of the last renewal.                                            *)
THEOREM SilentHostBound == Spec => []EnergisedBound
<1>1. IInv => EnergisedBound
  BY DEF IInv, TimeInv, HostInv, EnergisedBound, Lag
<1> QED BY <1>1, ControlInvariance, PTL

(* However the task stalls, 5 V does not stay on for two watchdog periods  *)
(* of a trip.                                                              *)
THEOREM TripExposureBound == Spec => []TripBound
<1>1. IInv => TripBound
  BY DEF IInv, TimeInv, TripInv, TripBound, Lag
<1> QED BY <1>1, ControlInvariance, PTL

(* A task that keeps running is never bitten by the watchdog, and has 5 V  *)
(* off within one service gap of the end of the lease and of a trip.       *)
LEMMA RunningTaskIsPrompt ==
  ASSUME ~MayStall, IInv
  PROVE  NeverStarved /\ PromptOff /\ PromptTrip
<1>1. /\ CoreInv /\ Lag <= ServiceGap /\ exposure <= Lag
      /\ pins.v5 => sinceHost < LeaseTimeout + Lag
  BY DEF IInv, TimeInv, LagInv, TripInv, HostInv
<1>2. Lag = WatchdogTimeout - wd
  BY DEF Lag
<1>3. wd \in Nat /\ Lag \in Nat /\ sinceHost \in Nat /\ exposure \in Nat
  BY <1>1, TimeTypes
<1>4. NeverStarved
  BY <1>1, <1>2, <1>3, Gaps, Numbers, SMT DEF NeverStarved
<1> HIDE DEF Lag
<1>5. PromptTrip
  BY <1>1, <1>3, Gaps, SMT DEF PromptTrip
<1>6. PromptOff
  BY <1>1, <1>3, Gaps, Numbers, SMT DEF PromptOff
<1> QED BY <1>4, <1>5, <1>6

(* A task that keeps running is never bitten by the watchdog. *)
THEOREM RunningTaskIsFed ==
  ASSUME ~MayStall
  PROVE  Spec => []NeverStarved
<1>1. IInv => NeverStarved
  BY RunningTaskIsPrompt
<1> QED BY <1>1, ControlInvariance, PTL

(* It has 5 V off within one service gap of the end of the lease ...       *)
THEOREM LeaseEndIsPrompt ==
  ASSUME ~MayStall
  PROVE  Spec => []PromptOff
<1>1. IInv => PromptOff
  BY RunningTaskIsPrompt
<1> QED BY <1>1, ControlInvariance, PTL

(* ... and within one of a trip that stays. *)
THEOREM TripIsPrompt ==
  ASSUME ~MayStall
  PROVE  Spec => []PromptTrip
<1>1. IInv => PromptTrip
  BY RunningTaskIsPrompt
<1> QED BY <1>1, ControlInvariance, PTL
=============================================================================
