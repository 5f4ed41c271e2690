---------------------------- MODULE BridgeControl ----------------------------
(***************************************************************************)
(* The control task of src/control: one executor task owns the safety      *)
(* policy, the 5 V, reset and fan outputs and the watchdog, and is the     *)
(* only one that feeds it.  Around each await it services safety: sample   *)
(* the trip, tick the policy, write the pins that changed, feed.           *)
(*                                                                         *)
(* Time.  Every clock in the model counts down from now, so that the state *)
(* stays finite: policy.deadline is the time the lease has left, and the   *)
(* policy is called with Present for the clock (SafetyProofs shows that a  *)
(* policy does not notice).  A millisecond passes only while the           *)
(* task awaits something, or while it is stalled; the durations below are  *)
(* the longest the task takes, executor latency included, when it is not.  *)
(***************************************************************************)
EXTENDS Safety

CONSTANTS
  ReadTime,         \* a read_packet that returns nothing (4 ms)
  WriteTime,        \* write_response (CONTROL_WRITE_TIMEOUT_MS)
  HandlerTime,      \* from service_safety() to the handler's own now_ms()
  ServiceInterval,  \* between two services while measuring the tachometer
  TachTime,         \* the whole tachometer measurement
  WatchdogTimeout,
  MayStall          \* whether the task may stop running, for a time or for good

ASSUME TimingAssumption ==
  /\ {ReadTime, WriteTime, HandlerTime, ServiceInterval, TachTime, WatchdogTimeout} \subseteq Nat
  /\ 0 < LeaseTimeout /\ LeaseTimeout <= U64Max
  /\ MayStall \in BOOLEAN

(* The longest time without a service when the task is not stalled: a read *)
(* that ends in a command answered from memory, a read before the tach     *)
(* loop, or a handler and its answer.                                      *)
ServiceGap ==
  LET Longer(a, b) == IF a >= b THEN a ELSE b
  IN  Longer(Longer(ReadTime, HandlerTime) + WriteTime, ReadTime + ServiceInterval)

ASSUME WatchdogAssumption == ServiceGap < WatchdogTimeout

VARIABLES
  policy,    \* Controller.safety
  applied,   \* Controller.applied_outputs: {} for None, {o} for Some(o)
  pins,      \* the levels of V5_EN, ASIC_RST (RST_N) and the fan command
  rx,        \* whether ASIC RX forwarding is enabled
  trip,      \* the level of the ASIC_TRIP input
  pc,        \* where the task is
  clock,     \* what the lease had left at the clock reading of a service, NoLease outside
  after,     \* where it goes when the outputs have been applied
  cmd,       \* the command being handled, NoCommand when none is
  res,       \* the Result of the last command, until its answer is written
  timer,     \* what is left of the current await
  tach,      \* what is left of the tachometer measurement
  wd,        \* what is left of the watchdog
  stalled,   \* the task does not run
  sinceHost, \* history: time since ARM or HEARTBEAT was last accepted
  exposure   \* history: time 5 V has been on with the trip high throughout

boardVars == <<pins, rx>>
taskVars  == <<pc, clock, after, cmd, res, timer, tach>>
histVars  == <<sinceHost, exposure>>
vars == <<policy, applied, pins, rx, trip, pc, clock, after, cmd, res, timer, tach, wd, stalled,
          sinceHost, exposure>>

Present == 0

(* The bounds of the history variables: past them nothing is told apart.   *)
HostCap  == LeaseTimeout + 2 * WatchdogTimeout
ExposureCap == 2 * WatchdogTimeout

Ops == {"arm", "heartbeat", "five_volt_on", "five_volt_off", "reset_assert",
        "reset_release", "clear_fault", "disarm"}

(* from_bytes() lets a fan speed above 100 through to no handler. *)
Commands == [op : Ops, percent : {100}]
            \cup [op : {"fan"}, percent : {f \in FanPercents : f <= 100}]
NoCommand == [op |-> "none", percent |-> 100]

Pins == [v5 : BOOLEAN, rstN : BOOLEAN, fan : FanPercents]

Places == {"service", "sample", "apply", "setV5", "setRst", "setFan", "openGate", "feed",
           "read", "exec", "respond", "tach"}
Returns == {"top", "read", "exec", "tach", "tachDone", "answer"}

TypeOK ==
  /\ policy \in Policy
  /\ applied \in {{}} \cup {{o} : o \in Outputs}
  /\ pins \in Pins
  /\ rx \in BOOLEAN /\ trip \in BOOLEAN /\ stalled \in BOOLEAN
  /\ clock \in Time \cup {NoLease}
  /\ pc \in Places /\ after \in Returns
  /\ cmd \in Commands \cup {NoCommand}
  /\ res \in Errors \cup {"Ok"}
  /\ timer \in Nat /\ tach \in 0 .. TachTime
  /\ wd \in 0 .. WatchdogTimeout
  /\ sinceHost \in 0 .. HostCap
  /\ exposure \in 0 .. ExposureCap

BootPins == [v5 |-> FALSE, rstN |-> FALSE, fan |-> 100]

(* main() and Controller::new(): the pins are created at their safe levels *)
(* and the outputs count as never applied.                                 *)
Init ==
  /\ policy = Firmware
  /\ applied = {}
  /\ pins = BootPins
  /\ rx = FALSE
  /\ trip \in BOOLEAN
  /\ pc = "service" /\ clock = NoLease /\ after = "top"
  /\ cmd = NoCommand /\ res = "Ok"
  /\ timer = 0 /\ tach = 0
  /\ wd = WatchdogTimeout
  /\ stalled = FALSE
  /\ sinceHost = HostCap
  /\ exposure = 0

-----------------------------------------------------------------------------
(* A step of the task: it runs, and the watchdog has not bitten. *)
Running(place) == pc = place /\ ~stalled /\ wd > 0

(* service_safety() reads the clock: what counts is how much the lease has *)
(* left at that time.                                                      *)
ReadClock ==
  /\ Running("service")
  /\ clock' = policy.deadline
  /\ pc' = "sample"
  /\ UNCHANGED <<policy, applied, boardVars, trip, after, cmd, res, timer, tach, wd, stalled,
                 histVars>>

(* The policy ticks with the clock that was read.  A lease that it finds   *)
(* running goes on from now, whatever has passed since.                    *)
TickAtReading(level) ==
  LET t == Tick([policy EXCEPT !.deadline = clock], Present, level)
  IN  IF t.deadline = NoLease THEN t ELSE [t EXCEPT !.deadline = policy.deadline]

ServiceWith(level) ==
  /\ Running("sample")
  /\ policy' = TickAtReading(level)
  /\ clock' = NoLease
  /\ pc' = "apply"
  /\ UNCHANGED <<applied, boardVars, trip, after, cmd, res, timer, tach, wd, stalled, histVars>>

BugService == ServiceWith(policy.trip)    \* the level of the last service

(* Then it samples the trip and ticks. *)
Service == ServiceWith(trip)

Forwards(o) == o.v5 /\ ~o.rst

(* Where the task goes when apply_safety_outputs() returns. *)
Applied ==
  IF after = "answer" THEN pc' = "respond" /\ timer' = WriteTime
                      ELSE pc' = "feed" /\ UNCHANGED timer

(* Writes the outputs, with the gate at g meanwhile, unless they are known *)
(* to be in place.                                                         *)
ApplyUnless(inPlace, g) ==
  /\ Running("apply")
  /\ IF inPlace THEN Applied /\ UNCHANGED rx
                ELSE pc' = "setV5" /\ rx' = g /\ UNCHANGED timer
  /\ UNCHANGED <<policy, applied, pins, trip, clock, after, cmd, res, tach, wd, stalled,
                 histVars>>

BugApply ==      \* a latched fault counts as in place
  ApplyUnless(applied = {Effective(policy)} \/ policy.state = "FaultLatched",
              rx /\ Forwards(Effective(policy)))

BugApplyGate ==  \* leaves the gate open until the pins are written
  ApplyUnless(applied = {Effective(policy)}, rx)

Apply == ApplyUnless(applied = {Effective(policy)}, rx /\ Forwards(Effective(policy)))

SetV5 ==
  /\ Running("setV5")
  /\ pins' = [pins EXCEPT !.v5 = Effective(policy).v5]
  /\ exposure' = IF pins'.v5 THEN exposure ELSE 0
  /\ pc' = "setRst"
  /\ UNCHANGED <<policy, applied, rx, trip, clock, after, cmd, res, timer, tach, wd, stalled,
                 sinceHost>>

BugSetRst ==     \* RST_N driven with the level of "asserted"
  /\ Running("setRst")
  /\ pins' = [pins EXCEPT !.rstN = Effective(policy).rst]
  /\ pc' = "setFan"
  /\ UNCHANGED <<policy, applied, rx, trip, clock, after, cmd, res, timer, tach, wd, stalled,
                 histVars>>

SetRst ==
  /\ Running("setRst")
  /\ pins' = [pins EXCEPT !.rstN = ~Effective(policy).rst]
  /\ pc' = "setFan"
  /\ UNCHANGED <<policy, applied, rx, trip, clock, after, cmd, res, timer, tach, wd, stalled,
                 histVars>>

SetFan ==
  /\ Running("setFan")
  /\ pins' = [pins EXCEPT !.fan = Effective(policy).fan]
  /\ pc' = "openGate"
  /\ UNCHANGED <<policy, applied, rx, trip, clock, after, cmd, res, timer, tach, wd, stalled,
                 histVars>>

OpenGate ==
  /\ Running("openGate")
  /\ rx' = (rx \/ Forwards(Effective(policy)))
  /\ applied' = {Effective(policy)}
  /\ Applied
  /\ UNCHANGED <<policy, pins, trip, clock, after, cmd, res, tach, wd, stalled, histVars>>

(* What the service was for comes next: the loop's own service ("top"),    *)
(* the read, the rest of a handler, the tach loop, or the answer after it. *)
Proceed ==
  /\ \/ after = "top" /\ pc' = "service" /\ after' = "read" /\ timer' = 0
     \/ after = "read" /\ pc' = "read" /\ timer' = ReadTime /\ UNCHANGED after
     \/ after = "exec" /\ pc' = "exec" /\ timer' = HandlerTime /\ UNCHANGED after
     \/ after = "tach" /\ pc' = "tach" /\ timer' = ServiceInterval /\ UNCHANGED after
     \/ after = "tachDone" /\ pc' = "respond" /\ timer' = WriteTime /\ UNCHANGED after
  /\ UNCHANGED <<policy, applied, boardVars, trip, clock, cmd, res, tach, stalled, histVars>>

BugFeed ==       \* only the loop feeds, the services of handlers do not
  Running("feed") /\ wd' = (IF after \in {"top", "read"} THEN WatchdogTimeout ELSE wd) /\ Proceed

(* watchdog.feed(), the end of service_safety(). *)
Feed == Running("feed") /\ wd' = WatchdogTimeout /\ Proceed

-----------------------------------------------------------------------------
(* read_packet() returns. *)

(* Nothing, part of a packet, or a UART error: around the loop again. *)
ReadNothing ==
  /\ Running("read")
  /\ pc' = "service" /\ after' = "read" /\ timer' = 0
  /\ UNCHANGED <<policy, applied, boardVars, trip, clock, cmd, res, tach, wd, stalled,
                 histVars>>

(* A packet that is refused at once (bad length, bad command, stale part), *)
(* or a command that is answered without servicing safety: GET_INFO,       *)
(* GET_RX_STATS, GET_SAFETY_STATUS and the reads of the pins.              *)
ReadQuery ==
  /\ Running("read")
  /\ pc' = "respond" /\ after' = "answer" /\ timer' = WriteTime
  /\ UNCHANGED <<policy, applied, boardVars, trip, clock, cmd, res, tach, wd, stalled,
                 histVars>>

(* A command whose handler begins with service_safety(). *)
ReadCommand ==
  /\ Running("read")
  /\ cmd' \in Commands
  /\ pc' = "service" /\ after' = "exec" /\ timer' = 0
  /\ UNCHANGED <<policy, applied, boardVars, trip, clock, res, tach, wd, stalled, histVars>>

Measure(total, interval) ==
  /\ Running("read")
  /\ pc' = "tach" /\ tach' = total /\ timer' = interval
  /\ UNCHANGED <<policy, applied, boardVars, trip, clock, after, cmd, res, wd, stalled,
                 histVars>>

BugReadTach      == Measure(TachTime, TachTime)              \* never services safety
BugReadTachTwice == Measure(2 * TachTime, ServiceInterval)   \* takes twice its time

(* GET_TACH: measure_fan_rpm() begins without a service of its own. *)
ReadTach == Measure(TachTime, ServiceInterval)

TachService ==
  /\ Running("tach") /\ timer = 0 /\ tach > 0
  /\ pc' = "service" /\ after' = "tach"
  /\ UNCHANGED <<policy, applied, boardVars, trip, clock, cmd, res, timer, tach, wd, stalled,
                 histVars>>

TachDone ==
  /\ Running("tach") /\ tach = 0
  /\ pc' = "service" /\ after' = "tachDone" /\ timer' = 0
  /\ UNCHANGED <<policy, applied, boardVars, trip, clock, cmd, res, tach, wd, stalled,
                 histVars>>

-----------------------------------------------------------------------------
(* The method of the policy that a command calls. *)
Perform(p, c) ==
  CASE c.op = "arm"           -> Arm(p, Present)
    [] c.op = "heartbeat"     -> Heartbeat(p, Present)
    [] c.op = "five_volt_on"  -> RequestFiveVolt(p, TRUE, Present)
    [] c.op = "five_volt_off" -> RequestFiveVolt(p, FALSE, Present)
    [] c.op = "reset_assert"  -> RequestAsicReset(p, TRUE, Present)
    [] c.op = "reset_release" -> RequestAsicReset(p, FALSE, Present)
    [] c.op = "fan"           -> RequestFan(p, c.percent, Present)
    [] c.op = "clear_fault"   -> ClearFault(p, Present)
    [] c.op = "disarm"        -> Ok(Disarm(p))

(* The policy decides. *)
Decide ==
  LET r == Perform(policy, cmd)
  IN  /\ Running("exec")
      /\ policy' = r.policy
      /\ res' = r.res
      /\ sinceHost' = IF r.res = "Ok" /\ cmd.op \in {"arm", "heartbeat"} THEN 0 ELSE sinceHost
      /\ UNCHANGED <<applied, boardVars, trip, clock, cmd, tach, wd, stalled, exposure>>

BugExecEarly ==      \* answers before the outputs are applied
  Decide /\ pc' = "respond" /\ after' = "answer" /\ timer' = WriteTime

BugExecSilent ==     \* a refused command gets no answer
  Decide /\ pc' = "apply" /\ after' = (IF res' = "Ok" THEN "answer" ELSE "top") /\ timer' = 0

(* The rest of a handler: the policy decides, apply_safety_outputs() runs, *)
(* and only then is the Result turned into an answer.                      *)
Exec == Decide /\ pc' = "apply" /\ after' = "answer" /\ timer' = 0

(* write_response() has written the answer, failed, or run into its        *)
(* timeout; either way it services safety, and so does the loop after it.  *)
Respond ==
  /\ Running("respond")
  /\ pc' = "service" /\ after' = "top" /\ timer' = 0
  /\ cmd' = NoCommand /\ res' = "Ok"
  /\ UNCHANGED <<policy, applied, boardVars, trip, clock, tach, wd, stalled, histVars>>

-----------------------------------------------------------------------------
(* The world around the task. *)

TripChange ==
  /\ wd > 0
  /\ trip' = ~trip
  /\ exposure' = 0
  /\ UNCHANGED <<policy, applied, boardVars, taskVars, wd, stalled, sinceHost>>

(* The task hangs (a panic, a lost wakeup, an interrupt that never ends),  *)
(* or is kept from running for a while.                                    *)
Stall ==
  /\ MayStall /\ ~stalled /\ wd > 0
  /\ stalled' = TRUE
  /\ UNCHANGED <<policy, applied, boardVars, trip, taskVars, wd, histVars>>

Resume ==
  /\ stalled /\ wd > 0
  /\ stalled' = FALSE
  /\ UNCHANGED <<policy, applied, boardVars, trip, taskVars, wd, histVars>>

(* The watchdog starts the firmware again, with the pins at boot levels.   *)
WatchdogReset ==
  /\ wd = 0
  /\ policy' = Firmware
  /\ applied' = {}
  /\ pins' = BootPins
  /\ rx' = FALSE
  /\ pc' = "service" /\ clock' = NoLease /\ after' = "top"
  /\ cmd' = NoCommand /\ res' = "Ok"
  /\ timer' = 0 /\ tach' = 0
  /\ wd' = WatchdogTimeout
  /\ stalled' = FALSE
  /\ exposure' = 0
  /\ UNCHANGED <<trip, sinceHost>>

Less(n) == IF n > 0 THEN n - 1 ELSE 0
Aged(p) == IF p.deadline > 0 THEN [p EXCEPT !.deadline = @ - 1] ELSE p

(* A millisecond passes.  It cannot while the task has something to do and *)
(* runs.                                                                   *)
Elapse ==
  /\ wd > 0
  /\ stalled \/ (pc \in {"read", "exec", "respond", "tach"} /\ timer > 0
                 /\ (pc = "tach" => tach > 0))
  /\ policy' = Aged(policy)
  /\ timer' = Less(timer)
  /\ tach' = IF pc = "tach" THEN Less(tach) ELSE tach
  /\ wd' = wd - 1
  /\ sinceHost' = IF sinceHost < HostCap THEN sinceHost + 1 ELSE sinceHost
  /\ exposure' = IF trip /\ pins.v5 /\ exposure < ExposureCap THEN exposure + 1 ELSE exposure
  /\ UNCHANGED <<applied, boardVars, trip, clock, pc, after, cmd, res, stalled>>

Task ==
  \/ ReadClock \/ Service \/ Apply \/ SetV5 \/ SetRst \/ SetFan \/ OpenGate \/ Feed
  \/ ReadNothing \/ ReadQuery \/ ReadCommand \/ ReadTach
  \/ TachService \/ TachDone \/ Exec \/ Respond

Next == Task \/ TripChange \/ Stall \/ Resume \/ WatchdogReset \/ Elapse

Spec == Init /\ [][Next]_vars

-----------------------------------------------------------------------------
(* Safety. *)

(* ASIC RX is forwarded only while the ASIC is powered and out of reset,   *)
(* after every single pin write and not just when the writes are done: the *)
(* gate closes before the pins go down and opens after they have come up.  *)
RxGated == rx => pins.v5 /\ pins.rstN

(* The pins obey the power order at every instant: 5 V only under full     *)
(* fan, and reset released only with 5 V on, but for the moment between    *)
(* the two writes on the way down.                                         *)
PinOrder ==
  /\ pins.v5 => pins.fan = 100
  /\ pins.rstN /\ ~pins.v5 => pc = "setRst"

(* Whenever the task feeds the watchdog or waits for the host, the pins    *)
(* and the gate are those of the effective outputs: the cache of applied   *)
(* outputs never skips a write that was needed.                            *)
PinsFollowPolicy ==
  pc \in {"feed", "read", "exec", "respond", "tach"} =>
    LET o == Effective(policy)
    IN  /\ pins = [v5 |-> o.v5, rstN |-> ~o.rst, fan |-> o.fan]
        /\ rx = Forwards(o)

(* The answer tells the host what the board does: a request is answered    *)
(* with success only when the pins, or for a renewal the state of the      *)
(* policy, are as requested at that time.                                  *)
AnswerTrue ==
  pc = "respond" /\ res = "Ok" =>
    /\ cmd.op = "five_volt_on" => pins.v5 /\ pins.fan = 100
    /\ cmd.op = "reset_release" => pins.v5 /\ pins.rstN /\ rx
    /\ cmd.op \in {"five_volt_off", "clear_fault", "disarm", "arm"} => pins = BootPins /\ ~rx
    /\ cmd.op = "reset_assert" => ~pins.rstN /\ ~rx
    /\ cmd.op = "fan" => pins.fan = cmd.percent
    /\ cmd.op \in {"arm", "heartbeat"} => policy.state = "Controlled"

(* However the task stalls and resumes, 5 V is off within the lease and    *)
(* two watchdog periods of the last accepted ARM or HEARTBEAT.  One period *)
(* is not enough: a service that sampled and ticked in time may be held up *)
(* before it feeds.                                                        *)
EnergisedBound ==
  pins.v5 => sinceHost < LeaseTimeout + (WatchdogTimeout - 1) + (WatchdogTimeout - wd)

(* The same for a trip: 5 V does not stay on under a trip that lasts two   *)
(* watchdog periods.                                                       *)
TripBound ==
  pins.v5 => exposure <= (WatchdogTimeout - 1) + (WatchdogTimeout - wd)

-----------------------------------------------------------------------------
(* Safety of a task that is not stalled (MayStall = FALSE). *)

(* The watchdog never bites a task that runs: no path through reading,     *)
(* handling, answering and measuring leaves it unfed for too long.         *)
NeverStarved == wd > 0

(* 5 V is off within one service gap of the end of the lease.              *)
PromptOff == pins.v5 => sinceHost < LeaseTimeout + ServiceGap

(* 5 V is off within one service gap of a trip that stays.                 *)
PromptTrip == exposure <= ServiceGap

-----------------------------------------------------------------------------
(* Liveness.  The executor polls a ready task, the watchdog bites, and     *)
(* time goes on: bytes of a UART arrive one after the other, so a task     *)
(* that goes around its loop for ever takes for ever.                      *)

LiveSpec == Spec /\ WF_vars(Task) /\ WF_vars(WatchdogReset) /\ SF_vars(Elapse)

(* A host that falls silent leaves a board without 5 V, stalled or not.    *)
FailClosed == []<>(sinceHost = 0) \/ <>[]~pins.v5

(* So does a trip that stays. *)
TripStopsPower == <>[]trip => <>[]~pins.v5

(* A command that has been decided upon is done with at some time: its     *)
(* answer has been written, or the attempt has ended in an error or in the *)
(* timeout, or the firmware has been started again.                        *)
CommandAnswered == pc = "exec" ~> cmd = NoCommand
=============================================================================
