# Verification of the Bonanza bridge firmware

TLA+ specifications of the RP2040 bridge firmware `bonanza-bridge-fw`, the TLC
configurations that check them on small instances, and TLAPS proofs of the
properties that matter most for every value of the constants. Paths such as
`src/safety.rs` are relative to the repository root.

## The system

The firmware sits between an ESP32 host and a mining ASIC. One embassy executor
runs three tasks: the control task (UART0 packets, safety, power pins,
watchdog), the task that forwards host bytes to the ASIC, and the task that
forwards ASIC bytes to the host. Tasks interleave only at `await`s; interrupts
and DMA run at any time.

| Component | State | Operations | Talks to |
|---|---|---|---|
| Safety policy, `src/safety.rs` | stage, state, fault, requested outputs, last trip level, lease deadline | `tick`, `arm`, `heartbeat`, `request_*`, `clear_fault`, `disarm`, `status` | called by the control task only |
| Control task, `src/control/` | the policy, the outputs last applied, the pins, the watchdog, the packet under way | `service_safety`, `apply_safety_outputs`, the command handlers, `measure_fan_rpm`, `write_response` | policy (calls), pins, RX gate (call), host (UART0) |
| Packet framing, `src/control/mod.rs` | 4098 byte buffer and its fill level | `read_packet`, `try_extract_packet` | host bytes in, commands out |
| ASIC receive path, `src/pio_uart.rs`, `src/uart.rs` | PIO FIFO, DMA ring and counters, generation, gate flag and signal | gate on and off, `receive_buffered_rx_chunk`, overflow counters | gated by the control task; DMA; host (UART1) |
| ASIC transmit path, `src/uart.rs`, `src/uart_codec.rs` | the pending low byte | `decode`, the forwarding loop | host bytes in, nine-bit words out |
| PIO programs, `src/pio_uart.rs` | two state machines | shift a word out, sample a word | the ASIC's line, the PIO FIFOs |
| Pure calculations, `src/uart_timing.rs`, `src/safety_timing.rs` | none | clock divider, ring window, rpm | called by the above |
| Encodings, `src/rx_stats.rs`, `src/info.rs`, `src/image_manifest.rs` | none | fixed byte layouts | control task, linker |
| `ByteBatch` in `src/uart_codec.rs`, `build.rs` | none used by the firmware | | |

What is hard here, and what makes each component correct:

* **Policy.** Four fields are kept together by hand in seven methods that
  refuse, latch or return early. It must never request an unsafe combination,
  never lose or change a latched fault, never renew a lapsed lease, and never
  report a good verdict over a bad state, whatever the order of calls and
  whenever the clock reads the end of the lease.
* **Control task.** Outputs are three separate writes and a gate; they are
  skipped when a cache says they are in place; the watchdog is fed after a
  sample that may be old by then. 5 V must go off in bounded time after a host
  falls silent or a trip rises, whether the task runs, is held up, or hangs.
* **Receive path.** A DMA channel writes while a task reads, sessions are cut by
  the gate, counters run out and wrap. No word of one powered session may be
  delivered in another, none may be invented, loss must be counted.
* **Framing and decoder.** Streams are cut at arbitrary places, bytes are lost;
  both must find their way back into step, and framing must stay within its
  buffer.
* **PIO programs.** Two clocks that are not the same count cycles with a divider
  that is not whole; every bit of every word must be sampled within itself, and
  a line that goes dead must not be read for ever.

`PROJECT.json` lists the hazards line by line, with the properties that cover
each.

## What is modelled

| Module | Models | Built on |
|---|---|---|
| `Safety` | every method of `SafetyPolicy` as an operator from policy to policy and `Result` | |
| `SafetyPolicy` | the policy under an arbitrary caller and a clock that saturates | `Safety`, `PowerLadder` |
| `PowerLadder` | abstract: outputs on a ladder, climbed one rung at a time under a live lease | |
| `BridgeControl` | the control task, its pins, the RX gate, the watchdog, the world around it | `Safety` |
| `AsicRxRing` | the receive path: PIO FIFO, DMA channel and ring, the gate, the receive task | `RxSessions` |
| `RxSessions` | abstract: chunks of one session each, taken while the gate is open | |
| `ControlFraming` | packets cut out of a stream of bytes, and the host and line that make it | |
| `NineBitDecoder` | pairs of bytes decoded into nine-bit words, read by read | |
| `PioUart` | the two PIO programs and the divider, cycle by cycle | |
| `MCSafetyPolicy`, `MCBridgeControl`, `MCAsicRxRing`, `MCControlFraming`, `MCNineBitDecoder`, `MCPioUart` | instances for TLC | |
| `SafetyProofs` | lemmas: what each call of the policy does; the policy keeps no clock | `Safety` |
| `SafetyPolicyProofs` | theorems about `SafetyPolicy`, the ladder among them | `SafetyProofs` |
| `BridgeControlProofs` | theorems about `BridgeControl` | `SafetyProofs` |
| `AsicRxRingProofs`, `AsicRxCopyProofs` | theorems about `AsicRxRing` | |
| `ControlFramingProofs` | theorems about `ControlFraming` | |
| `NineBitDecoderProofs` | theorems about `NineBitDecoder` | |
| `PioUartProofs` | theorems about `PioUart` | |

**`Safety` and `SafetyPolicy`.** A policy is a record with the fields of the
struct; `lease_deadline_ms = None` is `NoLease`. Each operator follows its
method line by line: the tick with the last sampled level first, the guards and
early returns in their order, saturation at `U64Max`, the clamp to `U32Max`.
`SafetyPolicy` calls any method in any order with any trip level; `last` records
the call and its `Result` and is the model's own. Capabilities and evidence are
sets instead of bit masks; the byte layout of a status is left out.

**`BridgeControl`.** `pc` says where the task is, `after` where it goes when
`service_safety` or `apply_safety_outputs` returns. `ReadClock` is the
reading of the clock, `Service` the sample of the trip and the tick. They are two
steps, as a task held up between them ticks with an old time and a new level: the
variable `clock` keeps what the lease had left at the reading, and `TickAtReading`
lets the tick decide by that, while a lease that it finds running is still the
one whose time has gone on. Between the sample and the tick nothing outside is
read, so a stall there cannot be told from one after both. The same holds of the
reading of the clock in a handler and the call of the policy that uses it. `Apply`
is the comparison with the cache and the closing of the gate, `SetV5`, `SetRst` and `SetFan` the three writes,
`OpenGate` the end of `apply_safety_outputs`, `Feed` the watchdog. `ReadCommand`,
`Exec` and `Respond` carry a command from `read_packet` to `write_response`;
`ReadQuery` stands for packets answered without servicing safety;
`ReadTach`, `TachService` and `TachDone` are `measure_fan_rpm`. `TripChange`,
`Stall`, `Resume`, `WatchdogReset` and `Elapse` are the world: a trip that
changes at any instant, a task that hangs or is held up between any two steps,
the watchdog, and time. Each command is executed as one call of the policy on
the model's `Commands`; ids, lengths and payloads are left out.

Time counts down: `policy.deadline` is what is left of the lease and the policy
is called with 0 for the clock. That the policy cannot tell is not assumed but
proved (`PolicyKeepsNoClock`: every call commutes with counting the deadline
from the present, as long as the u64 clock has room for one more lease;
`CountingDownIsTime`: a millisecond later is one less). A millisecond passes only
inside an `await` or a stall: the durations of the awaits are constants, the
longest the task takes with executor latency included, so that everything the
task computes between awaits is accounted to the await before it. `sinceHost` and
`exposure` are history variables that no action reads.

**`AsicRxRing`.** A word is a record of its session (a period with the gate
open) and its number in it; the payload is left out. `Receive`, `Unstall`,
`Lose` and `Transfer` are PIO and DMA, which run at any time, also between two
steps of the gate and between two reads of the copy. The two tasks share one
executor: the control task starts only while the receive task is in an await
(`AtAwait`), the receive task leaves an await only while the gate is `"idle"`.
`Apply` is the change of outputs that `BridgeControl` models pin by pin, here
with what the receive path sees of it: power goes up before the gate opens, and
down after it has closed. `Stop`, `Disable`, `Drain`, `Open` and `Close` are the
register and counter writes of `set_buffered_rx_forwarding_enabled` in their
order. `pc` is the place of `asic_to_esp_task`: `"top"` the tests of the gate and
of the channel, `"gate"` and `"sleep"` its two awaits, `"snapshot"` and `"copy"`
`receive_buffered_rx_chunk` (one `Copy` per word), `"report"` the poll of the
overflow flag, `"count"` its clearing and counting, `"write"` the await in which
bytes go to the ESP. The flag is polled by `GET_RX_STATS` as well (`GetRxStats`
and `StatsCount`, the control task being at `"count"` between them); reading and
clearing are two register accesses, and PIO runs on between them. The comparison
of generations is the flag `fresh`, set by the snapshot and cleared by every
change of the generation. `DmaRingWindow` is `dma_ring_window` with its wrapping
subtractions. `untold`, `base`, `raced`, `forgotten`, `entered` and `got` are
history: whether the PIO has stalled since the FIFO counter last went up, and what
became of the words of the session.

**`ControlFraming`.** Bytes are numbers below `ByteBase`, and lengths are
assembled from two of them as in the code. `Extract` is the attempt at the top
of `read_packet`, `Read` a read of any length up to what is there and fits,
`ReadError` and `Timeout` the other two arms, `Answer` the handler and the
response, which take time but no bytes. The host begins packets, breaks off,
hesitates; bytes are lost on the line or in a full receive ring, which the UART
reports later as an error. `clean`, `sent` and `handled` are history: whether
host and reader are in step since the line was last silent, and what went in
and came out since then.

**`NineBitDecoder`.** `Decode` is `decode` on one read, with its output limit and
its treatment of what is left over; `Turn` is one turn of its loop, the byte
pending from the read before included; `Paired`, the reference, adds byte after
byte of the whole stream to a word, with no loop, buffer or limit. `Read` cuts the stream anywhere, `WriteWord`
is the write into the TX FIFO, `Send` and `Lose` are the host and the line. A
byte carries its place in a word and whether one was lost before it, which no
action of the task reads.

**`PioUart`.** One step is one system clock. A program is a sequence of
instructions with the side-set levels and delays of the assembly; a machine has
its place, delay, counter, shift register, pin and the accumulator of its
fractional divider. `ClockDividerBits` is the computation of `uart_timing.rs`.
The sender runs the transmit program, or sends frames with a single stop bit and
no pause, as the ASIC may; its divider may be off.

Operators named `Bug...` are plausible slips in the code next to which they
stand (a lost check, a swapped order, a missing feed). No specification uses
them; for each property of a run, `PROJECT.json` names one that the run notices.

## Runs

| Run | Instance | Shows |
|---|---|---|
| `policy_all_stages` | lease 2, clock 0..5, fan 40, 60, 100, 101; three stages, two capability sets | the invariants and action properties of the policy |
| `policy_ladder` | the same, stages Lease and TripLatch | the policy implements `PowerLadder` |
| `doc_controlled_exits` | TripLatch | a counterexample to the documented exits of CONTROLLED |
| `control_stall` | lease 2, watchdog 3, awaits of 1, tach 2, stalls | pins, gate, answers and worst-case bounds, stalls anywhere |
| `control_timing` | lease 4, watchdog 6, read 1, write 3, handler 1, interval 2, tach 5, no stalls | the watchdog is never starved, 5 V off within one service gap |
| `control_live` | as `control_stall`, with fairness | a board without a host, or under a lasting trip, ends without 5 V; a command is answered or the firmware restarts |
| `rx_ring` | ring 3, transfer count 6, FIFO 1, chunk 2, two sessions of 7 words | sessions stay apart, copies are exact, words are accounted for, stalls are reported |
| `rx_live` | ring 2, transfer count 3, FIFO 1, chunk 2, two sessions of 4 words, with fairness | the receive path implements `RxSessions`; an open gate ends with everything taken |
| `doc_overwrite_loss` | ring 2, transfer count 6, one session of 5 words | a counterexample to "exact overwrite loss" |
| `framing` | bytes of 8 values, buffer 8, receive ring 3, two packets of five kinds, one flaw, with fairness | packets are handled in order and once; silence brings the reader back into step |
| `decoder` | bytes of 3 values, reads of 4 into 2 words, receive ring 5, 8 bytes, two losses | cuts of the stream are invisible; the decoder realigns |
| `pio` | 25 clocks per bit, senders exact and 3 % slow and fast, 8 phases, two words | words arrive as sent; a dead line makes at most one word |

Why these bounds are enough. Policy: a lease of 2 has a reading before, at and
after its deadline, the clock of 5 has leases that saturate; the fan set has
values below, at and above 100, and two below so that one can replace the other.
Control: the order of the durations is that of the real ones (read below service
interval below write below lease, all below the watchdog); the lease and the
watchdog both can run out between any two steps. `EnergisedBound`, `TripBound`,
`PromptOff` and `PromptTrip` are tight: with one millisecond less TLC finds them
violated. `HostCap` and `ExposureCap` bound the history variables above every
value the properties tell apart.

Receive path: 7 words lap a ring of 3 twice and run a channel of 6 to its end
and into its second run; chunks of 2 are shorter than a full window, so a copy
may leave words behind and be overtaken before or after its first read; with two
sessions a word of the first may stand in the state machine, the FIFO, the ring
and the chunk when the second opens. `SessionCap` and `WordCap` bound the
behaviour, nothing in the code; `WordCap` bounds the stalls that are
counted, too (`Lose`). Framing: with eight values per byte a packet of
8 bytes has both bytes of its length in use and fills the buffer, as 4098 does
in the code; the receive ring is shorter than any packet and overflows while an
answer is written. Decoder: 8 bytes are two full reads or any finer cut; of the
three values two can be a bit 8 and one cannot; a loss may put it out of step
and another back. PIO: 125 MHz to 5 Mbaud is 25 clocks per bit, the firmware's
own ratio, with the divider 3 + 32/256 that does not divide them; two different
words follow each other with and without a pause.

All runs check for deadlock except `decoder`: there the host has sent all its
bytes in the end, and the tasks have nothing left to do.

Fairness (`LiveSpec`). Weak fairness of the task: the executor polls a task that
is ready; a stalled task takes no step and is owed none, `Resume` is never
promised. Weak fairness of the watchdog: hardware. Strong fairness of `Elapse`:
time passes as long as the firmware is in an `await` again and again; bytes come
over a UART one after the other, so a loop around `read_packet` takes time.

Receive path: weak fairness of `Unstall` and `Transfer`, which are hardware; of
`Begun`, because the control task ends without an await what it has begun, a
change of the gate or a count;
and of the receive task, whose timer expires and whose UART towards the ESP has
no flow control that could hold up a write. Nothing obliges the control task to
open or close the gate, or the ASIC to send. Framing: weak fairness of the task
(the executor polls it, its timer expires) and of `Send` (a byte on its way
arrives); the host owes nothing.

What the runs show that is worth a reader's attention:

* `EnergisedBound` is the lease plus *two* watchdog periods, not one: the task
  may sample, tick, and be held up just short of the watchdog before it feeds;
  that feed vouches for a sample that is old.
* `ExpiryErrorUnreachable`: the second expiry test in `ensure_controlled` never
  finds anything, as every caller has ticked with the same clock.
* `doc_controlled_exits`: `clear_fault` does not ask for a fault. On a healthy
  session it drops the outputs and the lease and returns to SAFE_OFF
  (`src/safety.rs:336-347`), while `docs/safety-interlock.md:47` lists `DISARM`,
  lease expiry and trip as the exits of CONTROLLED. The exit is a safe one.
* `doc_overwrite_loss`: `receive_buffered_rx_chunk` counts what was overwritten
  when it looked at the transfer counter, and then copies while DMA goes on
  (`src/pio_uart.rs:139-145`). With a full window the slots to be read are the
  next to be written: an old word is lost uncounted and a newer one delivered
  twice, whereas `README.md:202` promises "exact overwrite loss". Sessions stay
  apart in spite of it: the word that takes the place is of the same session.
  `CopyExact` and `Accounted` speak of sessions without such a copy (`raced`).
* The generation compared at the end of a copy never differs: the two tasks share
  one executor and there is no await inside (`Counted` in `AsicRxCopyProofs`).
  It would matter if the tasks ran on different cores or priorities.
* When the channel has run to its end, unread words are given up without being
  counted (`forgotten` in the model). `Accounted` says that this happens at the
  end of a run of the channel only; with the real transfer count that is once in
  2^31 - 1 words.
* `README.md:223-224` calls the overflow counts cumulative; every change of the
  gate clears them (`src/pio_uart.rs:85-86`).
* `src/uart_timing.rs:15-17` says that a state machine left active without power
  "can turn an unpowered low RX line into an endless stream of synthetic zero
  bytes". The receive program makes one word at the most, then waits for a stop
  bit (`src/pio_uart.rs:209`): `DeadLineSilent` holds in the run `pio` and is
  proved. The comment describes a program without that wait; the gate is what
  keeps the one word out of the next session (`SessionPure`). It is listed among
  the findings, with a run that passes.
* The FIFO counter counts polls that found the sticky flag set, not words: however
  many words a stall costs between two polls, it goes up by one. `StallReported`
  is what it does promise: no stall after the last count goes unnoticed at the
  next poll, even one that comes between the read of the flag and its clearing
  (that one is told by the count which follows at once).
* A refused call leaves the policy bit for bit as it was, requested outputs
  included (`RefusalIsInert`). The one exception is a lease that had lapsed
  unnoticed: the call's own tick latches it, unless the call is `clear_fault`,
  which has no tick before its refusal.
* `CommandAnswered` says that a command which has been decided upon is done with:
  its answer written, failed or timed out, or the firmware started again. It does
  not say that the host has received it.
* The receive program samples every bit within itself for a sender that is up to
  about 3 % off; with 3.5 % TLC finds words that do not arrive. `Tolerated` is
  what the proof needs and is close to the truth: at a divider of 800 it admits
  senders of 776 to 840; TLC finds words lost at 772 and 850, and none at the
  values it was run with between 774 and 844.
* After a lost byte the framing joins the end of one packet to the beginning of
  the next for as long as bytes keep coming; only 4 ms of silence end that
  (`Recovers`, and `InStep` from then on). A host that waits for its answers
  makes such silences by itself.
* The UART towards the host has no flow control, so the timeout of
  `write_response` does not expire in the middle of an answer for want of a
  reader; in `BridgeControl` it may expire all the same, and nothing depends on
  what had gone out.

## Proofs

All theorems are checked by `tlapm` to the last leaf, from the named
assumptions of the modules only: a lease that fits its u32, fan speeds that
include 100, a positive lease, a service gap shorter than the watchdog
(`Safety`, `SafetyPolicy`, `BridgeControl`); positive lengths and a transfer
count below 2^32 (`RingAssumption`); a shortest packet of at least 6 bytes that
fits the buffer (`FramingAssumption`); two bytes of input for each word of output
(`DecoderAssumption`: `serial_buf` has 64 bytes, `words` 32 words); a divider of
at least 1 (`PioAssumption`). `WordsAlwaysArrive` and `ThreePercent` name what
they ask of the sender's clock besides.

`SafetyProofs` proves, call by call, that `PolicyInv` is kept: types, fault and
state agree, lease and requests exist only in Controlled, requests are ordered,
a sampled trip is latched. None of these is inductive alone. Ordering needs
that nothing is requested outside Controlled (a fault that is cleared must not
uncover an old request); that needs the fault and the state to agree (`disarm`
decides by the fault).

`SafetyPolicyProofs` adds that no lease reaches further than one timeout, and
derives the invariants and action properties of the policy run for every
constant. `CallKeeps` is what each call but `clear_fault` keeps; its part on
refusals (`RefusalLeaves`) needs that a trip once sampled is latched, so that the
tick inside a call finds nothing new but the end of a lease (`TickAtRest`). `ImplementsLadder` maps every call to a step of the ladder or to none.
`PolicyKeepsNoClock`, in `SafetyProofs`, relates a policy at any time to the same
policy counted from that time.

`BridgeControlProofs` has one inductive invariant in three parts:

* `CoreInv`: types and `PolicyInv` of the task's policy, and that the clock
  reading a service is about to tick with gives the lease no less time than it
  has;
* `PinsInv`: there is an `a`, the outputs the board showed when the last write
  ended, such that each pin shows `a` until it is written and the effective
  outputs from then on, and, away from the writes, `a` *is* the effective
  outputs. The cache alone is not enough: it is empty until the first write.
* `TimeInv`: with `Lag` the time since the last feed, what is left of an await
  fits into what is left of the service gap; a lease with time left was renewed
  accordingly late, one at its end is at its end no longer than the feeds allow,
  less if the tick is fresh; and the same for the trip. Freshness (between tick
  and feed) is what distinguishes one watchdog period from two.

The theorems on gate, pins, both stall bounds and the three bounds of a task
that runs (`RunningTaskIsFed`, `LeaseEndIsPrompt`, `TripIsPrompt`, each for a
task that does not stall) follow. `TrueAnswers` has an invariant of its own,
`AnswerInv`: from the call of the policy until the answer is written, a result
of success means that the outputs of the policy are what the command asked for
(`Granted`). Only `PinsInv` takes that from the policy to the pins.

`AsicRxRingProofs` proves types, `SessionPure` and the refinement of `RxSessions`
from an invariant in two parts:

* `Order`: how the places of the two tasks, the steps of the gate, the state
  machine and the channel go together. It holds what the single executor gives:
  the receive task is away from its awaits only while the control task is not at
  the gate.
* `Pure`: what the state machine, the FIFO, the moved part of the ring and the
  unpublished chunk hold is of the open session. `SessionPure` speaks of the
  chunk alone, and is not inductive without the places that it comes from.

Under the mapping `Taken` a chunk exists in the abstract from its publication on;
`Publish` is `Take`, a byte written `Hand`, everything that PIO, DMA and the copy
do is a stutter.

`AsicRxCopyProofs` adds five parts. `Numbered`: the words of the session are
numbered through, the latest in the ring, then FIFO, then the stalled state
machine. `Copied`: what is not yet copied is still in the ring unless DMA has
overtaken the copy; the arithmetic behind it is `SlotsApart`, that indices less
than a ring apart have different slots. `Counted`: up to the first word not yet
settled every word was taken, counted or given up, and nothing beyond was taken,
so that a published window adds exactly its length to the set of the words taken
(`GrowsBy`). `Rounds`: a channel stops, and is started again, only after all its
transfers. The last is `StallReported` itself, which is inductive.
`CopiesAreExact`, `WordsAreAccountedFor` and `StallsAreReported` follow.

`ControlFramingProofs` proves types, among them that the fill level stays within
the buffer, and `RoomToRead`. The invariant adds `Tried`: a task that waits for
bytes has tried to extract a packet in vain. Without it nothing keeps a complete
packet from filling the buffer while the task waits.

`InStepAlways` is its main theorem: since the last silence of the line, and while
nothing was lost, the packets handled are the first of those sent, and the rest of
them is exactly what lies in the buffer, in the receive ring and ahead of the
host. `InStep` is a statement about a concatenation of any number of packets
(`Flat`). The argument: the fold that `Flat` is agrees with its running sums
(`SumsExist`, `SumsAgree`), so that a packet can be added behind (`FlatAppend`)
or taken off in front (`FlatFirst`); what `try_extract_packet` reads as the length
at the head of a stream of good packets is the length of the first of them, as
soon as the buffer reaches far enough to tell (`HeadPacket`); so it cuts out that
packet and leaves the stream of the others. `Sound` adds what `InStep` needs
besides: all packets of the stream are good ones, a host that hesitates has
spoilt the step, and out of step both histories are empty.

`NineBitDecoderProofs` proves its three invariants.

* `ChunksNeverShow`: `Recursion` shows that the recursive functions of `Decoded`
  and `Paired` exist and satisfy their equations. `Reached` is the invariant of
  the loop: the output and the pending byte are those of the reference after the
  bytes used up, and there is room for as many words as the bytes left over can
  make. `TurnReaches` proves it of one turn, `DecodeReaches` of a whole call.
  `ReadSafe` appends the call to the stream that was read before.
* `StepIsFound`: `InTurn`, checked by TLC on the run's instance and proved
  inductive, says what the host keeps to: low bytes and bits 8 take turns where
  none was lost. From a low byte on that cannot be a bit 8 the reference then
  meets every low byte with its own bit 8 (`ThenMet`, `ThenAligned`,
  `StaysAligned`), whatever was lost before.

`PioUartProofs` has an invariant in two parts. `Sending`, `Receiving` and `Stray`
place the two machines one by one: which instruction, counter and register go
together (`SenderDelays` and `ReceiverDelays` the rests of their dividers).
`DeadLineSilence` follows: a machine that has sampled nothing but zeros waits for
a stop bit. `Link` puts the two clocks side by side. In a frame each machine has
a time in 256ths of a system clock, its cycle times its divider and the rest in
its accumulator; both grow by 256 a clock, and so their distance stays within the
255 at which the receiver saw the start bit (`InTime`, `NotEarly`). Bit `k` is on
the line from cycle 8 + 8k to cycle 16 + 8k of the sender and is sampled in cycle
13 + 8k of the receiver; `Margins` shows that `Tolerated` keeps the one inside the
other, and the receiver back at its first instruction before the next start bit.
`LoopbackArrives` and `ThreePercent` are the two cases a reader will ask for: the
same divider, and a sender 3 % off either way from a divider of 706/256 on
(5 Mbaud has 800/256).

Induction. The prover cannot instantiate the induction theorems of the library,
whose hypothesis is an operator. Where something is proved of every number of
bytes or packets, it is by a set of numbers instead (`NatSet`: a set that has 0
and the successor of each of its members has all of `Nat`). The recursion of the
decoder is written as functions, not as `RECURSIVE` operators, for that reason.

Only model-checked: the liveness properties `FailClosed`, `TripStopsPower`,
`CommandAnswered`, `Drained` and `Recovers` (fairness and ENABLED are beyond the
prover). Every invariant and every action property of the passing runs is a
theorem, and so are both refinements. The two documented claims of the violation
runs are refuted by TLC and have no proof.

## Plan

Done, in this order: `Safety`, `SafetyPolicy`, `PowerLadder` and `BridgeControl`
with their theorems; `AsicRxRing` with `RxSessions`; `ControlFraming`;
`NineBitDecoder`; `PioUart`; the proofs of the receive path, of the framing, of
the answers, of the decoder and of the PIO programs.

Left:

1. `BridgeControl` with the gate of `AsicRxRing` in place of its flag. Today the
   two meet in an assumption of `AsicRxRing` that `BridgeControl` proves: power
   is up before the gate opens and down after it has closed (`RxGated`).
2. The lower bound of the clock tolerance: `Tolerated` is sufficient, and the
   values at which words are lost are known from TLC only.

## Not modelled

* Byte layouts of status, statistics, information, manifest and of the answers'
  payloads: fixed, without state, and compared byte by byte by the host tests.
* `fan_rpm_from_half_second_pulses`: a product checked for overflow.
* The functions of `PioUart` that the firmware does not use: `set_baudrate`,
  `try_write`, `read_u16` and the like.
* `ByteBatch`: no user. `build.rs`: runs on the build host.
* The wrap of the loss counters and of the generation, u32 counters that would
  need 2^32 losses or changes of the gate. The subtraction of transfer counts,
  where the width matters, wraps in the model.
* The clock's own end (2^64 ms) in `BridgeControl`; in `SafetyPolicy` it is
  modelled.
* The payload of an ASIC word in `AsicRxRing`; `PioUart` has the bits.
