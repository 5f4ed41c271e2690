------------------------------ MODULE PioUart ------------------------------
(***************************************************************************)
(* The 9N1 link to the ASIC, cycle by cycle: the two PIO programs of       *)
(* PioUart::new() in src/pio_uart.rs, and the clock divider and the        *)
(* sampling of src/uart_timing.rs.                                         *)
(*                                                                         *)
(* A sender and the receive program are connected by a line.  The sender   *)
(* is the transmit program, or an ASIC whose frames follow each other      *)
(* without a pause; its clock may be off.  A step is one system clock: a   *)
(* state machine executes a PIO cycle when its fractional divider, which   *)
(* counts in 256ths, overflows.                                            *)
(*                                                                         *)
(* The full RX FIFO and what DMA does with it are in AsicRxRing.           *)
(***************************************************************************)
EXTENDS Integers, Sequences

CONSTANTS
  SystemClock,      \* clk_sys_freq(), in units that make both small
  Baudrate,         \* ASIC_DATA_BAUDRATE
  SenderDividers,   \* dividers of the sender: as ours, or off by some percent
  Phases,           \* where the receiver's divider may stand at first
  Words,            \* bound: the words sent, sequences of nine bits, bit 0 first
  SentCap,          \* bound: words of a behaviour
  IdleCap           \* bound: cycles for which the sender has nothing to send before the last

CyclesPerBit == 8

ClockDividerBits(clock, baud) == (clock * 256) \div (baud * CyclesPerBit)

Divider == ClockDividerBits(SystemClock, Baudrate)

ASSUME PioAssumption ==
  /\ {SystemClock, Baudrate, SentCap} \subseteq Nat \ {0} /\ IdleCap \in Nat
  /\ SenderDividers \subseteq {d \in Nat : d >= 256} /\ Divider >= 256
  /\ Phases \subseteq 0 .. Divider - 1
  /\ Words \subseteq [1 .. 9 -> {0, 1}]

VARIABLES
  program,    \* what the sender runs
  divider,    \* the sender's divider
  tx,         \* the sender
  rx,         \* the receive state machine
  powered,    \* whether the sender drives the line
  idle,       \* bound: cycles without a word
  sent,       \* history: words pulled
  received,   \* history: words pushed while powered
  strays      \* history: words pushed without power

vars == <<program, divider, tx, rx, powered, idle, sent, received, strays>>

-----------------------------------------------------------------------------
(* Programs.  An instruction takes 1 + delay cycles; side is the level that *)
(* it puts on the pin, if any.  A jump goes to the instruction before it.   *)

Keep == 2

Instr(op, side, delay) == [op |-> op, side |-> side, delay |-> delay]

Sender(pullDelay, stopDelay) ==
  << Instr("pull", 1, pullDelay),    \* idle high
     Instr("set",  0, 7),            \* the start bit
     Instr("out",  Keep, 6),
     Instr("jmp",  Keep, 0),
     Instr("nop",  1, stopDelay) >>  \* the stop bit

TxProgram == Sender(7, 7)

(* One stop bit and no more: a tail that a frame may end in at the least.  *)
AsicProgram == Sender(0, 6)

BugRxProgram ==   \* samples an eighth of a bit late
  << Instr("wait0", Keep, 0), Instr("set", Keep, 11), Instr("in", Keep, 6),
     Instr("jmp", Keep, 0), Instr("wait1", Keep, 0) >>

BugRxProgramNoStop ==   \* does not wait for the stop bit
  << Instr("wait0", Keep, 0), Instr("set", Keep, 10), Instr("in", Keep, 6),
     Instr("jmp", Keep, 0) >>

RxProgram ==
  << Instr("wait0", Keep, 0),        \* the start bit
     Instr("set",   Keep, 10),       \* to the middle of the first data bit
     Instr("in",    Keep, 6),
     Instr("jmp",   Keep, 0),
     Instr("wait1", Keep, 0) >>      \* the stop bit

Machine(phase) ==
  [pc |-> 1, delay |-> 0, x |-> 0, bits |-> <<>>, pin |-> 1, acc |-> phase]

Init ==
  /\ program \in {TxProgram, AsicProgram} /\ divider \in SenderDividers
  /\ tx = Machine(0) /\ \E p \in Phases : rx = Machine(p)
  /\ powered = TRUE /\ idle = 0 /\ sent = <<>> /\ received = <<>> /\ strays = 0

-----------------------------------------------------------------------------
(* A PIO cycle. *)

Line == IF powered THEN tx.pin ELSE 0

(* The machine m goes on behind its instruction i; program p wraps. *)
Done(m, i, p) == [m EXCEPT !.pc = (@ % Len(p)) + 1, !.delay = i.delay]

Side(m, i) == IF i.side = Keep THEN m ELSE [m EXCEPT !.pin = i.side]

(* jmp x--, back to the instruction before. *)
Jump(m, i, p) == IF m.x = 0 THEN Done(m, i, p)
                 ELSE [m EXCEPT !.pc = @ - 1, !.x = @ - 1, !.delay = i.delay]

(* An instruction that waits for nothing; autopush takes the ninth bit.    *)
Plain(m, i, p) ==
  CASE i.op = "nop" -> Done(m, i, p)
    [] i.op = "set" -> Done([m EXCEPT !.x = 8], i, p)
    [] i.op = "jmp" -> Jump(m, i, p)
    [] i.op = "out" -> Done([m EXCEPT !.pin = m.bits[1], !.bits = Tail(@)], i, p)
    [] i.op = "in"  -> Done([m EXCEPT !.bits = IF Len(@) = 8 THEN <<>> ELSE Append(@, Line)], i, p)
    [] i.op = "wait0" -> IF Line = 0 THEN Done(m, i, p) ELSE m
    [] i.op = "wait1" -> IF Line = 1 THEN Done(m, i, p) ELSE m

Cycle(m, p) == IF m.delay > 0 THEN [m EXCEPT !.delay = @ - 1]
               ELSE Plain(Side(m, p[m.pc]), p[m.pc], p)

(* One system clock of a machine. *)
Due(m, d) == m.acc + 256 >= d
Clock(m, d) == [m EXCEPT !.acc = (@ + 256) % d]

Pulling == Due(tx, divider) /\ tx.delay = 0 /\ program[tx.pc].op = "pull"

(* A pull without a word waits, with the line high. *)
StepTx ==
  IF ~powered THEN UNCHANGED <<tx, idle, sent>>
  ELSE IF ~Pulling
  THEN /\ tx' = IF Due(tx, divider) THEN Clock(Cycle(tx, program), divider)
                                    ELSE Clock(tx, divider)
       /\ UNCHANGED <<idle, sent>>
  ELSE LET i == program[tx.pc]
           waiting == Clock(Side(tx, i), divider)
       IN  \/ /\ tx' = waiting
              /\ \/ Len(sent) = SentCap /\ UNCHANGED idle
                 \/ idle < IdleCap /\ idle' = idle + 1
              /\ UNCHANGED sent
           \/ /\ Len(sent) < SentCap
              /\ \E w \in Words : /\ tx' = [Done(waiting, i, program) EXCEPT !.bits = w]
                                  /\ sent' = Append(sent, w)
              /\ UNCHANGED idle

(* The word that this clock completes, if any. *)
Pushes == /\ Due(rx, Divider) /\ rx.delay = 0
          /\ RxProgram[rx.pc].op = "in" /\ Len(rx.bits) = 8

StepRx ==
  /\ rx' = IF Due(rx, Divider) THEN Clock(Cycle(rx, RxProgram), Divider) ELSE Clock(rx, Divider)
  /\ received' = IF Pushes /\ powered THEN Append(received, Append(rx.bits, Line)) ELSE received
  /\ strays' = IF Pushes /\ ~powered /\ strays < 2 THEN strays + 1 ELSE strays

Step == StepTx /\ StepRx /\ UNCHANGED <<program, divider, powered>>

(* The ASIC loses its power, and the line goes low. *)
PowerOff ==
  /\ powered /\ powered' = FALSE
  /\ tx' = Machine(0) /\ idle' = 0 /\ sent' = <<>> /\ received' = <<>>
  /\ UNCHANGED <<program, divider, rx, strays>>

Next == Step \/ PowerOff

Spec == Init /\ [][Next]_vars

-----------------------------------------------------------------------------
(* The words come out as they went in, in order, none lost and none made   *)
(* up, at every phase of the two clocks and with the sender a little fast  *)
(* or slow; when the sender is about to begin another word, all but that   *)
(* one are there.                                                          *)
WordsArrive ==
  /\ Len(received) <= Len(sent)
  /\ received = SubSeq(sent, 1, Len(received))
  /\ powered /\ tx.pc = 1 => Len(received) = Len(sent)

(* How far off the clock of a sender may be.  The last data bit is sampled *)
(* in the 77th cycle behind the edge of the start bit, not before the 72   *)
(* cycles that the other bits take have gone by on the line; and the stop  *)
(* bit is taken in the 85th, before the 88 of the shortest frame.  Either  *)
(* divider is late by almost a cycle (254 of 256ths) at the most.          *)
Tolerated == \A d \in SenderDividers : /\ 72 * d + 254 < 76 * Divider
                                       /\ 85 * Divider + 254 < 88 * d

(* A line that has gone low for good makes at most one word: the receiver  *)
(* then waits for a stop bit.                                              *)
DeadLineSilent == strays <= 1
=============================================================================
