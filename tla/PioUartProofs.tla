--------------------------- MODULE PioUartProofs ---------------------------
(***************************************************************************)
(* Theorems about PioUart for every system clock, baud rate and divider:   *)
(* a line that goes dead makes one word at the most, and words arrive as   *)
(* they were sent from every sender whose clock is within the tolerance.   *)
(***************************************************************************)
EXTENDS PioUart, SequenceTheorems, TLAPS

-----------------------------------------------------------------------------
(* The programs, instruction by instruction. *)

(* The receive program. *)
LEMMA RxProgramIs ==
  /\ Len(RxProgram) = 5
  /\ RxProgram[1] = Instr("wait0", Keep, 0)
  /\ RxProgram[2] = Instr("set", Keep, 10)
  /\ RxProgram[3] = Instr("in", Keep, 6)
  /\ RxProgram[4] = Instr("jmp", Keep, 0)
  /\ RxProgram[5] = Instr("wait1", Keep, 0)
BY DEF RxProgram

(* Both senders: they differ in how long they pull and how long they stop. *)
LEMMA SenderIs ==
  ASSUME NEW pullDelay, NEW stopDelay
  PROVE  LET p == Sender(pullDelay, stopDelay)
         IN  /\ Len(p) = 5
             /\ p[1] = Instr("pull", 1, pullDelay)
             /\ p[2] = Instr("set", 0, 7)
             /\ p[3] = Instr("out", Keep, 6)
             /\ p[4] = Instr("jmp", Keep, 0)
             /\ p[5] = Instr("nop", 1, stopDelay)
BY DEF Sender

-----------------------------------------------------------------------------
(* The two machines, whatever the clocks. *)

Bits == {0, 1}
Machines == [pc : 1 .. 5, delay : 0 .. 10, x : 0 .. 8, bits : Seq(Bits), pin : Bits, acc : Nat]

(* What a sender may run, and where its machine stands: bits that are      *)
(* still to be shifted out go with the count in x.                         *)
Sending ==
  /\ program = TxProgram \/ program = AsicProgram
  /\ divider \in SenderDividers
  /\ powered \in BOOLEAN
  /\ tx \in Machines /\ tx.acc < divider
  /\ tx.pc = 2 => Len(tx.bits) = 9
  /\ tx.pc = 3 => Len(tx.bits) = tx.x + 1
  /\ tx.pc = 4 => Len(tx.bits) = tx.x

(* The receiver: bits that have been shifted in go with the count in x.    *)
Receiving ==
  /\ rx \in Machines /\ rx.acc < Divider
  /\ rx.pc \in {1, 2, 5} => rx.bits = <<>>
  /\ rx.pc = 3 => Len(rx.bits) + rx.x = 8
  /\ rx.pc = 4 => \/ rx.bits = <<>> /\ rx.x = 0
                  \/ Len(rx.bits) + rx.x = 9 /\ rx.x >= 1

(* After a word without power the receiver is on its way to the stop bit.  *)
Stray ==
  /\ strays \in {0, 1}
  /\ powered => strays = 0
  /\ strays = 1 => rx.pc \in {4, 5} /\ (rx.pc = 4 => rx.x = 0)

(* The constants. *)
LEMMA Params ==
  /\ \A d \in SenderDividers : d \in Nat /\ d >= 256
  /\ Divider \in Int /\ Divider >= 256
  /\ Phases \subseteq 0 .. Divider - 1
<1>1. SystemClock \in Nat \ {0} /\ Baudrate \in Nat \ {0}
  BY PioAssumption
<1>2. Divider \in Int
  BY <1>1 DEF Divider, ClockDividerBits, CyclesPerBit
<1> QED BY <1>2, PioAssumption

(* A machine by its parts. *)
At(pc, delay, x, bits, pin, acc) ==
  [pc |-> pc, delay |-> delay, x |-> x, bits |-> bits, pin |-> pin, acc |-> acc]

(* A cycle of the receiver. *)
LEMMA RxCycle ==
  ASSUME Receiving
  PROVE  LET m == Cycle(rx, RxProgram)
         IN  /\ rx.delay > 0 =>
                  m = At(rx.pc, rx.delay - 1, rx.x, rx.bits, rx.pin, rx.acc)
             /\ rx.delay = 0 /\ rx.pc = 1 =>
                  m = At(IF Line = 0 THEN 2 ELSE 1, 0, rx.x, <<>>, rx.pin, rx.acc)
             /\ rx.delay = 0 /\ rx.pc = 2 =>
                  m = At(3, 10, 8, <<>>, rx.pin, rx.acc)
             /\ rx.delay = 0 /\ rx.pc = 3 =>
                  m = At(4, 6, rx.x, IF Len(rx.bits) = 8 THEN <<>> ELSE Append(rx.bits, Line),
                         rx.pin, rx.acc)
             /\ rx.delay = 0 /\ rx.pc = 4 =>
                  m = At(IF rx.x = 0 THEN 5 ELSE 3, 0, IF rx.x = 0 THEN 0 ELSE rx.x - 1,
                         rx.bits, rx.pin, rx.acc)
             /\ rx.delay = 0 /\ rx.pc = 5 =>
                  m = At(IF Line = 1 THEN 1 ELSE 5, 0, rx.x, <<>>, rx.pin, rx.acc)
<1> DEFINE P(i) == Plain(rx, i, RxProgram)
<1> USE DEF Receiving, Machines
<1>1. CASE rx.delay > 0
  BY <1>1, SMTT(30) DEF Cycle, At
<1>2. ASSUME rx.delay = 0 PROVE Cycle(rx, RxProgram) = P(RxProgram[rx.pc])
  BY <1>2, RxProgramIs DEF Cycle, Side, Instr, Keep
<1>3. CASE rx.delay = 0 /\ rx.pc = 1
  <2>1. P(RxProgram[1]) = IF Line = 0 THEN [rx EXCEPT !.pc = 2, !.delay = 0] ELSE rx
    BY <1>3, RxProgramIs DEF Plain, Instr, Done
  <2>2. P(RxProgram[1]) = At(IF Line = 0 THEN 2 ELSE 1, 0, rx.x, <<>>, rx.pin, rx.acc)
    BY <1>3, <2>1 DEF At
  <2> QED BY <1>2, <1>3, <2>2
<1>4. CASE rx.delay = 0 /\ rx.pc = 2
  <2> DEFINE r == [rx EXCEPT !.x = 8]
  <2>0. P(RxProgram[2]) = Done(r, RxProgram[2], RxProgram)
    BY RxProgramIs DEF Plain, Instr
  <2>a. r.pc = 2
    BY <1>4
  <2>b. RxProgram[2].delay = 10
    BY RxProgramIs DEF Instr
  <2>1. P(RxProgram[2]) = [r EXCEPT !.pc = 3, !.delay = 10]
    <3> HIDE DEF r, P
    <3> QED BY <2>0, <2>a, <2>b, RxProgramIs DEF Done
  <2>2. P(RxProgram[2]) = At(3, 10, 8, <<>>, rx.pin, rx.acc)
    BY <1>4, <2>1 DEF At
  <2> QED BY <1>2, <1>4, <2>2
<1>5. CASE rx.delay = 0 /\ rx.pc = 3
  <2> DEFINE b == IF Len(rx.bits) = 8 THEN <<>> ELSE Append(rx.bits, Line)
  <2> DEFINE r == [rx EXCEPT !.bits = b]
  <2>0. P(RxProgram[3]) = Done(r, RxProgram[3], RxProgram)
    BY RxProgramIs DEF Plain, Instr
  <2>a. r.pc = 3
    BY <1>5
  <2>b. RxProgram[3].delay = 6
    BY RxProgramIs DEF Instr
  <2>1. P(RxProgram[3]) = [r EXCEPT !.pc = 4, !.delay = 6]
    <3> HIDE DEF r, P
    <3> QED BY <2>0, <2>a, <2>b, RxProgramIs DEF Done
  <2>2. P(RxProgram[3]) = At(4, 6, rx.x, b, rx.pin, rx.acc)
    BY <1>5, <2>1 DEF At
  <2> QED BY <1>2, <1>5, <2>2
<1>6. CASE rx.delay = 0 /\ rx.pc = 4
  <2>1. P(RxProgram[4]) = IF rx.x = 0 THEN [rx EXCEPT !.pc = 5, !.delay = 0]
                          ELSE [rx EXCEPT !.pc = 3, !.x = rx.x - 1, !.delay = 0]
    BY <1>6, RxProgramIs DEF Plain, Instr, Done, Jump
  <2>2. P(RxProgram[4]) = At(IF rx.x = 0 THEN 5 ELSE 3, 0, IF rx.x = 0 THEN 0 ELSE rx.x - 1,
                             rx.bits, rx.pin, rx.acc)
    BY <1>6, <2>1 DEF At
  <2> QED BY <1>2, <1>6, <2>2
<1>7. CASE rx.delay = 0 /\ rx.pc = 5
  <2>1. P(RxProgram[5]) = IF Line = 1 THEN [rx EXCEPT !.pc = 1, !.delay = 0] ELSE rx
    BY <1>7, RxProgramIs DEF Plain, Instr, Done
  <2>2. P(RxProgram[5]) = At(IF Line = 1 THEN 1 ELSE 5, 0, rx.x, <<>>, rx.pin, rx.acc)
    BY <1>7, <2>1 DEF At
  <2> QED BY <1>2, <1>7, <2>2
<1> HIDE DEF P
<1> QED BY <1>1, <1>3, <1>4, <1>5, <1>6, <1>7

(* What the two senders do not share. *)
PullDelay == program[1].delay
StopDelay == program[5].delay

(* The sender's program, whichever of the two it is. *)
LEMMA ProgramIs ==
  ASSUME Sending
  PROVE  /\ Len(program) = 5
         /\ <<PullDelay, StopDelay>> \in {<<7, 7>>, <<0, 6>>}
         /\ program[1] = Instr("pull", 1, PullDelay)
         /\ program[2] = Instr("set", 0, 7)
         /\ program[3] = Instr("out", Keep, 6)
         /\ program[4] = Instr("jmp", Keep, 0)
         /\ program[5] = Instr("nop", 1, StopDelay)
<1>1. CASE program = TxProgram
  <2>1. program = Sender(7, 7)
    BY <1>1 DEF TxProgram
  <2>2. program[1] = Instr("pull", 1, 7) /\ program[5] = Instr("nop", 1, 7)
    BY <2>1, SenderIs
  <2>3. PullDelay = 7 /\ StopDelay = 7
    BY <2>2 DEF PullDelay, StopDelay, Instr
  <2> HIDE DEF PullDelay, StopDelay
  <2> QED BY <2>1, <2>2, <2>3, SenderIs
<1>2. CASE program = AsicProgram
  <2>1. program = Sender(0, 6)
    BY <1>2 DEF AsicProgram
  <2>2. program[1] = Instr("pull", 1, 0) /\ program[5] = Instr("nop", 1, 6)
    BY <2>1, SenderIs
  <2>3. PullDelay = 0 /\ StopDelay = 6
    BY <2>2 DEF PullDelay, StopDelay, Instr
  <2> HIDE DEF PullDelay, StopDelay
  <2> QED BY <2>1, <2>2, <2>3, SenderIs
<1> QED BY <1>1, <1>2 DEF Sending

(* A machine goes on to the next instruction. *)
LEMMA DoneAt ==
  ASSUME NEW pc \in 1 .. 5, NEW delay, NEW x, NEW bits, NEW pin, NEW acc, NEW i, NEW p,
         Len(p) = 5
  PROVE  Done(At(pc, delay, x, bits, pin, acc), i, p)
           = At(IF pc = 5 THEN 1 ELSE pc + 1, i.delay, x, bits, pin, acc)
<1> DEFINE m == At(pc, delay, x, bits, pin, acc)
           n == IF pc = 5 THEN 1 ELSE pc + 1
<1>1. (pc % 5) + 1 = n
  OBVIOUS
<1>4. m.pc = pc
  BY DEF At
<1>2. Done(m, i, p) = [m EXCEPT !.pc = n, !.delay = i.delay]
  <2> HIDE DEF m, n
  <2> QED BY <1>1, <1>4 DEF Done
<1>3. ASSUME NEW k, NEW d, NEW q, q = [m EXCEPT !.pc = k, !.delay = d]
      PROVE  q = At(k, d, x, bits, pin, acc)
  BY <1>3 DEF At
<1>5. PICK q : q = Done(m, i, p)
  OBVIOUS
<1>6. q = [m EXCEPT !.pc = n, !.delay = i.delay]
  BY <1>2, <1>5
<1>7. q = At(n, i.delay, x, bits, pin, acc)
  <2> HIDE DEF m, n
  <2> QED BY <1>3, <1>6, Zenon
<1> QED BY <1>5, <1>7

(* A cycle of the sender, but for the pull. *)
LEMMA TxCycle ==
  ASSUME Sending
  PROVE  LET m == Cycle(tx, program)
         IN  /\ tx.delay > 0 =>
                  m = At(tx.pc, tx.delay - 1, tx.x, tx.bits, tx.pin, tx.acc)
             /\ tx.delay = 0 /\ tx.pc = 2 => m = At(3, 7, 8, tx.bits, 0, tx.acc)
             /\ tx.delay = 0 /\ tx.pc = 3 =>
                  m = At(4, 6, tx.x, Tail(tx.bits), tx.bits[1], tx.acc)
             /\ tx.delay = 0 /\ tx.pc = 4 =>
                  m = At(IF tx.x = 0 THEN 5 ELSE 3, 0, IF tx.x = 0 THEN 0 ELSE tx.x - 1,
                         tx.bits, tx.pin, tx.acc)
             /\ tx.delay = 0 /\ tx.pc = 5 => m = At(1, StopDelay, tx.x, tx.bits, 1, tx.acc)
<1> DEFINE P(m, i) == Plain(m, i, program)
<1>0. /\ tx \in Machines
      /\ tx.pc \in 1 .. 5 /\ tx.delay \in 0 .. 10 /\ tx.x \in 0 .. 8
  BY DEF Sending, Machines
<1>t. tx = At(tx.pc, tx.delay, tx.x, tx.bits, tx.pin, tx.acc)
  BY <1>0 DEF At, Machines
<1>p. Len(program) = 5
  BY ProgramIs
<1>1. CASE tx.delay > 0
  BY <1>0, <1>1 DEF Cycle, At, Machines
<1>2. ASSUME tx.delay = 0
      PROVE  Cycle(tx, program) = P(Side(tx, program[tx.pc]), program[tx.pc])
  BY <1>2 DEF Cycle
<1>3. CASE tx.delay = 0 /\ tx.pc = 2
  <2> DEFINE s == At(2, 0, tx.x, tx.bits, 0, tx.acc)
             r == At(2, 0, 8, tx.bits, 0, tx.acc)
  <2>1. Side(tx, program[2]) = s
    BY <1>t, <1>3, ProgramIs DEF Side, Instr, Keep, At
  <2>2. P(s, program[2]) = Done([s EXCEPT !.x = 8], program[2], program)
    BY ProgramIs DEF Plain, Instr
  <2>3. [s EXCEPT !.x = 8] = r
    <3> SUFFICES ASSUME NEW q, q = [s EXCEPT !.x = 8] PROVE q = r
      OBVIOUS
    <3> QED BY DEF At
  <2>4. program[2].delay = 7
    BY ProgramIs DEF Instr
  <2>5. Done(r, program[2], program) = At(3, 7, 8, tx.bits, 0, tx.acc)
    BY <1>p, <2>4, DoneAt
  <2> HIDE DEF s, r, P
  <2> QED BY <1>2, <1>3, <2>1, <2>2, <2>3, <2>5
<1>4. CASE tx.delay = 0 /\ tx.pc = 3
  <2> DEFINE r == At(3, 0, tx.x, Tail(tx.bits), tx.bits[1], tx.acc)
  <2>1. Side(tx, program[3]) = tx
    BY ProgramIs DEF Side, Instr, Keep
  <2>2. P(tx, program[3]) = Done([tx EXCEPT !.pin = tx.bits[1], !.bits = Tail(tx.bits)],
                                 program[3], program)
    BY ProgramIs DEF Plain, Instr
  <2>3. [tx EXCEPT !.pin = tx.bits[1], !.bits = Tail(tx.bits)] = r
    <3>1. tx = At(3, 0, tx.x, tx.bits, tx.pin, tx.acc)
      BY <1>t, <1>4
    <3> SUFFICES ASSUME NEW b, NEW v, NEW q, q = [tx EXCEPT !.pin = v, !.bits = b]
                 PROVE  q = At(3, 0, tx.x, b, v, tx.acc)
      OBVIOUS
    <3>2. q = [At(3, 0, tx.x, tx.bits, tx.pin, tx.acc) EXCEPT !.pin = v, !.bits = b]
      BY <3>1
    <3> QED BY <3>2 DEF At
  <2>4. program[3].delay = 6
    BY ProgramIs DEF Instr
  <2>5. Done(r, program[3], program) = At(4, 6, tx.x, Tail(tx.bits), tx.bits[1], tx.acc)
    BY <1>p, <2>4, DoneAt
  <2> HIDE DEF r, P
  <2> QED BY <1>2, <1>4, <2>1, <2>2, <2>3, <2>5
<1>5. CASE tx.delay = 0 /\ tx.pc = 4
  <2>1. Side(tx, program[4]) = tx
    BY ProgramIs DEF Side, Instr, Keep
  <2>2. P(tx, program[4]) = Jump(tx, program[4], program) /\ program[4].delay = 0
    BY ProgramIs DEF Plain, Instr
  <2>3. CASE tx.x = 0
    <3>1. Jump(tx, program[4], program) = Done(tx, program[4], program)
      BY <2>3 DEF Jump
    <3>2. Done(tx, program[4], program) = At(5, 0, tx.x, tx.bits, tx.pin, tx.acc)
      BY <1>t, <1>p, <1>5, <2>2, DoneAt
    <3> HIDE DEF P
    <3> QED BY <1>2, <1>5, <2>1, <2>2, <2>3, <3>1, <3>2
  <2>4. CASE tx.x # 0
    <3>1. Jump(tx, program[4], program) = [tx EXCEPT !.pc = 3, !.x = tx.x - 1, !.delay = 0]
      BY <1>5, <2>2, <2>4 DEF Jump
    <3>2. [tx EXCEPT !.pc = 3, !.x = tx.x - 1, !.delay = 0]
            = At(3, 0, tx.x - 1, tx.bits, tx.pin, tx.acc)
      <4>1. tx = At(4, 0, tx.x, tx.bits, tx.pin, tx.acc)
        BY <1>t, <1>5
      <4> SUFFICES ASSUME NEW v, NEW q, q = [tx EXCEPT !.pc = 3, !.x = v, !.delay = 0]
                   PROVE  q = At(3, 0, v, tx.bits, tx.pin, tx.acc)
        OBVIOUS
      <4>2. q = [At(4, 0, tx.x, tx.bits, tx.pin, tx.acc) EXCEPT !.pc = 3, !.x = v, !.delay = 0]
        BY <4>1
      <4> QED BY <4>2 DEF At
    <3> HIDE DEF P
    <3> QED BY <1>2, <1>5, <2>1, <2>2, <2>4, <3>1, <3>2
  <2> QED BY <2>3, <2>4
<1>6. CASE tx.delay = 0 /\ tx.pc = 5
  <2> DEFINE s == At(5, 0, tx.x, tx.bits, 1, tx.acc)
  <2>1. Side(tx, program[5]) = s
    BY <1>t, <1>6, ProgramIs DEF Side, Instr, Keep, At
  <2>2. P(s, program[5]) = Done(s, program[5], program)
    BY ProgramIs DEF Plain, Instr
  <2>3. program[5].delay = StopDelay
    BY DEF StopDelay
  <2>4. Done(s, program[5], program) = At(1, StopDelay, tx.x, tx.bits, 1, tx.acc)
    BY <1>p, <2>3, DoneAt
  <2> HIDE DEF s, P
  <2> QED BY <1>2, <1>6, <2>1, <2>2, <2>4
<1> HIDE DEF P
<1> QED BY <1>0, <1>1, <1>3, <1>4, <1>5, <1>6

(* The divider after one more system clock. *)
LEMMA ClockAt ==
  ASSUME NEW pc, NEW delay, NEW x, NEW bits, NEW pin, NEW acc, NEW d
  PROVE  Clock(At(pc, delay, x, bits, pin, acc), d)
           = At(pc, delay, x, bits, pin, (acc + 256) % d)
<1> DEFINE m == At(pc, delay, x, bits, pin, acc)
<1>1. m.acc = acc
  BY DEF At
<1>2. PICK q : q = Clock(m, d)
  OBVIOUS
<1>3. q = [m EXCEPT !.acc = (acc + 256) % d]
  <2> HIDE DEF m
  <2> QED BY <1>1, <1>2 DEF Clock
<1>4. ASSUME NEW v, NEW r, r = [m EXCEPT !.acc = v]
      PROVE  r = At(pc, delay, x, bits, pin, v)
  BY <1>4 DEF At
<1>5. q = At(pc, delay, x, bits, pin, (acc + 256) % d)
  <2> HIDE DEF m
  <2> QED BY <1>3, <1>4, Zenon
<1> QED BY <1>2, <1>5

(* The divider counts on, and overflows at d. *)
LEMMA Accumulates ==
  ASSUME NEW acc \in Nat, NEW d \in Nat, d >= 256
  PROVE  /\ (acc + 256) % d \in Nat /\ (acc + 256) % d < d
         /\ acc < d => (acc + 256) % d = IF acc + 256 >= d THEN acc + 256 - d ELSE acc + 256
<1>1. (acc + 256) % d \in Nat /\ (acc + 256) % d < d
  OBVIOUS
<1>2. ASSUME acc < d, acc + 256 >= d PROVE (acc + 256) % d = acc + 256 - d
  <2>1. (acc + 256) \div d = 1
    BY <1>2
  <2>2. acc + 256 = d * 1 + ((acc + 256) % d)
    BY <2>1
  <2> QED BY <2>2
<1>3. ASSUME acc < d, ~(acc + 256 >= d) PROVE (acc + 256) % d = acc + 256
  BY <1>3
<1> QED BY <1>1, <1>2, <1>3

(* A system clock of the receiver. *)
LEMMA RxStep ==
  ASSUME Receiving, StepRx
  PROVE  LET due == Due(rx, Divider) /\ rx.delay = 0
         IN  /\ rx'.acc = (rx.acc + 256) % Divider
             /\ rx' = At(rx'.pc, rx'.delay, rx'.x, rx'.bits, rx.pin, rx'.acc)
             /\ ~Due(rx, Divider) \/ rx.delay > 0 =>
                  /\ rx'.pc = rx.pc /\ rx'.x = rx.x /\ rx'.bits = rx.bits
                  /\ rx'.delay = IF Due(rx, Divider) THEN rx.delay - 1 ELSE rx.delay
             /\ due /\ rx.pc = 1 =>
                  /\ rx'.pc = (IF Line = 0 THEN 2 ELSE 1)
                  /\ rx'.delay = 0 /\ rx'.x = rx.x /\ rx'.bits = <<>>
             /\ due /\ rx.pc = 2 =>
                  rx'.pc = 3 /\ rx'.delay = 10 /\ rx'.x = 8 /\ rx'.bits = <<>>
             /\ due /\ rx.pc = 3 =>
                  /\ rx'.pc = 4 /\ rx'.delay = 6 /\ rx'.x = rx.x
                  /\ rx'.bits = IF Len(rx.bits) = 8 THEN <<>> ELSE Append(rx.bits, Line)
             /\ due /\ rx.pc = 4 =>
                  /\ rx'.pc = (IF rx.x = 0 THEN 5 ELSE 3)
                  /\ rx'.delay = 0 /\ rx'.x = (IF rx.x = 0 THEN 0 ELSE rx.x - 1)
                  /\ rx'.bits = rx.bits
             /\ due /\ rx.pc = 5 =>
                  /\ rx'.pc = (IF Line = 1 THEN 1 ELSE 5)
                  /\ rx'.delay = 0 /\ rx'.x = rx.x /\ rx'.bits = <<>>
<1> DEFINE m == Cycle(rx, RxProgram)
           a == (rx.acc + 256) % Divider
<1>0. /\ rx \in Machines
      /\ rx.pc \in 1 .. 5 /\ rx.delay \in 0 .. 10
      /\ rx = At(rx.pc, rx.delay, rx.x, rx.bits, rx.pin, rx.acc)
  BY DEF Receiving, Machines, At
<1>1. CASE ~Due(rx, Divider)
  <2>1. rx' = At(rx.pc, rx.delay, rx.x, rx.bits, rx.pin, a)
    BY <1>0, <1>1, ClockAt DEF StepRx
  <2> QED BY <1>1, <2>1 DEF At
<1>2. CASE Due(rx, Divider)
  <2>1. rx' = Clock(m, Divider)
    BY <1>2 DEF StepRx
  <2>2. ASSUME NEW p, NEW d, NEW x, NEW b, m = At(p, d, x, b, rx.pin, rx.acc)
        PROVE  rx' = At(p, d, x, b, rx.pin, a)
    BY <2>1, <2>2, ClockAt
  <2>3. ASSUME NEW p, NEW d, NEW x, NEW b, rx' = At(p, d, x, b, rx.pin, a)
        PROVE  /\ rx'.pc = p /\ rx'.delay = d /\ rx'.x = x /\ rx'.bits = b /\ rx'.acc = a
               /\ rx' = At(rx'.pc, rx'.delay, rx'.x, rx'.bits, rx.pin, rx'.acc)
    BY <2>3 DEF At
  <2> HIDE DEF m, a
  <2>4. CASE rx.delay > 0
    <3>1. m = At(rx.pc, rx.delay - 1, rx.x, rx.bits, rx.pin, rx.acc)
      BY <2>4, RxCycle DEF m
    <3> QED BY <1>2, <2>2, <2>3, <2>4, <3>1 DEF a
  <2>5. CASE rx.delay = 0 /\ rx.pc = 1
    <3>1. m = At(IF Line = 0 THEN 2 ELSE 1, 0, rx.x, <<>>, rx.pin, rx.acc)
      BY <2>5, RxCycle DEF m
    <3> QED BY <1>2, <2>2, <2>3, <2>5, <3>1 DEF a
  <2>6. CASE rx.delay = 0 /\ rx.pc = 2
    <3>1. m = At(3, 10, 8, <<>>, rx.pin, rx.acc)
      BY <2>6, RxCycle DEF m
    <3> QED BY <1>2, <2>2, <2>3, <2>6, <3>1 DEF a
  <2>7. CASE rx.delay = 0 /\ rx.pc = 3
    <3>1. m = At(4, 6, rx.x, IF Len(rx.bits) = 8 THEN <<>> ELSE Append(rx.bits, Line),
                 rx.pin, rx.acc)
      BY <2>7, RxCycle DEF m
    <3> QED BY <1>2, <2>2, <2>3, <2>7, <3>1 DEF a
  <2>8. CASE rx.delay = 0 /\ rx.pc = 4
    <3>1. m = At(IF rx.x = 0 THEN 5 ELSE 3, 0, IF rx.x = 0 THEN 0 ELSE rx.x - 1,
                 rx.bits, rx.pin, rx.acc)
      BY <2>8, RxCycle DEF m
    <3> QED BY <1>2, <2>2, <2>3, <2>8, <3>1 DEF a
  <2>9. CASE rx.delay = 0 /\ rx.pc = 5
    <3>1. m = At(IF Line = 1 THEN 1 ELSE 5, 0, rx.x, <<>>, rx.pin, rx.acc)
      BY <2>9, RxCycle DEF m
    <3> QED BY <1>2, <2>2, <2>3, <2>9, <3>1 DEF a
  <2> QED BY <1>0, <2>4, <2>5, <2>6, <2>7, <2>8, <2>9
<1> QED BY <1>1, <1>2

(* A system clock of a sender with power. *)
LEMMA TxStep ==
  ASSUME Sending, powered, StepTx
  PROVE  LET due == Due(tx, divider) /\ tx.delay = 0
         IN  /\ tx'.acc = (tx.acc + 256) % divider
             /\ tx' = At(tx'.pc, tx'.delay, tx'.x, tx'.bits, tx'.pin, tx'.acc)
             /\ ~(due /\ tx.pc = 1) => sent' = sent
             /\ ~Due(tx, divider) \/ tx.delay > 0 =>
                  /\ tx'.pc = tx.pc /\ tx'.x = tx.x /\ tx'.bits = tx.bits /\ tx'.pin = tx.pin
                  /\ tx'.delay = IF Due(tx, divider) THEN tx.delay - 1 ELSE tx.delay
             /\ due /\ tx.pc = 1 =>
                  /\ tx'.x = tx.x /\ tx'.pin = 1
                  /\ \/ tx'.pc = 1 /\ tx'.delay = 0 /\ tx'.bits = tx.bits /\ sent' = sent
                     \/ /\ tx'.pc = 2 /\ tx'.delay = PullDelay /\ tx'.bits \in Words
                        /\ sent' = Append(sent, tx'.bits)
             /\ due /\ tx.pc = 2 =>
                  /\ tx'.pc = 3 /\ tx'.delay = 7 /\ tx'.x = 8 /\ tx'.bits = tx.bits
                  /\ tx'.pin = 0
             /\ due /\ tx.pc = 3 =>
                  /\ tx'.pc = 4 /\ tx'.delay = 6 /\ tx'.x = tx.x /\ tx'.bits = Tail(tx.bits)
                  /\ tx'.pin = tx.bits[1]
             /\ due /\ tx.pc = 4 =>
                  /\ tx'.pc = (IF tx.x = 0 THEN 5 ELSE 3)
                  /\ tx'.delay = 0 /\ tx'.x = (IF tx.x = 0 THEN 0 ELSE tx.x - 1)
                  /\ tx'.bits = tx.bits /\ tx'.pin = tx.pin
             /\ due /\ tx.pc = 5 =>
                  /\ tx'.pc = 1 /\ tx'.delay = StopDelay /\ tx'.x = tx.x /\ tx'.bits = tx.bits
                  /\ tx'.pin = 1
<1> DEFINE m == Cycle(tx, program)
           a == (tx.acc + 256) % divider
<1>0. /\ tx.pc \in 1 .. 5 /\ tx.delay \in 0 .. 10
      /\ tx = At(tx.pc, tx.delay, tx.x, tx.bits, tx.pin, tx.acc)
  BY DEF Sending, Machines, At
<1>1. Pulling <=> Due(tx, divider) /\ tx.delay = 0 /\ tx.pc = 1
  BY <1>0, ProgramIs DEF Pulling, Instr
<1>2. ASSUME NEW p, NEW d, NEW x, NEW b, NEW n, tx' = At(p, d, x, b, n, a)
      PROVE  /\ tx'.pc = p /\ tx'.delay = d /\ tx'.x = x /\ tx'.bits = b /\ tx'.pin = n
             /\ tx'.acc = a
             /\ tx' = At(tx'.pc, tx'.delay, tx'.x, tx'.bits, tx'.pin, tx'.acc)
  BY <1>2 DEF At
<1>3. CASE ~Due(tx, divider)
  <2>1. tx' = Clock(tx, divider) /\ sent' = sent
    BY <1>1, <1>3 DEF StepTx
  <2>2. tx' = At(tx.pc, tx.delay, tx.x, tx.bits, tx.pin, a)
    BY <1>0, <2>1, ClockAt
  <2> HIDE DEF m, a
  <2> QED BY <1>2, <1>3, <2>1, <2>2, SMTT(30) DEF a
<1>4. CASE Due(tx, divider) /\ ~(tx.delay = 0 /\ tx.pc = 1)
  <2>1. tx' = Clock(m, divider) /\ sent' = sent
    BY <1>1, <1>4 DEF StepTx
  <2>2. ASSUME NEW p, NEW d, NEW x, NEW b, NEW n, m = At(p, d, x, b, n, tx.acc)
        PROVE  tx' = At(p, d, x, b, n, a)
    BY <2>1, <2>2, ClockAt
  <2> HIDE DEF m, a
  <2>3. CASE tx.delay > 0
    <3>1. m = At(tx.pc, tx.delay - 1, tx.x, tx.bits, tx.pin, tx.acc)
      BY <2>3, TxCycle DEF m
    <3> QED BY <1>2, <1>4, <2>1, <2>2, <2>3, <3>1 DEF a
  <2>4. CASE tx.delay = 0 /\ tx.pc = 2
    <3>1. m = At(3, 7, 8, tx.bits, 0, tx.acc)
      BY <2>4, TxCycle DEF m
    <3> QED BY <1>2, <1>4, <2>1, <2>2, <2>4, <3>1 DEF a
  <2>5. CASE tx.delay = 0 /\ tx.pc = 3
    <3>1. m = At(4, 6, tx.x, Tail(tx.bits), tx.bits[1], tx.acc)
      BY <2>5, TxCycle DEF m
    <3> QED BY <1>2, <1>4, <2>1, <2>2, <2>5, <3>1 DEF a
  <2>6. CASE tx.delay = 0 /\ tx.pc = 4
    <3>1. m = At(IF tx.x = 0 THEN 5 ELSE 3, 0, IF tx.x = 0 THEN 0 ELSE tx.x - 1,
                 tx.bits, tx.pin, tx.acc)
      BY <2>6, TxCycle DEF m
    <3> QED BY <1>2, <1>4, <2>1, <2>2, <2>6, <3>1 DEF a
  <2>7. CASE tx.delay = 0 /\ tx.pc = 5
    <3>1. m = At(1, StopDelay, tx.x, tx.bits, 1, tx.acc)
      BY <2>7, TxCycle DEF m
    <3> QED BY <1>2, <1>4, <2>1, <2>2, <2>7, <3>1 DEF a
  <2> QED BY <1>0, <1>4, <2>3, <2>4, <2>5, <2>6, <2>7
<1>5. CASE Due(tx, divider) /\ tx.delay = 0 /\ tx.pc = 1
  <2> DEFINE wait == At(1, 0, tx.x, tx.bits, 1, a)
  <2>1. Clock(Side(tx, program[1]), divider) = wait
    <3>1. Side(tx, program[1]) = At(1, 0, tx.x, tx.bits, 1, tx.acc)
      BY <1>0, <1>5, ProgramIs DEF Side, Instr, Keep, At
    <3> QED BY <3>1, ClockAt
  <2>2. \/ tx' = wait /\ sent' = sent
        \/ \E w \in Words : /\ tx' = [Done(wait, program[1], program) EXCEPT !.bits = w]
                           /\ sent' = Append(sent, w)
    BY <1>1, <1>5, <2>1 DEF StepTx
  <2>3. CASE tx' = wait /\ sent' = sent
    <3> HIDE DEF m, a
    <3> QED BY <1>2, <1>5, <2>3 DEF a
  <2>4. ASSUME NEW w \in Words,
               tx' = [Done(wait, program[1], program) EXCEPT !.bits = w],
               sent' = Append(sent, w)
        PROVE  tx' = At(2, PullDelay, tx.x, w, 1, a)
    <3>1. Done(wait, program[1], program) = At(2, PullDelay, tx.x, tx.bits, 1, a)
      <4> HIDE DEF a
      <4> QED BY ProgramIs, DoneAt DEF PullDelay
    <3>2. tx' = [At(2, PullDelay, tx.x, tx.bits, 1, a) EXCEPT !.bits = w]
      BY <2>4, <3>1
    <3> QED BY <3>2 DEF At
  <2>5. CASE \E w \in Words : /\ tx' = [Done(wait, program[1], program) EXCEPT !.bits = w]
                             /\ sent' = Append(sent, w)
    <3>1. PICK w \in Words : tx' = At(2, PullDelay, tx.x, w, 1, a) /\ sent' = Append(sent, w)
      BY <2>4, <2>5
    <3> HIDE DEF m, a
    <3> QED BY <1>2, <1>5, <3>1 DEF a
  <2> QED BY <2>2, <2>3, <2>5
<1> QED BY <1>0, <1>3, <1>4, <1>5
-----------------------------------------------------------------------------
(* The shape of the two machines is kept. *)

(* A machine of good parts is a machine. *)
LEMMA MachineAt ==
  ASSUME NEW pc \in 1 .. 5, NEW delay \in 0 .. 10, NEW x \in 0 .. 8, NEW bits \in Seq(Bits),
         NEW pin \in Bits, NEW acc \in Nat
  PROVE  At(pc, delay, x, bits, pin, acc) \in Machines
BY DEF At, Machines

(* The line is low or high. *)
LEMMA LineIsBit == ASSUME Sending PROVE Line \in Bits
BY DEF Line, Sending, Machines, Bits

(* A machine with its divider reset. *)
LEMMA MachineReset ==
  ASSUME NEW phase \in Nat
  PROVE  /\ Machine(phase) \in Machines
         /\ Machine(phase).pc = 1 /\ Machine(phase).bits = <<>>
         /\ Machine(phase).acc = phase /\ Machine(phase).delay = 0
         /\ Machine(phase).pin = 1
BY DEF Machine, Machines, Bits

(* A word is nine bits. *)
LEMMA WordBits == ASSUME NEW w \in Words PROVE w \in Seq(Bits) /\ Len(w) = 9
<1>1. w \in [1 .. 9 -> Bits]
  BY PioAssumption DEF Bits
<1>2. ASSUME NEW n \in Nat, w \in [1 .. n -> Bits] PROVE w \in Seq(Bits)
  BY <1>2
<1>3. w \in Seq(Bits)
  BY <1>1, <1>2
<1>4. DOMAIN w = 1 .. Len(w) /\ Len(w) \in Nat
  BY <1>3, LenProperties
<1>5. 1 .. Len(w) = 1 .. 9
  BY <1>1, <1>4
<1> QED BY <1>3, <1>4, <1>5

(* A step keeps the shape of the sender. *)
LEMMA SendingKept == ASSUME Sending, Next PROVE Sending'
<1>d. divider \in Nat /\ divider >= 256 /\ divider \in SenderDividers
  BY Params DEF Sending
<1>1. CASE PowerOff
  <2>1. program' = program /\ divider' = divider /\ powered' = FALSE /\ tx' = Machine(0)
    BY <1>1 DEF PowerOff
  <2>2. tx' \in Machines /\ tx'.pc = 1 /\ tx'.acc = 0
    <3> HIDE DEF Machine
    <3> QED BY <2>1, MachineReset
  <2>3. /\ program' = program /\ divider' = divider /\ powered' \in BOOLEAN
    BY <2>1
  <2> QED BY <1>d, <2>2, <2>3 DEF Sending
<1>2. CASE Step /\ ~powered
  <2>1. program' = program /\ divider' = divider /\ powered' = powered /\ tx' = tx
    BY <1>2 DEF Step, StepTx
  <2> QED BY <2>1 DEF Sending
<1>3. CASE Step /\ powered
  <2>1. StepTx /\ program' = program /\ divider' = divider /\ powered' = powered
    BY <1>3 DEF Step
  <2>2. /\ tx \in Machines /\ tx.pc \in 1 .. 5 /\ tx.delay \in 0 .. 10 /\ tx.x \in 0 .. 8
        /\ tx.bits \in Seq(Bits) /\ tx.pin \in Bits /\ tx.acc \in Nat
    BY DEF Sending, Machines
  <2>3. tx'.acc \in Nat /\ tx'.acc < divider
    <3>1. tx'.acc = (tx.acc + 256) % divider
      BY <1>3, <2>1, TxStep
    <3> QED BY <1>d, <2>2, <3>1, Accumulates
  <2>4. PullDelay \in 0 .. 7 /\ StopDelay \in 0 .. 7
    <3> HIDE DEF PullDelay, StopDelay
    <3> QED BY ProgramIs
  <2>5. /\ tx'.pc \in 1 .. 5 /\ tx'.delay \in 0 .. 10 /\ tx'.x \in 0 .. 8
        /\ tx'.bits \in Seq(Bits) /\ tx'.pin \in Bits
        /\ tx'.pc = 2 => Len(tx'.bits) = 9
        /\ tx'.pc = 3 => Len(tx'.bits) = tx'.x + 1
        /\ tx'.pc = 4 => Len(tx'.bits) = tx'.x
    <3> DEFINE due == Due(tx, divider) /\ tx.delay = 0
    <3>0. /\ tx.pc = 2 => Len(tx.bits) = 9
          /\ tx.pc = 3 => Len(tx.bits) = tx.x + 1
          /\ tx.pc = 4 => Len(tx.bits) = tx.x
      BY DEF Sending
    <3> HIDE DEF PullDelay, StopDelay
    <3>1. CASE ~Due(tx, divider) \/ tx.delay > 0
      BY <1>3, <2>1, <2>2, <3>0, <3>1, TxStep, SMTT(30)
    <3>2. CASE due /\ tx.pc = 1
      <4>1. /\ tx'.x = tx.x /\ tx'.pin = 1
            /\ \/ tx'.pc = 1 /\ tx'.delay = 0 /\ tx'.bits = tx.bits
               \/ tx'.pc = 2 /\ tx'.delay = PullDelay /\ tx'.bits \in Words
        BY <1>3, <2>1, <3>2, TxStep
      <4>2. tx'.bits \in Words => tx'.bits \in Seq(Bits) /\ Len(tx'.bits) = 9
        BY WordBits
      <4> QED BY <2>2, <2>4, <4>1, <4>2 DEF Bits
    <3>3. CASE due /\ tx.pc = 2
      <4>1. /\ tx'.pc = 3 /\ tx'.delay = 7 /\ tx'.x = 8 /\ tx'.bits = tx.bits
            /\ tx'.pin = 0
        BY <1>3, <2>1, <3>3, TxStep
      <4> QED BY <2>2, <3>0, <3>3, <4>1 DEF Bits
    <3>4. CASE due /\ tx.pc = 3
      <4>1. Len(tx.bits) >= 1
        BY <2>2, <3>0, <3>4
      <4>2. /\ Tail(tx.bits) \in Seq(Bits) /\ Len(Tail(tx.bits)) = Len(tx.bits) - 1
            /\ tx.bits[1] \in Bits
        <5>1. tx.bits # <<>>
          BY <4>1
        <5> QED BY <2>2, <4>1, <5>1, HeadTailProperties, ElementOfSeq
      <4>3. /\ tx'.pc = 4 /\ tx'.delay = 6 /\ tx'.x = tx.x /\ tx'.bits = Tail(tx.bits)
            /\ tx'.pin = tx.bits[1]
        BY <1>3, <2>1, <3>4, TxStep
      <4> QED BY <2>2, <3>0, <3>4, <4>2, <4>3
    <3>5. CASE due /\ tx.pc = 4
      BY <1>3, <2>1, <2>2, <3>0, <3>5, TxStep, SMTT(30)
    <3>6. CASE due /\ tx.pc = 5
      BY <1>3, <2>1, <2>2, <2>4, <3>6, TxStep DEF Bits
    <3> QED BY <2>2, <3>1, <3>2, <3>3, <3>4, <3>5, <3>6
  <2>6. tx' \in Machines
    <3>1. tx' = At(tx'.pc, tx'.delay, tx'.x, tx'.bits, tx'.pin, tx'.acc)
      BY <1>3, <2>1, TxStep
    <3> QED BY <2>3, <2>5, <3>1, MachineAt
  <2> QED BY <2>1, <2>3, <2>5, <2>6, <1>d DEF Sending
<1> QED BY <1>1, <1>2, <1>3 DEF Next

(* A step keeps the shape of the receiver. *)
LEMMA ReceivingKept == ASSUME Sending, Receiving, Next PROVE Receiving'
<1>1. CASE PowerOff
  BY <1>1 DEF PowerOff, Receiving
<1>2. CASE Step
  <2>1. StepRx
    BY <1>2 DEF Step
  <2>2. /\ rx \in Machines /\ rx.pc \in 1 .. 5 /\ rx.delay \in 0 .. 10 /\ rx.x \in 0 .. 8
        /\ rx.bits \in Seq(Bits) /\ rx.pin \in Bits /\ rx.acc \in Nat
    BY DEF Receiving, Machines
  <2>3. rx'.acc \in Nat /\ rx'.acc < Divider
    <3>1. rx'.acc = (rx.acc + 256) % Divider
      BY <2>1, RxStep
    <3>2. Divider \in Nat /\ Divider >= 256
      BY Params
    <3> QED BY <2>2, <3>1, <3>2, Accumulates
  <2>4. /\ rx'.pc \in 1 .. 5 /\ rx'.delay \in 0 .. 10 /\ rx'.x \in 0 .. 8
        /\ rx'.bits \in Seq(Bits)
        /\ rx'.pc \in {1, 2, 5} => rx'.bits = <<>>
        /\ rx'.pc = 3 => Len(rx'.bits) + rx'.x = 8
        /\ rx'.pc = 4 => \/ rx'.bits = <<>> /\ rx'.x = 0
                         \/ Len(rx'.bits) + rx'.x = 9 /\ rx'.x >= 1
    <3> DEFINE due == Due(rx, Divider) /\ rx.delay = 0
    <3>0. /\ rx.pc \in {1, 2, 5} => rx.bits = <<>>
          /\ rx.pc = 3 => Len(rx.bits) + rx.x = 8
          /\ rx.pc = 4 => \/ rx.bits = <<>> /\ rx.x = 0
                          \/ Len(rx.bits) + rx.x = 9 /\ rx.x >= 1
      BY DEF Receiving
    <3>1. CASE ~Due(rx, Divider) \/ rx.delay > 0
      BY <2>1, <2>2, <3>0, <3>1, RxStep, SMTT(30)
    <3>2. CASE due /\ rx.pc = 1
      <4>1. /\ rx'.pc \in {1, 2}
            /\ rx'.delay = 0 /\ rx'.x = rx.x /\ rx'.bits = <<>>
        BY <2>1, <3>2, RxStep
      <4> QED BY <2>2, <4>1
    <3>3. CASE due /\ rx.pc = 2
      <4>1. rx'.pc = 3 /\ rx'.delay = 10 /\ rx'.x = 8 /\ rx'.bits = <<>>
        BY <2>1, <3>3, RxStep
      <4> QED BY <4>1
    <3>4. CASE due /\ rx.pc = 3
      <4>1. /\ rx'.pc = 4 /\ rx'.delay = 6 /\ rx'.x = rx.x
            /\ rx'.bits = IF Len(rx.bits) = 8 THEN <<>> ELSE Append(rx.bits, Line)
        BY <2>1, <3>4, RxStep
      <4>2. /\ Append(rx.bits, Line) \in Seq(Bits)
            /\ Len(Append(rx.bits, Line)) = Len(rx.bits) + 1 /\ Len(rx.bits) \in Nat
        BY <2>2, LineIsBit, AppendProperties
      <4>3. CASE Len(rx.bits) = 8
        BY <2>2, <3>0, <3>4, <4>1, <4>3
      <4>4. CASE Len(rx.bits) # 8
        <5>1. rx'.bits = Append(rx.bits, Line)
          BY <4>1, <4>4
        <5>2. rx'.bits \in Seq(Bits) /\ Len(rx'.bits) + rx'.x = 9
          BY <2>2, <3>0, <3>4, <4>1, <4>2, <5>1, SMTT(30)
        <5>3. rx'.x >= 1
          <6>1. Len(rx.bits) + rx.x = 8
            BY <3>0, <3>4
          <6>2. rx'.x = rx.x /\ rx.x \in 0 .. 8 /\ Len(rx.bits) \in Nat
            BY <2>2, <4>1, <4>2
          <6>3. ASSUME NEW n \in Nat, NEW x \in 0 .. 8, n + x = 8, n # 8 PROVE x >= 1
            BY <6>3
          <6> QED BY <4>4, <6>1, <6>2, <6>3
        <5> QED BY <2>2, <4>1, <5>2, <5>3
      <4> QED BY <4>3, <4>4
    <3>5. CASE due /\ rx.pc = 4
      <4>1. /\ rx'.pc = (IF rx.x = 0 THEN 5 ELSE 3)
            /\ rx'.delay = 0 /\ rx'.x = (IF rx.x = 0 THEN 0 ELSE rx.x - 1)
            /\ rx'.bits = rx.bits
        BY <2>1, <3>5, RxStep
      <4> QED BY <2>2, <3>0, <3>5, <4>1, SMTT(30)
    <3>6. CASE due /\ rx.pc = 5
      <4>1. /\ rx'.pc \in {1, 5}
            /\ rx'.delay = 0 /\ rx'.x = rx.x /\ rx'.bits = <<>>
        BY <2>1, <3>6, RxStep
      <4> QED BY <2>2, <4>1
    <3> QED BY <2>2, <3>1, <3>2, <3>3, <3>4, <3>5, <3>6
  <2>5. rx' \in Machines
    <3>1. rx' = At(rx'.pc, rx'.delay, rx'.x, rx'.bits, rx.pin, rx'.acc)
      BY <2>1, RxStep
    <3> QED BY <2>2, <2>3, <2>4, <3>1, MachineAt, ZenonT(60)
  <2> QED BY <2>3, <2>4, <2>5 DEF Receiving
<1> QED BY <1>1, <1>2 DEF Next
-----------------------------------------------------------------------------
(* A dead line. *)

(* The two machines are good at first. *)
LEMMA MachinesAtFirst == ASSUME Init PROVE Sending /\ Receiving /\ Stray
<1>1. PICK p \in Phases : rx = Machine(p)
  BY DEF Init
<1>2. p \in Nat /\ p < Divider
  BY Params
<1>3. /\ rx \in Machines /\ rx.acc < Divider /\ rx.pc = 1 /\ rx.bits = <<>>
  BY <1>1, <1>2, MachineReset
<1>4. tx = Machine(0)
  BY DEF Init
<1>5. tx \in Machines /\ tx.acc = 0 /\ tx.pc = 1
  BY <1>4, MachineReset
<1>6. divider \in SenderDividers /\ divider \in Nat /\ divider >= 256
  BY Params DEF Init
<1>7. /\ program = TxProgram \/ program = AsicProgram
      /\ powered = TRUE /\ strays = 0
  BY DEF Init
<1>8. Sending
  <2>1. tx.acc < divider
    BY <1>5, <1>6
  <2> HIDE DEF Machine, TxProgram, AsicProgram
  <2> QED BY <1>5, <1>6, <1>7, <2>1 DEF Sending
<1>9. Receiving
  BY <1>3 DEF Receiving
<1> QED BY <1>7, <1>8, <1>9 DEF Stray

(* A push is the ninth bit that the receiver takes. *)
LEMMA PushAt ==
  ASSUME Receiving
  PROVE  Pushes <=> Due(rx, Divider) /\ rx.delay = 0 /\ rx.pc = 3 /\ Len(rx.bits) = 8
<1>1. rx.pc \in 1 .. 5
  BY DEF Receiving, Machines
<1> QED BY <1>1, RxProgramIs DEF Pushes, Instr

(* Behind a stray word the receiver waits for a line that is not high.     *)
LEMMA StrayKept == ASSUME Sending, Receiving, Stray, Next PROVE Stray'
<1>1. CASE PowerOff
  BY <1>1 DEF PowerOff, Stray
<1>2. CASE Step /\ powered
  <2>1. powered' = powered /\ strays' = strays
    BY <1>2 DEF Step, StepRx
  <2> QED BY <1>2, <2>1 DEF Stray
<1>3. CASE Step /\ ~powered
  <2>1. StepRx /\ powered' = powered /\ Line = 0
    BY <1>3 DEF Step, Line
  <2>2. rx.pc \in 1 .. 5 /\ rx.delay \in 0 .. 10 /\ rx.x \in 0 .. 8
    BY DEF Receiving, Machines
  <2>3. CASE Pushes
    <3>1. Due(rx, Divider) /\ rx.delay = 0 /\ rx.pc = 3 /\ Len(rx.bits) = 8
      BY <2>3, PushAt
    <3>2. rx.x = 0
      BY <2>2, <3>1 DEF Receiving
    <3>3. rx'.pc = 4 /\ rx'.x = 0
      BY <2>1, <3>1, <3>2, RxStep
    <3>4. strays = 0
      BY <3>1 DEF Stray
    <3>5. strays' = 1
      BY <1>3, <2>1, <2>3, <3>4 DEF StepRx
    <3> QED BY <1>3, <2>1, <3>3, <3>5 DEF Stray
  <2>4. CASE ~Pushes
    <3>1. strays' = strays
      BY <2>1, <2>4 DEF StepRx
    <3>2. ASSUME rx.pc \in {4, 5}, rx.pc = 4 => rx.x = 0
          PROVE  rx'.pc \in {4, 5} /\ (rx'.pc = 4 => rx'.x = 0)
      <4>1. CASE ~Due(rx, Divider) \/ rx.delay > 0
        <5>1. rx'.pc = rx.pc /\ rx'.x = rx.x
          BY <2>1, <4>1, RxStep
        <5> QED BY <3>2, <5>1
      <4>2. CASE Due(rx, Divider) /\ rx.delay = 0
        <5>1. rx'.pc = 5
          BY <2>1, <3>2, <4>2, RxStep
        <5> QED BY <5>1
      <4> QED BY <2>2, <4>1, <4>2
    <3> QED BY <1>3, <2>1, <3>1, <3>2 DEF Stray
  <2> QED BY <2>3, <2>4
<1> QED BY <1>1, <1>2, <1>3 DEF Next

(* What both theorems rest on: where the two machines may stand. *)
THEOREM MachinesStand == Spec => [](Sending /\ Receiving /\ Stray)
<1>1. Init => Sending /\ Receiving /\ Stray
  BY MachinesAtFirst
<1>2. Sending /\ Receiving /\ Stray /\ [Next]_vars => (Sending /\ Receiving /\ Stray)'
  <2> SUFFICES ASSUME Sending, Receiving, Stray, [Next]_vars
               PROVE  (Sending /\ Receiving /\ Stray)'
    OBVIOUS
  <2>1. CASE Next
    BY <2>1, SendingKept, ReceivingKept, StrayKept
  <2>2. CASE UNCHANGED vars
    <3>1. /\ program' = program /\ divider' = divider /\ powered' = powered /\ tx' = tx
          /\ rx' = rx /\ strays' = strays
      BY <2>2 DEF vars
    <3> QED BY <3>1 DEF Sending, Receiving, Stray
  <2> QED BY <2>1, <2>2
<1> QED BY <1>1, <1>2, PTL DEF Spec

(* A line that has gone low for good makes one word at the most: the power *)
(* may go at any bit of any word, and at any phase of the two clocks.      *)
THEOREM DeadLineSilence == Spec => []DeadLineSilent
<1>1. Stray => DeadLineSilent
  BY DEF Stray, DeadLineSilent
<1> QED BY <1>1, MachinesStand, PTL
-----------------------------------------------------------------------------
(* The two clocks.  In a frame both machines count 256 a system clock: the *)
(* one that is at cycle n of divider d has come d * n, and the rest that   *)
(* is in its accumulator.                                                  *)

(* Cycles of the sender since the beginning of the start bit.              *)
TxPos == IF tx.pc = 3 THEN 8 * (9 - tx.x) - tx.delay
         ELSE IF tx.pc = 4 THEN 8 * (9 - tx.x) + 7 - tx.delay
         ELSE IF tx.pc = 5 THEN 80
         ELSE IF tx.pc = 1 THEN 81 + StopDelay - tx.delay
         ELSE 82 + StopDelay + PullDelay - tx.delay

(* Cycles of the receiver since it has seen the start bit.                 *)
RxPos == IF rx.pc = 1 THEN 0
         ELSE IF rx.pc = 2 THEN 1
         ELSE IF rx.pc = 3 THEN 12 + 8 * (8 - rx.x) - rx.delay
         ELSE IF rx.pc = 4 THEN 12 + 8 * (8 - rx.x) + 7 - rx.delay
         ELSE 84

SenderTime == divider * (TxPos - 1) + tx.acc
ReceiverTime == Divider * RxPos + rx.acc

(* The receiver is not behind what the line shows, nor ahead of it, by     *)
(* more than the two dividers are apart when the start bit begins.         *)
InTime == SenderTime <= ReceiverTime + 255
NotEarly == ReceiverTime <= SenderTime + Divider - 1

(* What may be left of a delay. *)
SenderDelays ==
  /\ tx.pc = 1 => tx.delay <= StopDelay
  /\ tx.pc = 2 => tx.delay <= PullDelay
  /\ tx.pc = 3 => tx.delay <= IF tx.x = 8 THEN 7 ELSE 0
  /\ tx.pc = 4 => tx.delay <= 6
  /\ tx.pc = 5 => tx.delay = 0

ReceiverDelays ==
  /\ rx.pc \in {1, 2, 5} => rx.delay = 0
  /\ rx.pc = 3 => rx.delay <= IF rx.x = 8 THEN 10 ELSE 0
  /\ rx.pc = 4 => rx.delay <= 6

(* The parts of a sender, with the types that the provers need. *)
LEMMA SenderParts ==
  ASSUME Sending
  PROVE  /\ tx.pc \in 1 .. 5 /\ tx.delay \in 0 .. 10 /\ tx.x \in 0 .. 8
         /\ tx.bits \in Seq(Bits) /\ tx.pin \in Bits
         /\ tx.acc \in Nat /\ tx.acc < divider
         /\ divider \in Nat /\ divider >= 256 /\ divider \in SenderDividers
         /\ <<PullDelay, StopDelay>> \in {<<7, 7>>, <<0, 6>>}
         /\ PullDelay \in 0 .. 7 /\ StopDelay \in 6 .. 7
<1>1. <<PullDelay, StopDelay>> \in {<<7, 7>>, <<0, 6>>}
  BY ProgramIs
<1>2. PullDelay \in 0 .. 7 /\ StopDelay \in 6 .. 7
  <2> HIDE DEF PullDelay, StopDelay
  <2> QED BY <1>1
<1> HIDE DEF PullDelay, StopDelay
<1> QED BY <1>1, <1>2, Params DEF Sending, Machines

(* The parts of a receiver. *)
LEMMA ReceiverParts ==
  ASSUME Receiving
  PROVE  /\ rx.pc \in 1 .. 5 /\ rx.delay \in 0 .. 10 /\ rx.x \in 0 .. 8
         /\ rx.bits \in Seq(Bits)
         /\ rx.acc \in Nat /\ rx.acc < Divider
         /\ Divider \in Nat /\ Divider >= 256
BY Params DEF Receiving, Machines

(* Where the sender is in its frame. *)
LEMMA TxPosIn ==
  ASSUME Sending, SenderDelays
  PROVE  /\ TxPos \in 1 .. 96
         /\ tx.pc = 3 /\ tx.x = 8 => TxPos \in 1 .. 8 /\ (tx.delay = 0 => TxPos = 8)
         /\ tx.pc = 3 /\ tx.x < 8 => TxPos = 8 * (9 - tx.x)
         /\ tx.pc = 4 => TxPos > 8 * (9 - tx.x) /\ TxPos < 8 * (10 - tx.x)
         /\ tx.pc = 5 => TxPos = 80
         /\ tx.pc = 1 => TxPos \in 81 .. 88
         /\ tx.pc = 2 => TxPos \in 82 .. 96
         /\ tx.pc = 2 /\ tx.delay = 0 => TxPos >= 88
<1> HIDE DEF PullDelay, StopDelay
<1>1. (PullDelay = 7 /\ StopDelay = 7) \/ (PullDelay = 0 /\ StopDelay = 6)
  <2>1. <<PullDelay, StopDelay>> \in {<<7, 7>>, <<0, 6>>}
    BY SenderParts
  <2> QED BY <2>1
<1>2. tx.pc \in 1 .. 5 /\ tx.delay \in 0 .. 10 /\ tx.x \in 0 .. 8
  BY SenderParts
<1>3. CASE tx.pc = 1
  BY <1>1, <1>2, <1>3 DEF TxPos, SenderDelays
<1>4. CASE tx.pc = 2
  BY <1>1, <1>2, <1>4 DEF TxPos, SenderDelays
<1>5. CASE tx.pc = 3
  <2>1. CASE tx.x = 8
    BY <1>2, <1>5, <2>1 DEF TxPos, SenderDelays
  <2>2. CASE tx.x < 8
    <3>1. tx.delay = 0
      BY <1>2, <1>5, <2>2 DEF SenderDelays
    <3> QED BY <1>2, <1>5, <2>2, <3>1 DEF TxPos
  <2> QED BY <1>2, <2>1, <2>2
<1>6. CASE tx.pc = 4
  BY <1>2, <1>6 DEF TxPos, SenderDelays
<1>7. CASE tx.pc = 5
  BY <1>7 DEF TxPos
<1> QED BY <1>2, <1>3, <1>4, <1>5, <1>6, <1>7

(* Where the receiver is. *)
LEMMA RxPosIn ==
  ASSUME Receiving, ReceiverDelays
  PROVE  /\ RxPos \in 0 .. 84
         /\ rx.pc = 3 => RxPos <= 12 + 8 * (8 - rx.x) /\ RxPos <= 76
         /\ rx.pc = 4 => RxPos >= 13 + 8 * (8 - rx.x) /\ RxPos <= 19 + 8 * (8 - rx.x)
<1>1. rx.pc \in 1 .. 5 /\ rx.delay \in 0 .. 10 /\ rx.x \in 0 .. 8
  BY ReceiverParts
<1>2. CASE rx.pc = 1 \/ rx.pc = 2 \/ rx.pc = 5
  BY <1>2 DEF RxPos
<1>3. CASE rx.pc = 3
  <2>1. CASE rx.x = 8
    BY <1>1, <1>3, <2>1 DEF RxPos, ReceiverDelays
  <2>2. CASE rx.x < 8
    <3>1. rx.delay = 0
      BY <1>1, <1>3, <2>2 DEF ReceiverDelays
    <3> QED BY <1>1, <1>3, <2>2, <3>1 DEF RxPos
  <2> QED BY <1>1, <2>1, <2>2
<1>4. CASE rx.pc = 4
  BY <1>1, <1>4 DEF RxPos, ReceiverDelays
<1> QED BY <1>1, <1>2, <1>3, <1>4
(* Multiples of a divider. *)
LEMMA Multiples ==
  ASSUME NEW d \in Nat, NEW m \in Int, NEW n \in Int
  PROVE  /\ d * m \in Int
         /\ m <= n => d * m <= d * n
         /\ d * (m + 1) = d * m + d /\ d * (m - 1) = d * m - d
<1>1. d * m \in Int
  OBVIOUS
<1>2. d * (m + 1) = d * m + d /\ d * (m - 1) = d * m - d
  OBVIOUS
<1>3. ASSUME m <= n PROVE d * m <= d * n
  <2>1. n - m \in Nat
    BY <1>3
  <2>2. d * (n - m) >= 0
    BY <2>1
  <2>3. d * (n - m) = d * n - d * m
    OBVIOUS
  <2> QED BY <2>2, <2>3
<1> QED BY <1>1, <1>2, <1>3

(* How far the sender has come, by its cycle. *)
LEMMA SenderTimeIn ==
  ASSUME Sending, SenderDelays
  PROVE  /\ SenderTime \in Int
         /\ \A n \in Int : /\ n <= TxPos => divider * n - divider <= SenderTime
                           /\ n <= TxPos /\ Due(tx, divider) => divider * n - 256 <= SenderTime
                           /\ TxPos <= n => SenderTime <= divider * n - 1
<1> DEFINE d == divider
           a == tx.acc
           q == d * TxPos
<1>1. d \in Nat /\ a \in Nat /\ a < d /\ TxPos \in Int
  <2>1. TxPos \in 1 .. 96
    BY TxPosIn
  <2>2. d \in Nat /\ a \in Nat /\ a < d
    BY SenderParts
  <2> QED BY <2>1, <2>2
<1>2. q \in Int /\ SenderTime = q - d + a
  BY <1>1, Multiples DEF SenderTime
<1>3. Due(tx, divider) => a + 256 >= d
  BY DEF Due
<1> SUFFICES ASSUME NEW n \in Int
             PROVE  /\ n <= TxPos => d * n - d <= SenderTime
                    /\ n <= TxPos /\ Due(tx, divider) => d * n - 256 <= SenderTime
                    /\ TxPos <= n => SenderTime <= d * n - 1
  BY <1>1, <1>2
<1> DEFINE r == d * n
<1>4. r \in Int /\ (n <= TxPos => r <= q) /\ (TxPos <= n => q <= r)
  BY <1>1, Multiples
<1> HIDE DEF d, a, q, r
<1> QED BY <1>1, <1>2, <1>3, <1>4 DEF r

(* How far the receiver has come. *)
LEMMA ReceiverTimeIn ==
  ASSUME Receiving, ReceiverDelays
  PROVE  /\ ReceiverTime \in Int
         /\ \A n \in Int : /\ n <= RxPos => Divider * n + rx.acc <= ReceiverTime
                           /\ RxPos <= n => ReceiverTime <= Divider * n + rx.acc
         /\ IF Due(rx, Divider) THEN rx.acc >= Divider - 256 ELSE rx.acc <= Divider - 257
<1> DEFINE q == Divider * RxPos
<1>1. Divider \in Nat /\ rx.acc \in Nat /\ rx.acc < Divider /\ RxPos \in Int
  <2>1. RxPos \in 0 .. 84
    BY RxPosIn
  <2>2. Divider \in Nat /\ rx.acc \in Nat /\ rx.acc < Divider
    BY ReceiverParts
  <2> QED BY <2>1, <2>2
<1>2. q \in Int /\ ReceiverTime = q + rx.acc
  BY <1>1, Multiples DEF ReceiverTime
<1>3. IF Due(rx, Divider) THEN rx.acc >= Divider - 256 ELSE rx.acc <= Divider - 257
  BY <1>1 DEF Due
<1>4. ReceiverTime \in Int
  BY <1>1, <1>2
<1> SUFFICES ASSUME NEW n \in Int
             PROVE  /\ n <= RxPos => Divider * n + rx.acc <= ReceiverTime
                    /\ RxPos <= n => ReceiverTime <= Divider * n + rx.acc
  BY <1>3, <1>4
<1> DEFINE r == Divider * n
<1>5. r \in Int /\ (n <= RxPos => q <= q /\ r <= q) /\ (RxPos <= n => q <= r)
  BY <1>1, Multiples
<1> HIDE DEF q, r
<1> QED BY <1>1, <1>2, <1>5 DEF r

(* A system clock takes the sender on, unless it waits for a word or a     *)
(* start bit begins.                                                       *)
LEMMA TxPosMoves ==
  ASSUME Sending, SenderDelays, powered, StepTx, UNCHANGED program
  PROVE  /\ SenderDelays'
         /\ ~Due(tx, divider) => TxPos' = TxPos /\ tx'.pc = tx.pc
         /\ Due(tx, divider) =>
              \/ /\ TxPos' = TxPos + 1 /\ (tx.pc \in 3 .. 5 => tx'.pc \in {1, 3, 4, 5})
                 /\ tx.pc = 1 => tx'.pc \in {1, 2}
                 /\ tx.pc = 2 => tx'.pc = 2
              \/ tx.pc = 1 /\ tx'.pc = 1 /\ TxPos' = TxPos
              \/ tx.pc = 2 /\ tx.delay = 0 /\ tx'.pc = 3 /\ tx'.x = 8 /\ TxPos' = 1
<1> DEFINE due == Due(tx, divider) /\ tx.delay = 0
<1>0. tx.pc \in 1 .. 5 /\ tx.delay \in 0 .. 10 /\ tx.x \in 0 .. 8
  BY SenderParts
<1>p. /\ PullDelay \in 0 .. 7 /\ StopDelay \in 6 .. 7
      /\ PullDelay' = PullDelay /\ StopDelay' = StopDelay
  BY SenderParts DEF PullDelay, StopDelay
<1> HIDE DEF PullDelay, StopDelay
<1>1. CASE ~Due(tx, divider)
  <2>1. tx'.pc = tx.pc /\ tx'.x = tx.x /\ tx'.delay = tx.delay
    BY <1>1, TxStep
  <2> QED BY <1>1, <1>p, <2>1 DEF TxPos, SenderDelays
<1>2. CASE Due(tx, divider) /\ tx.delay > 0
  <2>1. tx'.pc = tx.pc /\ tx'.x = tx.x /\ tx'.delay = tx.delay - 1
    BY <1>2, TxStep
  <2>2. SenderDelays'
    BY <1>0, <1>p, <1>2, <2>1 DEF SenderDelays
  <2>3. tx.pc # 5
    BY <1>2 DEF SenderDelays
  <2>4. TxPos' = TxPos + 1
    BY <1>0, <1>p, <1>2, <2>1, <2>3 DEF TxPos
  <2> QED BY <1>0, <1>2, <2>1, <2>2, <2>4
<1>3. CASE due /\ tx.pc = 1
  <2>1. \/ tx'.pc = 1 /\ tx'.delay = 0
        \/ tx'.pc = 2 /\ tx'.delay = PullDelay
    BY <1>3, TxStep
  <2> QED BY <1>0, <1>p, <1>3, <2>1 DEF TxPos, SenderDelays
<1>4. CASE due /\ tx.pc = 2
  <2>1. tx'.pc = 3 /\ tx'.delay = 7 /\ tx'.x = 8
    BY <1>4, TxStep
  <2> QED BY <1>4, <2>1 DEF TxPos, SenderDelays
<1>5. CASE due /\ tx.pc = 3
  <2>1. tx'.pc = 4 /\ tx'.delay = 6 /\ tx'.x = tx.x
    BY <1>5, TxStep
  <2> QED BY <1>0, <1>5, <2>1 DEF TxPos, SenderDelays
<1>6. CASE due /\ tx.pc = 4
  <2>1. /\ tx'.pc = (IF tx.x = 0 THEN 5 ELSE 3)
        /\ tx'.delay = 0 /\ tx'.x = (IF tx.x = 0 THEN 0 ELSE tx.x - 1)
    BY <1>6, TxStep
  <2>2. CASE tx.x = 0
    BY <1>0, <1>6, <2>1, <2>2 DEF TxPos, SenderDelays
  <2>3. CASE tx.x # 0
    BY <1>0, <1>6, <2>1, <2>3 DEF TxPos, SenderDelays
  <2> QED BY <2>2, <2>3
<1>7. CASE due /\ tx.pc = 5
  <2>1. tx'.pc = 1 /\ tx'.delay = StopDelay
    BY <1>7, TxStep
  <2> QED BY <1>p, <1>7, <2>1 DEF TxPos, SenderDelays
<1> QED BY <1>0, <1>1, <1>2, <1>3, <1>4, <1>5, <1>6, <1>7
(* The sender's time goes on at the rate of the system clock, or stops     *)
(* while it waits for a word, and begins anew with a start bit.            *)
LEMMA SenderMoves ==
  ASSUME Sending, SenderDelays, powered, StepTx, UNCHANGED <<program, divider>>
  PROVE  /\ SenderDelays' /\ SenderTime' \in Int
         /\ tx.pc \in 3 .. 5 => SenderTime' = SenderTime + 256 /\ tx'.pc \in {1, 3, 4, 5}
         /\ tx.pc = 1 => tx'.pc \in {1, 2} /\ SenderTime' <= SenderTime + 256
         /\ tx.pc = 2 =>
              \/ tx'.pc = 2 /\ SenderTime' <= SenderTime + 256
              \/ /\ Due(tx, divider) /\ tx.delay = 0 /\ tx'.pc = 3 /\ tx'.x = 8
                 /\ SenderTime' = tx'.acc /\ tx'.acc \in 0 .. 255
<1> DEFINE d == divider
           q == d * TxPos
<1>1. /\ d \in Nat /\ d >= 256 /\ tx.acc \in Nat /\ tx.acc < d /\ TxPos \in Int
      /\ tx.pc \in 1 .. 5
  <2>1. TxPos \in 1 .. 96
    BY TxPosIn
  <2>2. d \in Nat /\ d >= 256 /\ tx.acc \in Nat /\ tx.acc < d /\ tx.pc \in 1 .. 5
    BY SenderParts
  <2> QED BY <2>1, <2>2
<1>2. tx'.acc = IF Due(tx, divider) THEN tx.acc + 256 - d ELSE tx.acc + 256
  <2>1. tx'.acc = (tx.acc + 256) % d
    BY TxStep
  <2> QED BY <1>1, <2>1, Accumulates DEF Due
<1>3. q \in Int /\ SenderTime = q - d + tx.acc
  BY <1>1, Multiples DEF SenderTime
<1>4. SenderTime' = d * (TxPos' - 1) + tx'.acc
  BY DEF SenderTime
<1>10. SenderTime' \in Int
  <2>1. TxPos' \in Int
    BY <1>1, TxPosMoves
  <2>2. d * (TxPos' - 1) \in Int
    BY <1>1, <2>1, Multiples
  <2>3. tx'.acc \in Int
    BY <1>1, <1>2
  <2> HIDE DEF d
  <2> QED BY <1>4, <2>2, <2>3
<1>5. ASSUME TxPos' = TxPos PROVE d * (TxPos' - 1) = q - d
  BY <1>1, <1>5, Multiples
<1>6. ASSUME TxPos' = TxPos + 1 PROVE d * (TxPos' - 1) = q
  BY <1>1, <1>6
<1>7. ASSUME TxPos' = 1 PROVE d * (TxPos' - 1) = 0
  BY <1>1, <1>7
<1>8. CASE ~Due(tx, divider)
  <2>1. TxPos' = TxPos /\ tx'.pc = tx.pc
    BY <1>8, TxPosMoves
  <2>2. SenderTime' = SenderTime + 256
    <3> HIDE DEF d, q
    <3> QED BY <1>1, <1>2, <1>3, <1>4, <1>5, <1>8, <2>1
  <2>3. SenderTime + 256 <= SenderTime + 256
    BY <1>1, <1>3
  <2> QED BY <1>1, <2>1, <2>2, <2>3, <1>10, TxPosMoves
<1>9. CASE Due(tx, divider)
  <2>1. CASE /\ TxPos' = TxPos + 1 /\ (tx.pc \in 3 .. 5 => tx'.pc \in {1, 3, 4, 5})
             /\ tx.pc = 1 => tx'.pc \in {1, 2}
             /\ tx.pc = 2 => tx'.pc = 2
    <3>2. SenderTime' = SenderTime + 256
      <4> HIDE DEF d, q
      <4> QED BY <1>1, <1>2, <1>3, <1>4, <1>6, <1>9, <2>1
    <3>3. SenderTime + 256 <= SenderTime + 256
      BY <1>1, <1>3
    <3> QED BY <1>1, <2>1, <3>2, <3>3, <1>10, TxPosMoves
  <2>2. CASE tx.pc = 1 /\ tx'.pc = 1 /\ TxPos' = TxPos
    <3>1. SenderTime' <= SenderTime + 256
      <4> HIDE DEF d, q
      <4> QED BY <1>1, <1>2, <1>3, <1>4, <1>5, <1>9, <2>2
    <3> QED BY <1>10, <2>2, <3>1, TxPosMoves
  <2>3. CASE tx.pc = 2 /\ tx.delay = 0 /\ tx'.pc = 3 /\ tx'.x = 8 /\ TxPos' = 1
    <3>1. tx'.acc \in 0 .. 255
      BY <1>1, <1>2, <1>9 DEF Due
    <3>2. SenderTime' = tx'.acc
      <4> HIDE DEF d, q
      <4> QED BY <1>4, <1>7, <2>3, <3>1
    <3> QED BY <1>9, <1>10, <2>3, <3>1, <3>2, TxPosMoves
  <2> QED BY <1>9, <2>1, <2>2, <2>3, TxPosMoves
<1> QED BY <1>8, <1>9

(* A system clock takes the receiver on, unless it waits for the line.     *)
LEMMA RxPosMoves ==
  ASSUME Receiving, ReceiverDelays, StepRx
  PROVE  /\ ReceiverDelays'
         /\ ~Due(rx, Divider) => RxPos' = RxPos /\ rx'.pc = rx.pc
         /\ Due(rx, Divider) =>
              CASE rx.pc = 1 -> IF Line = 0 THEN rx'.pc = 2 /\ RxPos' = 1 ELSE rx'.pc = 1
                [] rx.pc = 5 -> IF Line = 1 THEN rx'.pc = 1 ELSE rx'.pc = 5
                [] OTHER -> RxPos' = RxPos + 1 /\ rx'.pc \in 3 .. 5
<1> DEFINE due == Due(rx, Divider) /\ rx.delay = 0
<1>0. rx.pc \in 1 .. 5 /\ rx.delay \in 0 .. 10 /\ rx.x \in 0 .. 8
  BY ReceiverParts
<1>1. CASE ~Due(rx, Divider)
  <2>1. rx'.pc = rx.pc /\ rx'.x = rx.x /\ rx'.delay = rx.delay
    BY <1>1, RxStep
  <2> QED BY <1>1, <2>1 DEF RxPos, ReceiverDelays
<1>2. CASE Due(rx, Divider) /\ rx.delay > 0
  <2>1. rx'.pc = rx.pc /\ rx'.x = rx.x /\ rx'.delay = rx.delay - 1
    BY <1>2, RxStep
  <2>2. rx.pc \in {3, 4}
    BY <1>0, <1>2 DEF ReceiverDelays
  <2>3. ReceiverDelays'
    BY <1>0, <1>2, <2>1, <2>2 DEF ReceiverDelays
  <2>4. RxPos' = RxPos + 1
    BY <1>0, <1>2, <2>1, <2>2 DEF RxPos
  <2> QED BY <1>0, <1>2, <2>1, <2>2, <2>3, <2>4
<1>3. CASE due /\ rx.pc = 1
  <2>1. rx'.pc = (IF Line = 0 THEN 2 ELSE 1) /\ rx'.delay = 0
    BY <1>3, RxStep
  <2> QED BY <1>3, <2>1 DEF RxPos, ReceiverDelays
<1>4. CASE due /\ rx.pc = 2
  <2>1. rx'.pc = 3 /\ rx'.delay = 10 /\ rx'.x = 8
    BY <1>4, RxStep
  <2> QED BY <1>4, <2>1 DEF RxPos, ReceiverDelays
<1>5. CASE due /\ rx.pc = 3
  <2>1. rx'.pc = 4 /\ rx'.delay = 6 /\ rx'.x = rx.x
    BY <1>5, RxStep
  <2> QED BY <1>0, <1>5, <2>1 DEF RxPos, ReceiverDelays
<1>6. CASE due /\ rx.pc = 4
  <2>1. /\ rx'.pc = (IF rx.x = 0 THEN 5 ELSE 3)
        /\ rx'.delay = 0 /\ rx'.x = (IF rx.x = 0 THEN 0 ELSE rx.x - 1)
    BY <1>6, RxStep
  <2>2. CASE rx.x = 0
    BY <1>0, <1>6, <2>1, <2>2 DEF RxPos, ReceiverDelays
  <2>3. CASE rx.x # 0
    BY <1>0, <1>6, <2>1, <2>3 DEF RxPos, ReceiverDelays
  <2> QED BY <2>2, <2>3
<1>7. CASE due /\ rx.pc = 5
  <2>1. rx'.pc = (IF Line = 1 THEN 1 ELSE 5) /\ rx'.delay = 0
    BY <1>7, RxStep
  <2> QED BY <1>7, <2>1 DEF RxPos, ReceiverDelays
<1> QED BY <1>0, <1>1, <1>2, <1>3, <1>4, <1>5, <1>6, <1>7

(* The receiver's time goes on with the system clock, from the start bit   *)
(* to the stop bit.                                                        *)
LEMMA ReceiverMoves ==
  ASSUME Receiving, ReceiverDelays, StepRx
  PROVE  /\ ReceiverDelays'
         /\ rx'.acc \in Nat /\ rx'.acc < Divider
         /\ rx.pc \in 2 .. 4 => ReceiverTime' = ReceiverTime + 256 /\ rx'.pc \in 2 .. 5
         /\ rx.pc = 1 /\ Line = 0 =>
              /\ ReceiverTime' = ReceiverTime + 256
              /\ rx'.pc = IF Due(rx, Divider) THEN 2 ELSE 1
         /\ rx.pc = 1 /\ Line # 0 => rx'.pc = 1
         /\ rx.pc = 5 /\ ~Due(rx, Divider) =>
              /\ rx'.pc = 5 /\ ReceiverTime' = ReceiverTime + 256
              /\ rx'.acc = rx.acc + 256
         /\ rx.pc = 5 /\ Due(rx, Divider) =>
              IF Line = 1 THEN rx'.pc = 1
              ELSE rx'.pc = 5 /\ ReceiverTime' = ReceiverTime + 256 - Divider
<1> DEFINE q == Divider * RxPos
<1>1. /\ Divider \in Nat /\ Divider >= 256 /\ rx.acc \in Nat /\ rx.acc < Divider
      /\ RxPos \in Int /\ rx.pc \in 1 .. 5
  <2>1. RxPos \in 0 .. 84
    BY RxPosIn
  <2>2. Divider \in Nat /\ Divider >= 256 /\ rx.acc \in Nat /\ rx.acc < Divider /\ rx.pc \in 1 .. 5
    BY ReceiverParts
  <2> QED BY <2>1, <2>2
<1>2. rx'.acc = IF Due(rx, Divider) THEN rx.acc + 256 - Divider ELSE rx.acc + 256
  <2>1. rx'.acc = (rx.acc + 256) % Divider
    BY RxStep
  <2> QED BY <1>1, <2>1, Accumulates DEF Due
<1>3. rx'.acc \in Nat /\ rx'.acc < Divider
  BY <1>1, <1>2 DEF Due
<1>4. q \in Int /\ ReceiverTime = q + rx.acc
  BY <1>1, Multiples DEF ReceiverTime
<1>5. ReceiverTime' = Divider * RxPos' + rx'.acc
  BY DEF ReceiverTime
<1>6. ASSUME RxPos' = RxPos PROVE Divider * RxPos' = q
  BY <1>6
<1>7. ASSUME RxPos' = RxPos + 1 PROVE Divider * RxPos' = q + Divider
  BY <1>1, <1>7, Multiples
<1>8. CASE ~Due(rx, Divider)
  <2>1. RxPos' = RxPos /\ rx'.pc = rx.pc
    BY <1>8, RxPosMoves
  <2>2. ReceiverTime' = ReceiverTime + 256
    <3> HIDE DEF q
    <3> QED BY <1>1, <1>2, <1>4, <1>5, <1>6, <1>8, <2>1
  <2> QED BY <1>1, <1>2, <1>3, <1>8, <2>1, <2>2, RxPosMoves
<1>9. CASE Due(rx, Divider)
  <2>1. ASSUME RxPos' = RxPos + 1 PROVE ReceiverTime' = ReceiverTime + 256
    <3> HIDE DEF q
    <3> QED BY <1>1, <1>2, <1>4, <1>5, <1>7, <1>9, <2>1
  <2>2. ASSUME RxPos' = RxPos PROVE ReceiverTime' = ReceiverTime + 256 - Divider
    <3> HIDE DEF q
    <3> QED BY <1>1, <1>2, <1>4, <1>5, <1>6, <1>9, <2>2
  <2>3. CASE rx.pc \in 2 .. 4
    BY <1>3, <1>9, <2>1, <2>3, RxPosMoves
  <2>4. CASE rx.pc = 1
    <3>1. RxPos = 0
      BY <2>4 DEF RxPos
    <3>2. IF Line = 0 THEN rx'.pc = 2 /\ RxPos' = 1 ELSE rx'.pc = 1
      BY <1>9, <2>4, RxPosMoves
    <3> QED BY <1>3, <1>9, <2>1, <2>4, <3>1, <3>2, RxPosMoves
  <2>5. CASE rx.pc = 5
    <3>1. RxPos = 84 /\ (rx'.pc = 5 => RxPos' = 84)
      BY <2>5 DEF RxPos
    <3>2. IF Line = 1 THEN rx'.pc = 1 ELSE rx'.pc = 5
      BY <1>9, <2>5, RxPosMoves
    <3> QED BY <1>3, <1>9, <2>2, <2>5, <3>1, <3>2, RxPosMoves
  <2> QED BY <1>1, <2>3, <2>4, <2>5
<1> QED BY <1>8, <1>9
-----------------------------------------------------------------------------
(* The link: what the line carries, and how much of it the receiver has.   *)

Word == sent[Len(sent)]

(* The sender shifts out the last word, and the line shows its bits.       *)
Carrying ==
  /\ tx.pc # 1 => Len(sent) >= 1
  /\ tx.pc \in {2, 3, 4} => \A i \in 1 .. Len(tx.bits) : tx.bits[i] = Word[9 - Len(tx.bits) + i]
  /\ tx.pc \in {1, 2} => tx.pin = 1
  /\ tx.pc = 3 => tx.pin = IF tx.x = 8 THEN 0 ELSE Word[8 - tx.x]
  /\ tx.pc = 4 => tx.pin = Word[9 - tx.x]
  /\ tx.pc = 5 => tx.pin = Word[9]

(* The receiver waits for the stop bit.  Its time stands still when it     *)
(* finds the line low; but that is before the stop bit begins.             *)
Waiting == rx.pc = 5 /\ (InTime \/ SenderTime <= 80 * divider + 255 + rx.acc)

(* The receiver waits for the edge that has come, or takes the bits.       *)
Taking ==
  /\ Len(sent) = Len(received) + 1
  /\ rx.pc \in 1 .. 4
  /\ rx.pc = 1 => tx.pc = 3 /\ tx.x = 8
  /\ rx.pc = 4 => rx.x >= 1
  /\ \A i \in 1 .. Len(rx.bits) : rx.bits[i] = Word[i]
  /\ InTime /\ NotEarly

(* The receiver has all nine bits, while the last is on the line.          *)
Taken ==
  /\ Len(sent) = Len(received)
  /\ \/ rx.pc = 4 /\ rx.x = 0 /\ InTime /\ NotEarly
     \/ Waiting /\ NotEarly
     \/ rx.pc = 1 /\ tx.pin = 1 /\ (tx.pc = 5 \/ (tx.pc = 4 /\ tx.x = 0))

(* The line is high, and the receiver looks for it or has seen it.         *)
Finishing == \/ rx.pc = 1
             \/ rx.pc = 4 /\ rx.x = 0 /\ InTime
             \/ Waiting

Histories ==
  /\ sent \in Seq(Words) /\ received \in Seq(Words)
  /\ \A i \in 1 .. Len(received) : received[i] = sent[i]

Link ==
  IF powered
  THEN /\ Histories /\ SenderDelays /\ ReceiverDelays /\ Carrying
       /\ tx.pc = 1 => Len(sent) = Len(received) /\ Finishing
       /\ tx.pc = 2 => Len(sent) = Len(received) + 1 /\ Finishing
       /\ tx.pc \in 3 .. 5 => Taking \/ Taken
  ELSE sent = <<>> /\ received = <<>>

(* What the tolerance leaves at each of the points that matter: bit k is   *)
(* sampled in cycle 13 + 8 k of the receiver, and it is on the line from   *)
(* cycle 8 + 8 k of the sender to cycle 16 + 8 k.                          *)
LEMMA Margins ==
  ASSUME Tolerated, NEW d \in SenderDividers
  PROVE  /\ \A k \in 0 .. 8 : /\ Divider * (13 + 8 * k) + 254 < d * (16 + 8 * k)
                              /\ d * (8 + 8 * k) < Divider * (12 + 8 * k) - 254
         /\ Divider + 254 < 8 * d
         /\ 72 * d < 84 * Divider - 254
         /\ 77 * Divider + 254 < 80 * d
         /\ 84 * Divider + 510 < 88 * d
         /\ 85 * Divider + 254 < 88 * d
<1>1. d \in Nat /\ Divider \in Int /\ Divider >= 256
  BY Params
<1>2. 72 * d + 254 < 76 * Divider /\ 85 * Divider + 254 < 88 * d
  BY DEF Tolerated
<1> DEFINE D == Divider
<1> SUFFICES ASSUME NEW k \in 0 .. 8
             PROVE  D * (13 + 8 * k) + 254 < d * (16 + 8 * k)
                    /\ d * (8 + 8 * k) < D * (12 + 8 * k) - 254
  BY <1>1, <1>2
<1> HIDE DEF D
<1>3. D \in Int /\ D >= 256 /\ 72 * d + 254 < 76 * D /\ 85 * D + 254 < 88 * d
  BY <1>1, <1>2 DEF D
<1>4. CASE k = 0 BY <1>1, <1>3, <1>4
<1>5. CASE k = 1 BY <1>1, <1>3, <1>5
<1>6. CASE k = 2 BY <1>1, <1>3, <1>6
<1>7. CASE k = 3 BY <1>1, <1>3, <1>7
<1>8. CASE k = 4 BY <1>1, <1>3, <1>8
<1>9. CASE k = 5 BY <1>1, <1>3, <1>9
<1>10. CASE k = 6 BY <1>1, <1>3, <1>10
<1>11. CASE k = 7 BY <1>1, <1>3, <1>11
<1>12. CASE k = 8 BY <1>1, <1>3, <1>12
<1> QED BY <1>4, <1>5, <1>6, <1>7, <1>8, <1>9, <1>10, <1>11, <1>12

(* A bit is sampled while it is on the line. *)
LEMMA Sample ==
  ASSUME Tolerated, Sending, Receiving, SenderDelays, ReceiverDelays, Carrying, powered,
         tx.pc \in 3 .. 5, InTime, NotEarly,
         Due(rx, Divider), rx.delay = 0, rx.pc = 3
  PROVE  Line = Word[Len(rx.bits) + 1]
<1> DEFINE k == 8 - rx.x
           d == divider
           D == Divider
           a == D * (12 + 8 * k)
<1>0. /\ rx.x \in 0 .. 8 /\ k \in 0 .. 8 /\ Len(rx.bits) = k
      /\ RxPos = 12 + 8 * k
      /\ rx.acc \in Nat /\ rx.acc < D
  <2>1. rx.x \in 0 .. 8 /\ rx.acc \in Nat /\ rx.acc < D
    BY ReceiverParts
  <2>2. Len(rx.bits) + rx.x = 8 /\ Len(rx.bits) \in Nat
    BY ReceiverParts DEF Receiving
  <2>3. ASSUME NEW n \in Nat, NEW x \in 0 .. 8, n + x = 8 PROVE n = 8 - x
    BY <2>3
  <2>4. RxPos = 12 + 8 * k
    BY <2>1 DEF RxPos
  <2> QED BY <2>1, <2>2, <2>3, <2>4, SMTT(30)
<1>1. d \in Nat /\ d \in SenderDividers /\ D \in Int
  BY SenderParts, Params
<1>2. /\ a \in Int /\ ReceiverTime = a + rx.acc
      /\ ReceiverTime >= a + D - 256 /\ ReceiverTime <= a + D - 1
  <2>1. a \in Int
    BY <1>0, <1>1
  <2>2. ReceiverTime = a + rx.acc
    BY <1>0 DEF ReceiverTime
  <2>3. rx.acc >= D - 256
    BY ReceiverTimeIn
  <2>4. rx.acc \in Nat /\ rx.acc < D /\ D \in Int
    BY <1>0, <1>1
  <2> HIDE DEF a, D
  <2>5. ReceiverTime >= a + D - 256
    BY <2>1, <2>2, <2>3, <2>4
  <2>6. ReceiverTime <= a + D - 1
    BY <2>1, <2>2, <2>4
  <2> QED BY <2>1, <2>2, <2>5, <2>6
<1>3. /\ D * (13 + 8 * k) + 254 < d * (16 + 8 * k)
      /\ d * (8 + 8 * k) < a - 254
  <2> DEFINE Within(n) == /\ D * (13 + 8 * n) + 254 < d * (16 + 8 * n)
                          /\ d * (8 + 8 * n) < D * (12 + 8 * n) - 254
  <2>1. \A n \in 0 .. 8 : Within(n)
    BY <1>1, Margins
  <2>2. k \in 0 .. 8
    BY <1>0
  <2> HIDE DEF k, d, D, Within
  <2>3. Within(k)
    BY <2>1, <2>2, Zenon
  <2> QED BY <2>3 DEF a, Within
<1>4. D * (13 + 8 * k) = a + D
  BY <1>0, <1>1, Multiples, SMTT(30)
<1>t. TxPos \in 1 .. 96 /\ SenderTime \in Int
  BY TxPosIn, SenderTimeIn
<1>5. TxPos <= 16 + 8 * k
  <2> SUFFICES ASSUME TxPos >= 17 + 8 * k PROVE FALSE
    BY <1>0, <1>t
  <2>1. d * (17 + 8 * k) - d <= SenderTime
    BY <1>0, SenderTimeIn
  <2>2. d * (17 + 8 * k) - d = d * (16 + 8 * k)
    BY <1>0, <1>1
  <2>3. SenderTime <= ReceiverTime + 255
    BY DEF InTime
  <2> DEFINE u == d * (16 + 8 * k)
  <2>4. u \in Int /\ u <= SenderTime /\ a + D + 254 < u
    <3>1. u \in Int
      BY <1>0, <1>1
    <3>2. u <= SenderTime
      <4> HIDE DEF d, k
      <4> QED BY <2>1, <2>2
    <3>3. a + D + 254 < u
      <4> HIDE DEF d, k, a, D
      <4> QED BY <1>3, <1>4
    <3> QED BY <3>1, <3>2, <3>3
  <2> HIDE DEF u, a, D
  <2> QED BY <1>0, <1>1, <1>2, <1>t, <2>3, <2>4
<1>6. TxPos > 8 + 8 * k
  <2> SUFFICES ASSUME TxPos <= 8 + 8 * k PROVE FALSE
    BY <1>0, <1>t
  <2>1. SenderTime <= d * (8 + 8 * k) - 1
    BY <1>0, SenderTimeIn
  <2>2. ReceiverTime <= SenderTime + D - 1
    BY DEF NotEarly
  <2> DEFINE u == d * (8 + 8 * k)
  <2>3. u \in Int /\ SenderTime <= u - 1 /\ u < a - 254
    <3>1. u \in Int
      BY <1>0, <1>1
    <3> HIDE DEF d, k, a
    <3> QED BY <1>3, <2>1, <3>1
  <2> HIDE DEF u, a, D
  <2> QED BY <1>0, <1>1, <1>2, <1>t, <2>2, <2>3
<1>7. Line = tx.pin /\ tx.x \in 0 .. 8
  BY SenderParts DEF Line
<1>8. CASE tx.pc = 3
  <2>1. tx.x # 8
    BY <1>0, <1>6, <1>8, TxPosIn
  <2>2. TxPos = 8 * (9 - tx.x)
    BY <1>7, <1>8, <2>1, TxPosIn
  <2>3. 8 - tx.x = k + 1
    <3>1. ASSUME NEW n \in 0 .. 8, NEW x \in 0 .. 8,
                 8 * (9 - x) <= 16 + 8 * n, 8 * (9 - x) > 8 + 8 * n
          PROVE  8 - x = n + 1
      BY <3>1
    <3> HIDE DEF k
    <3> QED BY <1>0, <1>5, <1>6, <1>7, <2>2, <3>1
  <2> QED BY <1>0, <1>7, <1>8, <2>1, <2>3 DEF Carrying
<1>9. CASE tx.pc = 4
  <2>1. TxPos > 8 * (9 - tx.x) /\ TxPos < 8 * (10 - tx.x)
    BY <1>9, TxPosIn
  <2>2. 9 - tx.x = k + 1
    <3> HIDE DEF k
    <3> QED BY <1>0, <1>5, <1>6, <1>7, <1>t, <2>1, SMTT(30)
  <2> QED BY <1>0, <1>7, <1>9, <2>2 DEF Carrying
<1>10. CASE tx.pc = 5
  <2>1. TxPos = 80
    BY <1>10, TxPosIn
  <2>2. k = 8
    <3> HIDE DEF k
    <3> QED BY <1>0, <1>5, <2>1
  <2> QED BY <1>0, <1>7, <1>10, <2>2 DEF Carrying
<1> QED BY <1>8, <1>9, <1>10
(* What a step of the sender does to the line and to the words sent.       *)
LEMMA CarryingKept ==
  ASSUME Sending, SenderDelays, Carrying, sent \in Seq(Words), powered, StepTx
  PROVE  /\ Carrying' /\ sent' \in Seq(Words)
         /\ ~(tx.pc = 1 /\ tx'.pc = 2) => sent' = sent
         /\ tx.pc = 1 /\ tx'.pc = 2 => /\ Len(sent') = Len(sent) + 1
                                       /\ \A i \in 1 .. Len(sent) : sent'[i] = sent[i]
<1> DEFINE due == Due(tx, divider) /\ tx.delay = 0
<1>0. /\ tx.pc \in 1 .. 5 /\ tx.delay \in 0 .. 10 /\ tx.x \in 0 .. 8
      /\ tx.bits \in Seq(Bits) /\ Len(tx.bits) \in Nat /\ Len(sent) \in Nat
  BY SenderParts
<1>w. sent' = sent => Word' = Word
  BY DEF Word
<1> HIDE DEF Word
<1>1. CASE ~Due(tx, divider) \/ tx.delay > 0
  <2>1. /\ tx'.pc = tx.pc /\ tx'.x = tx.x /\ tx'.bits = tx.bits /\ tx'.pin = tx.pin
        /\ sent' = sent
    BY <1>1, TxStep
  <2>2. Word' = Word
    BY <1>w, <2>1
  <2>3. Carrying'
    <3>1. tx.pc \in {2, 3, 4} =>
            \A i \in 1 .. Len(tx'.bits) : tx'.bits[i] = Word'[9 - Len(tx'.bits) + i]
      BY <2>1, <2>2 DEF Carrying
    <3> QED BY <2>1, <2>2, <3>1 DEF Carrying
  <2> QED BY <2>1, <2>3
<1>2. CASE due /\ tx.pc = 1
  <2>1. /\ tx'.pin = 1
        /\ \/ tx'.pc = 1 /\ tx'.bits = tx.bits /\ sent' = sent
           \/ tx'.pc = 2 /\ tx'.bits \in Words /\ sent' = Append(sent, tx'.bits)
    BY <1>2, TxStep
  <2>2. CASE tx'.pc = 1 /\ sent' = sent
    BY <2>1, <2>2 DEF Carrying
  <2>3. CASE tx'.pc = 2 /\ tx'.bits \in Words /\ sent' = Append(sent, tx'.bits)
    <3>1. /\ sent' \in Seq(Words) /\ Len(sent') = Len(sent) + 1
          /\ sent'[Len(sent) + 1] = tx'.bits
          /\ \A i \in 1 .. Len(sent) : sent'[i] = sent[i]
      BY <2>3, AppendProperties
    <3>2. Len(tx'.bits) = 9
      BY <2>3, WordBits
    <3>3. Word' = tx'.bits
      BY <3>1 DEF Word
    <3>4. Carrying'
      BY <1>0, <2>1, <2>3, <3>1, <3>2, <3>3 DEF Carrying
    <3> QED BY <1>2, <2>3, <3>1, <3>4
  <2> QED BY <2>1, <2>2, <2>3
<1>3. CASE due /\ tx.pc = 2
  <2>1. tx'.pc = 3 /\ tx'.x = 8 /\ tx'.bits = tx.bits /\ tx'.pin = 0 /\ sent' = sent
    BY <1>3, TxStep
  <2>2. Word' = Word
    BY <1>w, <2>1
  <2>3. Carrying'
    <3>1. \A i \in 1 .. Len(tx'.bits) : tx'.bits[i] = Word'[9 - Len(tx'.bits) + i]
      BY <1>3, <2>1, <2>2 DEF Carrying
    <3>2. Len(sent') >= 1
      BY <1>3, <2>1 DEF Carrying
    <3>3. tx'.pc = 3 => tx'.pin = IF tx'.x = 8 THEN 0 ELSE Word'[8 - tx'.x]
      BY <2>1
    <3>4. tx'.pc \notin {1, 2, 4, 5}
      BY <2>1
    <3> QED BY <3>1, <3>2, <3>3, <3>4 DEF Carrying
  <2> QED BY <1>3, <2>1, <2>3
<1>4. CASE due /\ tx.pc = 3
  <2>1. /\ tx'.pc = 4 /\ tx'.x = tx.x /\ tx'.bits = Tail(tx.bits)
        /\ tx'.pin = tx.bits[1] /\ sent' = sent
    BY <1>4, TxStep
  <2>2. Len(tx.bits) = tx.x + 1
    BY <1>4 DEF Sending
  <2>3. tx.bits # <<>>
    BY <1>0, <2>2
  <2>4. /\ Len(tx'.bits) = tx.x
        /\ \A i \in 1 .. tx.x : tx'.bits[i] = tx.bits[i + 1]
    BY <1>0, <2>1, <2>2, <2>3, HeadTailProperties
  <2>5. \A i \in 1 .. tx.x + 1 : tx.bits[i] = Word[9 - (tx.x + 1) + i]
    BY <1>4, <2>2 DEF Carrying
  <2>6. tx'.pin = Word[9 - tx.x]
    <3>1. 1 \in 1 .. tx.x + 1 /\ 9 - (tx.x + 1) + 1 = 9 - tx.x
      BY <1>0
    <3> QED BY <2>1, <2>5, <3>1
  <2>7. ASSUME NEW i \in 1 .. tx.x PROVE tx'.bits[i] = Word[9 - tx.x + i]
    <3>1. i + 1 \in 1 .. tx.x + 1 /\ 9 - (tx.x + 1) + (i + 1) = 9 - tx.x + i
      BY <1>0, SMTT(30)
    <3> QED BY <2>4, <2>5, <3>1
  <2>8. Len(sent) >= 1
    BY <1>4 DEF Carrying
  <2>9. Word' = Word
    BY <1>w, <2>1
  <2>10. Carrying'
    <3>1. \A i \in 1 .. Len(tx'.bits) : tx'.bits[i] = Word'[9 - Len(tx'.bits) + i]
      BY <2>4, <2>7, <2>9
    <3>2. Len(sent') >= 1 /\ tx'.pin = Word'[9 - tx'.x]
      BY <2>1, <2>6, <2>8, <2>9
    <3>3. tx'.pc = 4 => tx'.pin = Word'[9 - tx'.x]
      BY <3>2
    <3>4. tx'.pc \notin {1, 2, 3, 5}
      BY <2>1
    <3> QED BY <3>1, <3>2, <3>3, <3>4 DEF Carrying
  <2> QED BY <1>4, <2>1, <2>10
<1>5. CASE due /\ tx.pc = 4
  <2>1. /\ tx'.pc = (IF tx.x = 0 THEN 5 ELSE 3)
        /\ tx'.x = (IF tx.x = 0 THEN 0 ELSE tx.x - 1)
        /\ tx'.bits = tx.bits /\ tx'.pin = tx.pin /\ sent' = sent
    BY <1>5, TxStep
  <2>2. Len(sent) >= 1 /\ tx.pin = Word[9 - tx.x]
    BY <1>5 DEF Carrying
  <2>3. CASE tx.x = 0
    BY <1>5, <1>w, <2>1, <2>2, <2>3 DEF Carrying
  <2>4. CASE tx.x # 0
    <3>1. tx'.pc = 3 /\ tx'.x = tx.x - 1 /\ tx'.x # 8 /\ 8 - tx'.x = 9 - tx.x
      BY <1>0, <2>1, <2>4
    <3>2. \A i \in 1 .. Len(tx'.bits) : tx'.bits[i] = Word[9 - Len(tx'.bits) + i]
      BY <1>5, <2>1 DEF Carrying
    <3>3. Word' = Word
      BY <1>w, <2>1
    <3>4. Carrying'
      <4>1. \A i \in 1 .. Len(tx'.bits) : tx'.bits[i] = Word'[9 - Len(tx'.bits) + i]
        BY <3>2, <3>3
      <4>2. Len(sent') >= 1 /\ tx'.pin = Word'[8 - tx'.x]
        BY <2>1, <2>2, <3>1, <3>3
      <4>3. tx'.pc = 3 => tx'.pin = IF tx'.x = 8 THEN 0 ELSE Word'[8 - tx'.x]
        BY <3>1, <4>2
      <4>4. tx'.pc \notin {1, 2, 4, 5}
        BY <3>1
      <4> QED BY <4>1, <4>2, <4>3, <4>4 DEF Carrying
    <3> QED BY <1>5, <2>1, <3>4
  <2> QED BY <2>3, <2>4
<1>6. CASE due /\ tx.pc = 5
  <2>1. tx'.pc = 1 /\ tx'.pin = 1 /\ sent' = sent
    BY <1>6, TxStep
  <2> QED BY <1>6, <2>1 DEF Carrying
<1> QED BY <1>0, <1>1, <1>2, <1>3, <1>4, <1>5, <1>6

(* The receiver with all its bits goes to wait for the stop bit.           *)
LEMMA RxFinishes ==
  ASSUME Receiving, StepRx, rx.pc = 4, rx.x = 0
  PROVE  (rx'.pc = 4 /\ rx'.x = 0) \/ rx'.pc = 5
<1>1. CASE ~Due(rx, Divider) \/ rx.delay > 0
  BY <1>1, RxStep
<1>2. CASE Due(rx, Divider) /\ rx.delay = 0
  BY <1>2, RxStep
<1> QED BY <1>1, <1>2, ReceiverParts

(* Both times go on alike. *)
LEMMA TimesMove ==
  ASSUME Sending, Receiving, SenderDelays, ReceiverDelays,
         SenderTime' <= SenderTime + 256, ReceiverTime' = ReceiverTime + 256,
         SenderTime' \in Int
  PROVE  /\ InTime => InTime'
         /\ NotEarly /\ SenderTime' = SenderTime + 256 => NotEarly'
<1>1. SenderTime \in Int /\ ReceiverTime \in Int /\ Divider \in Int
  BY SenderTimeIn, ReceiverTimeIn, Params
<1>2. InTime => InTime'
  BY <1>1 DEF InTime
<1>3. NotEarly /\ SenderTime' = SenderTime + 256 => NotEarly'
  BY <1>1 DEF NotEarly
<1> QED BY <1>2, <1>3
(* While the receiver takes a word, the word is on the line; it has the    *)
(* ninth bit before the sender is done.                                    *)
LEMMA TakingStep ==
  ASSUME Tolerated, Sending, Receiving, Receiving', SenderDelays, ReceiverDelays, Carrying,
         Histories, powered, Step, tx.pc \in 3 .. 5, Taking
  PROVE  /\ Histories'
         /\ \/ tx'.pc \in 3 .. 5 /\ (Taking' \/ Taken')
            \/ tx'.pc = 1 /\ Len(sent') = Len(received') /\ Finishing'
<1> DEFINE d == divider
           D == Divider
<1>0. /\ StepTx /\ StepRx
      /\ program' = program /\ divider' = divider /\ powered' = powered
  BY DEF Step
<1>1. /\ sent' = sent /\ Word' = Word
  <2>1. sent' = sent
    BY <1>0, CarryingKept DEF Histories
  <2> QED BY <2>1 DEF Word
<1>2. SenderTime' = SenderTime + 256 /\ tx'.pc \in {1, 3, 4, 5} /\ SenderTime' \in Int
  BY <1>0, SenderMoves
<1>3. /\ Len(sent) = Len(received) + 1 /\ rx.pc \in 1 .. 4
      /\ rx.pc = 1 => tx.pc = 3 /\ tx.x = 8
      /\ rx.pc = 4 => rx.x >= 1
      /\ \A i \in 1 .. Len(rx.bits) : rx.bits[i] = Word[i]
      /\ InTime /\ NotEarly
  BY DEF Taking
<1>4. /\ rx.x \in 0 .. 8 /\ rx.delay \in 0 .. 10 /\ rx.bits \in Seq(Bits) /\ Len(rx.bits) \in Nat
      /\ tx.x \in 0 .. 8 /\ tx.delay \in 0 .. 10 /\ tx.pc \in 3 .. 5
      /\ rx.acc \in Nat /\ rx.acc < D /\ D \in Nat /\ D >= 256
      /\ d \in Nat /\ d \in SenderDividers
  BY ReceiverParts, SenderParts
<1>5. rx.pc = 1 => Line = 0
  BY <1>3 DEF Carrying, Line
<1>6. ReceiverTime' = ReceiverTime + 256
  BY <1>0, <1>3, <1>5, ReceiverMoves
<1>7. InTime' /\ NotEarly'
  <2>1. SenderTime \in Int
    BY SenderTimeIn
  <2>2. SenderTime' <= SenderTime + 256
    BY <1>2, <2>1
  <2> QED BY <1>2, <1>3, <1>6, <2>2, TimesMove
<1>8. CASE Pushes
  <2>1. Due(rx, D) /\ rx.delay = 0 /\ rx.pc = 3 /\ Len(rx.bits) = 8
    BY <1>8, PushAt
  <2>2. rx'.pc = 4 /\ rx'.x = 0
    <3>1. rx.x = 0
      BY <1>4, <2>1, SMTT(30) DEF Receiving
    <3> QED BY <1>0, <2>1, <3>1, RxStep
  <2>3. Line = Word[9]
    <3>1. Len(rx.bits) + 1 = 9
      BY <2>1
    <3> QED BY <1>3, <2>1, <3>1, Sample
  <2>4. Word \in Words
    <3>1. sent \in Seq(Words) /\ received \in Seq(Words)
      BY DEF Histories
    <3>2. Len(sent) \in 1 .. Len(sent)
      BY <1>3, <3>1
    <3> QED BY <3>1, <3>2, ElementOfSeq DEF Word
  <2>5. Append(rx.bits, Line) = Word
    <3>1. Word \in Seq(Bits) /\ Len(Word) = 9
      BY <2>4, WordBits
    <3>2. /\ Append(rx.bits, Line) \in Seq(Bits) /\ Len(Append(rx.bits, Line)) = 9
          /\ \A i \in 1 .. 8 : Append(rx.bits, Line)[i] = rx.bits[i]
          /\ Append(rx.bits, Line)[9] = Line
      <4>1. /\ Append(rx.bits, Line) \in Seq(Bits)
            /\ Len(Append(rx.bits, Line)) = Len(rx.bits) + 1
            /\ \A i \in 1 .. Len(rx.bits) : Append(rx.bits, Line)[i] = rx.bits[i]
            /\ Append(rx.bits, Line)[Len(rx.bits) + 1] = Line
        BY <1>4, LineIsBit, AppendProperties
      <4>2. Len(rx.bits) = 8
        BY <2>1
      <4> QED BY <4>1, <4>2
    <3>3. ASSUME NEW i \in 1 .. 9 PROVE Append(rx.bits, Line)[i] = Word[i]
      <4>1. CASE i = 9
        BY <2>3, <3>2, <4>1
      <4>2. CASE i \in 1 .. 8
        BY <1>3, <2>1, <3>2, <4>2
      <4>3. i = 9 \/ i \in 1 .. 8
        OBVIOUS
      <4> QED BY <4>1, <4>2, <4>3
    <3> HIDE DEF Word
    <3> QED BY <3>1, <3>2, <3>3, SeqEqual
  <2>6. received' = Append(received, Word)
    BY <1>0, <1>8, <2>5 DEF StepRx
  <2>7. Histories' /\ Len(sent') = Len(received')
    <3>1. /\ sent \in Seq(Words) /\ received \in Seq(Words)
          /\ \A i \in 1 .. Len(received) : received[i] = sent[i]
      BY DEF Histories
    <3>2. /\ received' \in Seq(Words) /\ Len(received') = Len(received) + 1
          /\ \A i \in 1 .. Len(received) : received'[i] = received[i]
          /\ received'[Len(received) + 1] = Word
      BY <2>4, <2>6, <3>1, AppendProperties
    <3>3. Word = sent[Len(received) + 1]
      BY <1>3 DEF Word
    <3>4. ASSUME NEW i \in 1 .. Len(received) + 1 PROVE received'[i] = sent[i]
      <4>1. Len(received) \in Nat
        BY <3>1
      <4>2. CASE i = Len(received) + 1
        BY <3>2, <3>3, <4>2
      <4>3. CASE i \in 1 .. Len(received)
        BY <3>1, <3>2, <4>3
      <4> QED BY <4>1, <4>2, <4>3
    <3> QED BY <1>1, <1>3, <3>1, <3>2, <3>4 DEF Histories
  <2>8. CASE tx'.pc = 1
    BY <1>7, <2>2, <2>7, <2>8 DEF Finishing
  <2>9. CASE tx'.pc # 1
    BY <1>2, <1>7, <2>2, <2>7, <2>9 DEF Taken
  <2> QED BY <2>7, <2>8, <2>9
<1>9. CASE ~Pushes
  <2>1. received' = received
    BY <1>0, <1>9 DEF StepRx
  <2>2. Histories'
    BY <1>1, <2>1 DEF Histories
  <2>3. /\ rx'.pc \in 1 .. 4 /\ (rx'.pc = 4 => rx'.x >= 1)
        /\ rx'.pc = 1 => rx.pc = 1 /\ ~Due(rx, D)
        /\ \A i \in 1 .. Len(rx'.bits) : rx'.bits[i] = Word[i]
    <3>1. CASE ~Due(rx, D) \/ rx.delay > 0
      <4>1. rx'.pc = rx.pc /\ rx'.x = rx.x /\ rx'.bits = rx.bits
        BY <1>0, <3>1, RxStep
      <4>2. rx.pc = 1 => ~Due(rx, D)
        BY <3>1 DEF ReceiverDelays
      <4> QED BY <1>3, <4>1, <4>2
    <3>2. CASE Due(rx, D) /\ rx.delay = 0 /\ rx.pc = 1
      <4>1. rx'.pc = 2 /\ rx'.bits = <<>>
        BY <1>0, <1>5, <3>2, RxStep
      <4> QED BY <4>1
    <3>3. CASE Due(rx, D) /\ rx.delay = 0 /\ rx.pc = 2
      <4>1. rx'.pc = 3 /\ rx'.bits = <<>>
        BY <1>0, <3>3, RxStep
      <4> QED BY <4>1
    <3>4. CASE Due(rx, D) /\ rx.delay = 0 /\ rx.pc = 3
      <4>1. Len(rx.bits) # 8
        BY <1>9, <3>4, PushAt
      <4>2. rx'.pc = 4 /\ rx'.x = rx.x /\ rx'.bits = Append(rx.bits, Line)
        BY <1>0, <3>4, <4>1, RxStep
      <4>3. rx.x >= 1
        <5>1. Len(rx.bits) + rx.x = 8
          BY <3>4 DEF Receiving
        <5>2. ASSUME NEW n \in Nat, NEW x \in 0 .. 8, n + x = 8, n # 8 PROVE x >= 1
          BY <5>2
        <5> QED BY <1>4, <4>1, <5>1, <5>2
      <4>4. Line = Word[Len(rx.bits) + 1]
        BY <1>3, <3>4, Sample
      <4>5. /\ Len(rx'.bits) = Len(rx.bits) + 1
            /\ \A i \in 1 .. Len(rx.bits) : rx'.bits[i] = rx.bits[i]
            /\ rx'.bits[Len(rx.bits) + 1] = Line
        BY <1>4, <4>2, LineIsBit, AppendProperties
      <4>6. ASSUME NEW i \in 1 .. Len(rx.bits) + 1 PROVE rx'.bits[i] = Word[i]
        <5>1. CASE i = Len(rx.bits) + 1
          BY <4>4, <4>5, <5>1
        <5>2. CASE i \in 1 .. Len(rx.bits)
          BY <1>3, <4>5, <5>2
        <5> QED BY <1>4, <5>1, <5>2
      <4> QED BY <4>2, <4>3, <4>5, <4>6
    <3>5. CASE Due(rx, D) /\ rx.delay = 0 /\ rx.pc = 4
      <4>1. rx.x # 0
        BY <1>3, <3>5
      <4>2. rx'.pc = 3 /\ rx'.bits = rx.bits
        BY <1>0, <3>5, <4>1, RxStep
      <4> QED BY <1>3, <4>2
    <3> QED BY <1>3, <1>4, <3>1, <3>2, <3>3, <3>4, <3>5, SMTT(30)
  <2>4. tx'.pc # 1
    <3> SUFFICES ASSUME tx'.pc = 1 PROVE FALSE
      OBVIOUS
    <3>1. tx.pc = 5 /\ Due(tx, d) /\ tx.delay = 0
      <4>1. ~(~Due(tx, d) \/ tx.delay > 0)
        BY <1>0, <1>4, TxStep
      <4>2. Due(tx, d) /\ tx.delay = 0
        BY <1>4, <4>1
      <4>3. tx.pc # 3 /\ tx.pc # 4
        BY <1>0, <4>2, TxStep
      <4> QED BY <1>4, <4>2, <4>3
    <3>2. 80 * d - 256 <= SenderTime /\ SenderTime \in Int
      <4>1. TxPos = 80
        BY <3>1, TxPosIn
      <4>2. d * 80 - 256 <= SenderTime /\ SenderTime \in Int
        BY <3>1, <4>1, SenderTimeIn
      <4> QED BY <1>4, <4>2
    <3>3. ReceiverTime <= 77 * D - 257 /\ ReceiverTime \in Int
      <4>1. rx.pc \in 2 .. 4
        BY <1>3, <3>1
      <4>2. RxPos \in 0 .. 76
        <5>1. CASE rx.pc = 2
          BY <5>1 DEF RxPos
        <5>2. CASE rx.pc = 3
          BY <5>2, RxPosIn
        <5>3. CASE rx.pc = 4
          <6>1. rx.x \in 1 .. 8 /\ RxPos <= 19 + 8 * (8 - rx.x) /\ RxPos \in 0 .. 84
            BY <1>3, <1>4, <5>3, RxPosIn
          <6> QED BY <6>1
        <5> QED BY <4>1, <5>1, <5>2, <5>3
      <4>3. CASE ~Due(rx, D)
        <5>1. rx.acc <= D - 257
          BY <4>3, ReceiverTimeIn
        <5>2. ReceiverTime <= D * 76 + rx.acc /\ ReceiverTime \in Int
          BY <4>2, ReceiverTimeIn
        <5> HIDE DEF D
        <5> QED BY <1>4, <5>1, <5>2
      <4>4. CASE Due(rx, D)
        <5>1. RxPos <= 75
          <6> SUFFICES ASSUME RxPos = 76 PROVE FALSE
            BY <4>2
          <6>1. rx.pc = 3
            <7>1. rx.pc # 2
              BY DEF RxPos
            <7>2. rx.pc # 4
              <8> SUFFICES ASSUME rx.pc = 4 PROVE FALSE
                OBVIOUS
              <8>1. rx.x \in 1 .. 8 /\ RxPos <= 19 + 8 * (8 - rx.x)
                BY <1>3, <1>4, RxPosIn
              <8>2. 19 + 8 * (8 - rx.x) <= 75
                BY <8>1
              <8> QED BY <8>1, <8>2
            <7> QED BY <4>1, <7>1, <7>2
          <6>2. rx.x = 0 /\ rx.delay = 0
            <7>1. 12 + 8 * (8 - rx.x) - rx.delay = 76
              BY <6>1 DEF RxPos
            <7>2. ASSUME NEW x \in 0 .. 8, NEW n \in 0 .. 10, 12 + 8 * (8 - x) - n = 76
                  PROVE  x = 0 /\ n = 0
              BY <7>2
            <7> QED BY <1>4, <7>1, <7>2, ZenonT(60)
          <6>3. Len(rx.bits) = 8
            <7>1. Len(rx.bits) + rx.x = 8
              BY <6>1 DEF Receiving
            <7> QED BY <1>4, <6>2, <7>1
          <6> QED BY <1>9, <4>4, <6>1, <6>2, <6>3, PushAt
        <5>2. ReceiverTime <= D * 75 + rx.acc /\ ReceiverTime \in Int
          BY <5>1, ReceiverTimeIn
        <5> HIDE DEF D
        <5> QED BY <1>4, <5>2
      <4> QED BY <4>3, <4>4
    <3>4. 77 * D + 254 < 80 * d
      BY <1>4, Margins
    <3>5. SenderTime <= ReceiverTime + 255
      BY <1>3 DEF InTime
    <3> HIDE DEF d, D
    <3> QED BY <1>4, <3>2, <3>3, <3>4, <3>5
  <2>5. rx'.pc = 1 => tx'.pc = 3 /\ tx'.x = 8
    <3> SUFFICES ASSUME rx'.pc = 1 PROVE tx'.pc = 3 /\ tx'.x = 8
      OBVIOUS
    <3>1. rx.pc = 1 /\ ~Due(rx, D) /\ tx.pc = 3 /\ tx.x = 8
      BY <1>3, <2>3
    <3>2. CASE ~Due(tx, d) \/ tx.delay > 0
      BY <1>0, <3>1, <3>2, TxStep
    <3>3. CASE Due(tx, d) /\ tx.delay = 0
      <4>1. TxPos = 8
        BY <3>1, <3>3, TxPosIn
      <4>2. d * 8 - 256 <= SenderTime /\ SenderTime \in Int
        BY <3>3, <4>1, SenderTimeIn
      <4>3. rx.acc <= D - 257 /\ ReceiverTime <= D * 0 + rx.acc /\ ReceiverTime \in Int
        <5>1. RxPos = 0
          BY <3>1 DEF RxPos
        <5> QED BY <3>1, <5>1, ReceiverTimeIn
      <4>4. D + 254 < 8 * d
        BY <1>4, Margins
      <4>5. SenderTime <= ReceiverTime + 255
        BY <1>3 DEF InTime
      <4> HIDE DEF d, D
      <4> QED BY <1>4, <4>2, <4>3, <4>4, <4>5
    <3> QED BY <1>4, <3>2, <3>3
  <2>6. Taking'
    BY <1>1, <1>3, <1>7, <2>1, <2>3, <2>5 DEF Taking
  <2> QED BY <1>2, <2>2, <2>4, <2>6
<1> QED BY <1>8, <1>9
(* Waiting for the stop bit goes on until the line is high. *)
LEMMA WaitingStep ==
  ASSUME Sending, Receiving, SenderDelays, ReceiverDelays, powered, Step, Waiting,
         SenderTime' <= SenderTime + 256, SenderTime' \in Int,
         Line = 0 => TxPos <= 80
  PROVE  /\ Line = 1 /\ Due(rx, Divider) => rx'.pc = 1
         /\ ~(Line = 1 /\ Due(rx, Divider)) =>
              /\ Waiting'
              /\ NotEarly /\ SenderTime' = SenderTime + 256 => NotEarly'
<1> DEFINE d == divider
           D == Divider
<1>0. StepRx /\ divider' = divider /\ rx.pc = 5 /\ Line \in {0, 1}
  BY LineIsBit DEF Step, Waiting, Bits
<1>1. /\ d \in Nat /\ D \in Nat /\ D >= 256 /\ rx.acc \in Nat
      /\ SenderTime \in Int /\ ReceiverTime \in Int
  BY SenderParts, ReceiverParts, SenderTimeIn, ReceiverTimeIn
<1>2. CASE ~Due(rx, D)
  <2>1. rx'.pc = 5 /\ ReceiverTime' = ReceiverTime + 256 /\ rx'.acc = rx.acc + 256
    BY <1>0, <1>2, ReceiverMoves
  <2>2. /\ InTime => InTime'
        /\ NotEarly /\ SenderTime' = SenderTime + 256 => NotEarly'
    BY <2>1, TimesMove
  <2>3. ASSUME SenderTime <= 80 * d + 255 + rx.acc PROVE SenderTime' <= 80 * d + 255 + rx'.acc
    <3> HIDE DEF d
    <3> QED BY <1>1, <2>1, <2>3
  <2>4. Waiting'
    BY <1>0, <2>1, <2>2, <2>3 DEF Waiting
  <2> QED BY <1>2, <2>2, <2>4
<1>3. CASE Due(rx, D) /\ Line = 1
  BY <1>0, <1>3, ReceiverMoves
<1>4. CASE Due(rx, D) /\ Line = 0
  <2>1. rx'.pc = 5 /\ ReceiverTime' = ReceiverTime + 256 - D /\ rx'.acc \in Nat
    BY <1>0, <1>4, ReceiverMoves
  <2>2. SenderTime <= d * 80 - 1
    BY <1>4, SenderTimeIn
  <2>3. SenderTime' <= 80 * d + 255 + rx'.acc
    <3> HIDE DEF d
    <3> QED BY <1>1, <2>1, <2>2
  <2>4. Waiting'
    BY <1>0, <2>1, <2>3 DEF Waiting
  <2>5. NotEarly /\ SenderTime' = SenderTime + 256 => NotEarly'
    BY <1>1, <2>1 DEF NotEarly
  <2> QED BY <1>4, <2>4, <2>5
<1> QED BY <1>0, <1>2, <1>3, <1>4

(* A step that pushes no word leaves the histories of the receiver alone.  *)
LEMMA NoPush ==
  ASSUME Receiving, StepRx, rx.pc # 3
  PROVE  received' = received
BY PushAt DEF StepRx

(* With the word taken, the receiver comes to wait for the next one, but   *)
(* not before the last bit is on the line: it never takes that bit's       *)
(* successor for a start bit.                                              *)
LEMMA TakenStep ==
  ASSUME Tolerated, Sending, Receiving, SenderDelays, ReceiverDelays, Carrying,
         Histories, powered, Step, tx.pc \in 3 .. 5, Taken
  PROVE  /\ Histories'
         /\ \/ tx'.pc \in 3 .. 5 /\ Taken'
            \/ tx'.pc = 1 /\ Len(sent') = Len(received') /\ Finishing'
<1> DEFINE d == divider
           D == Divider
<1>0. /\ StepTx /\ StepRx
      /\ program' = program /\ divider' = divider /\ powered' = powered
  BY DEF Step
<1>1. sent' = sent /\ received' = received
  <2>1. sent' = sent
    BY <1>0, CarryingKept DEF Histories
  <2>2. rx.pc # 3
    BY DEF Taken, Waiting
  <2> QED BY <1>0, <2>1, <2>2, NoPush
<1>2. Histories' /\ Len(sent') = Len(received')
  BY <1>1 DEF Histories, Taken
<1>3. SenderTime' = SenderTime + 256 /\ tx'.pc \in {1, 3, 4, 5} /\ SenderTime' \in Int
  BY <1>0, SenderMoves
<1>4. /\ SenderTime \in Int /\ ReceiverTime \in Int /\ tx.x \in 0 .. 8
      /\ d \in Nat /\ d \in SenderDividers /\ D \in Nat /\ D >= 256 /\ rx.acc \in Nat
      /\ tx.delay \in 0 .. 10 /\ TxPos \in 1 .. 96
  BY SenderParts, ReceiverParts, SenderTimeIn, ReceiverTimeIn, TxPosIn
<1>5. SenderTime' <= SenderTime + 256
  BY <1>3, <1>4
<1>6. ASSUME tx.pc = 5 \/ (tx.pc = 4 /\ tx.x = 0), tx.pin = 1, rx'.pc = 1
      PROVE  \/ tx'.pc \in 3 .. 5 /\ Taken'
             \/ tx'.pc = 1 /\ Finishing'
  <2>1. /\ tx'.pin = 1
        /\ tx'.pc = 1 \/ tx'.pc = 5 \/ (tx'.pc = 4 /\ tx'.x = 0)
    <3>1. CASE ~Due(tx, d) \/ tx.delay > 0
      BY <1>0, <1>6, <3>1, TxStep
    <3>2. CASE Due(tx, d) /\ tx.delay = 0
      BY <1>0, <1>6, <3>2, TxStep
    <3> QED BY <1>4, <3>1, <3>2
  <2>2. CASE tx'.pc = 1
    BY <1>6, <2>2 DEF Finishing
  <2>3. CASE tx'.pc # 1
    <3>1. Taken'
      BY <1>2, <1>6, <2>1, <2>3 DEF Taken
    <3> QED BY <1>3, <2>3, <3>1
  <2> QED BY <2>2, <2>3
<1>7. CASE rx.pc = 4 /\ rx.x = 0 /\ InTime /\ NotEarly
  <2>1. (rx'.pc = 4 /\ rx'.x = 0) \/ rx'.pc = 5
    BY <1>0, <1>7, RxFinishes
  <2>2. ReceiverTime' = ReceiverTime + 256
    BY <1>0, <1>7, ReceiverMoves
  <2>3. InTime' /\ NotEarly'
    BY <1>3, <1>5, <1>7, <2>2, TimesMove
  <2>4. CASE tx'.pc = 1
    BY <1>2, <2>1, <2>3, <2>4 DEF Finishing, Waiting
  <2>5. CASE tx'.pc # 1
    BY <1>2, <1>3, <2>1, <2>3, <2>5 DEF Taken, Waiting
  <2> QED BY <1>2, <2>4, <2>5
<1>8. CASE Waiting /\ NotEarly
  <2>1. TxPos <= 80
    <3>1. CASE tx.pc = 3
      BY <1>4, <3>1, TxPosIn
    <3>2. CASE tx.pc = 4
      <4>1. TxPos < 8 * (10 - tx.x)
        BY <3>2, TxPosIn
      <4> QED BY <1>4, <4>1
    <3>3. CASE tx.pc = 5
      BY <3>3, TxPosIn
    <3> QED BY <3>1, <3>2, <3>3
  <2>2. CASE ~(Line = 1 /\ Due(rx, D))
    <3>1. Waiting' /\ NotEarly'
      BY <1>3, <1>5, <1>8, <2>1, <2>2, WaitingStep
    <3>2. CASE tx'.pc = 1
      BY <1>2, <3>1, <3>2 DEF Finishing
    <3>3. CASE tx'.pc # 1
      BY <1>2, <1>3, <3>1, <3>3 DEF Taken
    <3> QED BY <1>2, <3>2, <3>3
  <2>3. CASE Line = 1 /\ Due(rx, D)
    <3>1. rx'.pc = 1
      BY <1>3, <1>5, <1>8, <2>1, <2>3, WaitingStep
    <3>2. TxPos > 72
      <4> SUFFICES ASSUME TxPos <= 72 PROVE FALSE
        BY <1>4
      <4>1. SenderTime <= d * 72 - 1
        BY SenderTimeIn
      <4>2. D * 84 + rx.acc <= ReceiverTime /\ rx.acc >= D - 256
        <5>1. RxPos = 84
          BY <1>8 DEF Waiting, RxPos
        <5> QED BY <2>3, <5>1, ReceiverTimeIn
      <4>3. ReceiverTime <= SenderTime + D - 1
        BY <1>8 DEF NotEarly
      <4>4. 72 * d < 84 * D - 254
        BY <1>4, Margins
      <4> HIDE DEF d, D
      <4> QED BY <1>4, <4>1, <4>2, <4>3, <4>4
    <3>3. tx.pc = 5 \/ (tx.pc = 4 /\ tx.x = 0)
      <4>1. tx.pc # 3
        <5> SUFFICES ASSUME tx.pc = 3 PROVE FALSE
          OBVIOUS
        <5>1. TxPos \in 1 .. 8 \/ TxPos = 8 * (9 - tx.x)
          BY <1>4, TxPosIn
        <5> QED BY <1>4, <3>2, <5>1
      <4>2. tx.pc = 4 => tx.x = 0
        <5> SUFFICES ASSUME tx.pc = 4 PROVE tx.x = 0
          OBVIOUS
        <5>1. TxPos < 8 * (10 - tx.x)
          BY TxPosIn
        <5> QED BY <1>4, <3>2, <5>1
      <4> QED BY <4>1, <4>2
    <3>4. tx.pin = 1
      BY <2>3 DEF Line
    <3> QED BY <1>2, <1>6, <3>1, <3>3, <3>4
  <2> QED BY <2>2, <2>3
<1>9. CASE rx.pc = 1 /\ tx.pin = 1 /\ (tx.pc = 5 \/ (tx.pc = 4 /\ tx.x = 0))
  <2>1. Line # 0
    BY <1>9 DEF Line
  <2>2. rx'.pc = 1
    BY <1>0, <1>9, <2>1, ReceiverMoves
  <2> QED BY <1>2, <1>6, <1>9, <2>2
<1> QED BY <1>7, <1>8, <1>9 DEF Taken
(* Between two words: the line is high, and before the next start bit has  *)
(* begun the receiver looks for it.                                        *)
LEMMA PauseStep ==
  ASSUME Tolerated, Sending, Receiving, Receiving', SenderDelays, ReceiverDelays, Carrying,
         Histories, powered, Step, tx.pc \in 1 .. 2, Finishing,
         Len(sent) = IF tx.pc = 1 THEN Len(received) ELSE Len(received) + 1
  PROVE  /\ Histories'
         /\ \/ tx'.pc = 1 /\ Len(sent') = Len(received') /\ Finishing'
            \/ tx'.pc = 2 /\ Len(sent') = Len(received') + 1 /\ Finishing'
            \/ tx'.pc = 3 /\ Taking'
<1> DEFINE d == divider
           D == Divider
<1>0. /\ StepTx /\ StepRx
      /\ program' = program /\ divider' = divider /\ powered' = powered
  BY DEF Step
<1>1. received' = received
  <2>1. rx.pc # 3
    BY DEF Finishing, Waiting
  <2> QED BY <1>0, <2>1, NoPush
<1>h. /\ sent \in Seq(Words) /\ received \in Seq(Words)
      /\ Len(sent) \in Nat /\ Len(received) \in Nat /\ Len(received) <= Len(sent)
      /\ \A i \in 1 .. Len(received) : received[i] = sent[i]
  BY DEF Histories
<1>2. /\ sent' \in Seq(Words)
      /\ ~(tx.pc = 1 /\ tx'.pc = 2) => sent' = sent
      /\ tx.pc = 1 /\ tx'.pc = 2 => /\ Len(sent') = Len(sent) + 1
                                    /\ \A i \in 1 .. Len(sent) : sent'[i] = sent[i]
  BY <1>0, <1>h, CarryingKept
<1>3. Histories'
  <2>1. \A i \in 1 .. Len(received) : sent'[i] = sent[i]
    BY <1>h, <1>2
  <2> QED BY <1>1, <1>2, <1>h, <2>1 DEF Histories
<1>4. /\ SenderTime \in Int /\ ReceiverTime \in Int
      /\ d \in Nat /\ d \in SenderDividers /\ D \in Nat /\ D >= 256
      /\ rx.acc \in Nat /\ rx.acc < D /\ SenderTime' \in Int
  <2>1. SenderTime' \in Int
    BY <1>0, SenderMoves
  <2> QED BY <2>1, SenderParts, ReceiverParts, SenderTimeIn, ReceiverTimeIn
<1>5. Line = 1
  BY DEF Carrying, Line
<1>6. ASSUME SenderTime' <= SenderTime + 256 PROVE Finishing'
  <2>1. CASE rx.pc = 1
    <3>1. rx'.pc = 1
      BY <1>0, <1>5, <2>1, ReceiverMoves
    <3> QED BY <3>1 DEF Finishing
  <2>2. CASE rx.pc = 4 /\ rx.x = 0 /\ InTime
    <3>1. (rx'.pc = 4 /\ rx'.x = 0) \/ rx'.pc = 5
      BY <1>0, <2>2, RxFinishes
    <3>2. ReceiverTime' = ReceiverTime + 256
      BY <1>0, <2>2, ReceiverMoves
    <3>3. InTime'
      BY <1>4, <1>6, <2>2, <3>2, TimesMove
    <3> QED BY <3>1, <3>3 DEF Finishing, Waiting
  <2>3. CASE Waiting
    <3>1. rx'.pc = 1 \/ Waiting'
      BY <1>4, <1>5, <1>6, <2>3, WaitingStep
    <3> QED BY <3>1 DEF Finishing
  <2> QED BY <2>1, <2>2, <2>3 DEF Finishing
<1>7. CASE tx.pc = 1
  <2>1. tx'.pc \in {1, 2} /\ Finishing'
    BY <1>0, <1>6, <1>7, SenderMoves
  <2>2. Len(sent') = IF tx'.pc = 1 THEN Len(received') ELSE Len(received') + 1
    BY <1>1, <1>2, <1>7, <2>1
  <2> QED BY <1>3, <2>1, <2>2
<1>8. CASE tx.pc = 2 /\ tx'.pc = 2 /\ SenderTime' <= SenderTime + 256
  BY <1>1, <1>2, <1>3, <1>6, <1>8
<1>9. CASE /\ tx.pc = 2 /\ Due(tx, d) /\ tx.delay = 0 /\ tx'.pc = 3 /\ tx'.x = 8
           /\ SenderTime' = tx'.acc /\ tx'.acc \in 0 .. 255
  <2>1. d * 88 - 256 <= SenderTime
    <3>1. TxPos >= 88
      BY <1>9, TxPosIn
    <3> QED BY <1>9, <3>1, SenderTimeIn
  <2>2. 84 * D + 510 < 88 * d /\ 85 * D + 254 < 88 * d /\ D + 254 < 8 * d
    BY <1>4, Margins
  <2>3. rx'.pc = 1
    <3>1. CASE rx.pc = 1
      BY <1>0, <1>5, <3>1, ReceiverMoves
    <3>2. CASE rx.pc = 4 /\ rx.x = 0 /\ InTime
      <4>1. RxPos <= 83
        BY <3>2, RxPosIn
      <4>2. ReceiverTime <= D * 83 + rx.acc
        BY <4>1, ReceiverTimeIn
      <4>3. SenderTime <= ReceiverTime + 255
        BY <3>2 DEF InTime
      <4> HIDE DEF d, D
      <4> QED BY <1>4, <2>1, <2>2, <4>2, <4>3
    <3>3. CASE Waiting
      <4>1. CASE Due(rx, D)
        BY <1>0, <1>5, <3>3, <4>1, ReceiverMoves DEF Waiting
      <4>2. CASE ~Due(rx, D)
        <5>1. rx.acc <= D - 257
          BY <4>2, ReceiverTimeIn
        <5>2. ReceiverTime <= D * 84 + rx.acc
          <6>1. RxPos <= 84
            BY <3>3 DEF Waiting, RxPos
          <6> QED BY <6>1, ReceiverTimeIn
        <5>3. SenderTime <= ReceiverTime + 255 \/ SenderTime <= 80 * d + 255 + rx.acc
          BY <3>3 DEF Waiting, InTime
        <5> HIDE DEF d, D
        <5> QED BY <1>4, <2>1, <2>2, <5>1, <5>2, <5>3
      <4> QED BY <4>1, <4>2
    <3> QED BY <3>1, <3>2, <3>3 DEF Finishing
  <2>4. rx'.bits = <<>> /\ rx'.acc \in Nat /\ rx'.acc < D
    <3>1. rx'.bits = <<>>
      BY <2>3 DEF Receiving
    <3> QED BY <1>0, <3>1, ReceiverMoves
  <2>5. ReceiverTime' = rx'.acc
    <3>1. RxPos' = 0
      BY <2>3 DEF RxPos
    <3>2. D * 0 = 0 /\ rx'.acc = 0 + rx'.acc
      BY <1>4, <2>4
    <3> QED BY <3>1, <3>2 DEF ReceiverTime
  <2>6. InTime' /\ NotEarly'
    <3>1. ASSUME NEW a \in 0 .. 255, NEW b \in Nat, NEW c \in Nat, b < c
          PROVE  a <= b + 255 /\ b <= a + c - 1
      BY <3>1
    <3>2. tx'.acc <= rx'.acc + 255 /\ rx'.acc <= tx'.acc + D - 1
      <4> HIDE DEF D
      <4> QED BY <1>4, <1>9, <2>4, <3>1, ZenonT(60)
    <3>3. SenderTime' = tx'.acc /\ D' = D
      BY <1>9
    <3>4. InTime'
      BY <2>5, <3>2, <3>3 DEF InTime
    <3>5. NotEarly'
      BY <2>5, <3>2, <3>3 DEF NotEarly
    <3> QED BY <3>4, <3>5
  <2>7. Len(sent') = Len(received') + 1
    BY <1>1, <1>2, <1>9
  <2>8. Taking'
    BY <1>9, <2>3, <2>4, <2>6, <2>7 DEF Taking
  <2> QED BY <1>3, <1>9, <2>8
<1> QED BY <1>0, <1>7, <1>8, <1>9, SenderMoves

(* The link is kept in step. *)
LEMMA LinkKept ==
  ASSUME Tolerated, Sending, Receiving, Receiving', Link, Next
  PROVE  Link'
<1>1. CASE PowerOff
  BY <1>1 DEF PowerOff, Link
<1>2. CASE Step /\ ~powered
  <2>1. powered' = powered /\ sent' = sent /\ received' = received
    BY <1>2 DEF Step, StepTx, StepRx
  <2> QED BY <1>2, <2>1 DEF Link
<1>3. CASE Step /\ powered
  <2>0. /\ StepTx /\ StepRx
        /\ program' = program /\ divider' = divider /\ powered' = powered
    BY <1>3 DEF Step
  <2>1. Histories /\ SenderDelays /\ ReceiverDelays /\ Carrying
    BY <1>3 DEF Link
  <2>2. SenderDelays' /\ ReceiverDelays' /\ Carrying'
    <3>1. SenderDelays'
      BY <1>3, <2>0, <2>1, SenderMoves
    <3>2. ReceiverDelays'
      BY <2>0, <2>1, ReceiverMoves
    <3>3. Carrying'
      BY <1>3, <2>0, <2>1, CarryingKept DEF Histories
    <3> QED BY <3>1, <3>2, <3>3
  <2>3. /\ Histories'
        /\ \/ tx'.pc = 1 /\ Len(sent') = Len(received') /\ Finishing'
           \/ tx'.pc = 2 /\ Len(sent') = Len(received') + 1 /\ Finishing'
           \/ tx'.pc \in 3 .. 5 /\ (Taking' \/ Taken')
    <3>1. CASE tx.pc \in 1 .. 2
      <4>1. /\ Finishing
            /\ Len(sent) = IF tx.pc = 1 THEN Len(received) ELSE Len(received) + 1
        BY <1>3, <3>1 DEF Link
      <4> QED BY <1>3, <2>1, <3>1, <4>1, PauseStep
    <3>2. CASE tx.pc \in 3 .. 5 /\ Taking
      BY <1>3, <2>1, <3>2, TakingStep
    <3>3. CASE tx.pc \in 3 .. 5 /\ Taken
      BY <1>3, <2>1, <3>3, TakenStep
    <3>4. tx.pc \in 1 .. 5 /\ (tx.pc \in 3 .. 5 => Taking \/ Taken)
      BY <1>3, SenderParts DEF Link
    <3> QED BY <3>1, <3>2, <3>3, <3>4
  <2>4. powered'
    BY <1>3, <2>0
  <2> QED BY <2>2, <2>3, <2>4 DEF Link
<1> QED BY <1>1, <1>2, <1>3 DEF Next

(* At first nothing has been sent. *)
LEMMA LinkAtFirst == ASSUME Init PROVE Link
<1>1. sent = <<>> /\ received = <<>> /\ powered = TRUE
  BY DEF Init
<1>2. /\ tx.pc = 1 /\ tx.delay = 0 /\ tx.pin = 1
      /\ rx.pc = 1 /\ rx.delay = 0
  <2>1. tx = Machine(0)
    BY DEF Init
  <2>2. PICK p \in Phases : rx = Machine(p)
    BY DEF Init
  <2>3. p \in Nat
    BY Params
  <2> HIDE DEF Machine
  <2> QED BY <2>1, <2>2, <2>3, MachineReset
<1>3. SenderDelays
  <2>1. StopDelay >= 0
    BY MachinesAtFirst, SenderParts
  <2> HIDE DEF StopDelay
  <2> QED BY <1>2, <2>1 DEF SenderDelays
<1>4. ReceiverDelays
  BY <1>2 DEF ReceiverDelays
<1>5. Carrying
  BY <1>2 DEF Carrying
<1>6. Histories
  BY <1>1 DEF Histories
<1>7. Len(sent) = Len(received) /\ Finishing
  BY <1>1, <1>2 DEF Finishing
<1> QED BY <1>1, <1>2, <1>3, <1>4, <1>5, <1>6, <1>7 DEF Link

(* What has been received is the beginning of what has been sent.          *)
LEMMA LinkArrives == ASSUME Sending, Link PROVE WordsArrive
<1>1. CASE ~powered
  <2>1. sent = <<>> /\ received = <<>>
    BY <1>1 DEF Link
  <2> QED BY <1>1, <2>1 DEF WordsArrive
<1>2. CASE powered
  <2>1. /\ sent \in Seq(Words) /\ received \in Seq(Words)
        /\ \A i \in 1 .. Len(received) : received[i] = sent[i]
    BY <1>2 DEF Link, Histories
  <2>2. /\ Len(received) <= Len(sent)
        /\ tx.pc = 1 => Len(received) = Len(sent)
    <3>1. Len(sent) = Len(received) \/ Len(sent) = Len(received) + 1
      BY <1>2, SenderParts DEF Link, Taking, Taken
    <3>2. tx.pc = 1 => Len(received) = Len(sent)
      BY <1>2 DEF Link
    <3> QED BY <2>1, <3>1, <3>2
  <2>3. received = SubSeq(sent, 1, Len(received))
    <3> DEFINE n == Len(received)
               p == SubSeq(sent, 1, n)
    <3>1. n \in Nat /\ n <= Len(sent)
      BY <2>1, <2>2
    <3>2. \A i \in 1 .. n : sent[i] \in Words
      BY <2>1, <3>1, ElementOfSeq
    <3>3. p \in Seq(Words) /\ Len(p) = n /\ \A i \in 1 .. n : p[i] = sent[i]
      <4>1. /\ p \in Seq(Words) /\ Len(p) = (IF 1 <= n THEN n - 1 + 1 ELSE 0)
            /\ \A i \in 1 .. n - 1 + 1 : p[i] = sent[1 + i - 1]
        <5> HIDE DEF n
        <5> QED BY <3>1, <3>2, SubSeqProperties
      <4> HIDE DEF n, p
      <4> QED BY <3>1, <4>1
    <3>4. \A i \in 1 .. n : received[i] = p[i]
      BY <2>1, <3>3
    <3> HIDE DEF p
    <3> QED BY <2>1, <3>3, <3>4, SeqEqual
  <2> QED BY <2>2, <2>3 DEF WordsArrive
<1> QED BY <1>1, <1>2

(* The words come out as they went in, in order, none lost and none made   *)
(* up, at every phase of the two clocks, for every system clock and baud   *)
(* rate, every word, and every sender whose clock is within the tolerance: *)
(* each bit is sampled while it is on the line, and the receiver is back   *)
(* at its first instruction before the next start bit begins.              *)
THEOREM WordsAlwaysArrive == ASSUME Tolerated PROVE Spec => []WordsArrive
<1> DEFINE I == Sending /\ Receiving /\ Stray
<1>1. Init => I /\ Link
  BY LinkAtFirst, MachinesAtFirst
<1>2. I /\ I' /\ Link /\ [Next]_vars => Link'
  <2> SUFFICES ASSUME Sending, Receiving, Receiving', Link, [Next]_vars PROVE Link'
    OBVIOUS
  <2>1. CASE Next
    BY <2>1, LinkKept
  <2>2. CASE UNCHANGED vars
    <3>1. /\ program' = program /\ divider' = divider /\ powered' = powered /\ tx' = tx
          /\ rx' = rx /\ sent' = sent /\ received' = received
      BY <2>2 DEF vars
    <3>2. StopDelay' = StopDelay /\ PullDelay' = PullDelay /\ Word' = Word
      BY <3>1 DEF StopDelay, PullDelay, Word
    <3>3. TxPos' = TxPos /\ RxPos' = RxPos
      BY <3>1, <3>2 DEF TxPos, RxPos
    <3>4. SenderTime' = SenderTime /\ ReceiverTime' = ReceiverTime
      BY <3>1, <3>3 DEF SenderTime, ReceiverTime
    <3>5. (InTime <=> InTime') /\ (NotEarly <=> NotEarly')
      BY <3>4 DEF InTime, NotEarly
    <3>6. Waiting <=> Waiting'
      BY <3>1, <3>4, <3>5 DEF Waiting
    <3>7. (Taking <=> Taking') /\ (Taken <=> Taken') /\ (Finishing <=> Finishing')
      BY <3>1, <3>2, <3>5, <3>6 DEF Taking, Taken, Finishing
    <3>8. Histories => Histories'
      BY <3>1 DEF Histories
    <3>9. SenderDelays => SenderDelays'
      BY <3>1, <3>2 DEF SenderDelays
    <3>10. ReceiverDelays => ReceiverDelays'
      BY <3>1 DEF ReceiverDelays
    <3>11. Carrying => Carrying'
      <4> HIDE DEF Word
      <4> QED BY <3>1, <3>2 DEF Carrying
    <3> QED BY <3>1, <3>7, <3>8, <3>9, <3>10, <3>11 DEF Link
  <2> QED BY <2>1, <2>2
<1>3. I /\ Link => WordsArrive
  BY LinkArrives
<1>4. Spec => []I
  BY MachinesStand
<1> HIDE DEF I
<1> QED BY <1>1, <1>2, <1>3, <1>4, PTL DEF Spec

(* The transmit program of the firmware and its receive program have one   *)
(* divider: what the one sends the other receives, whatever the clock.     *)
THEOREM LoopbackArrives == ASSUME SenderDividers = {Divider} PROVE Spec => []WordsArrive
<1>1. Divider \in Int /\ Divider >= 256
  BY Params
<1>2. Tolerated
  BY <1>1 DEF Tolerated
<1> QED BY <1>2, WordsAlwaysArrive

(* From 706 256ths on, a sender may be off by three percent either way.    *)
THEOREM ThreePercent ==
  ASSUME Divider >= 706,
         \A d \in SenderDividers : 97 * Divider <= 100 * d /\ 100 * d <= 103 * Divider
  PROVE  Spec => []WordsArrive
<1>1. Divider \in Int /\ \A d \in SenderDividers : d \in Int
  BY Params
<1>2. Tolerated
  BY <1>1 DEF Tolerated
<1> QED BY <1>2, WordsAlwaysArrive
=============================================================================
