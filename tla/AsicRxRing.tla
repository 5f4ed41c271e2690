----------------------------- MODULE AsicRxRing -----------------------------
(***************************************************************************)
(* The ASIC receive path: src/pio_uart.rs, asic_to_esp_task of src/uart.rs *)
(* and the calls of the gate in src/control/mod.rs.                        *)
(*                                                                         *)
(* A PIO state machine pushes words into its RX FIFO, a DMA channel moves  *)
(* them from there into a ring in memory, and a task copies them out of    *)
(* the ring and writes their low bytes to the ESP.  The control task opens *)
(* and closes the gate, that is, it starts and stops all of this, when the *)
(* ASIC is powered and when it is not.                                     *)
(*                                                                         *)
(* PIO and DMA run at any time.  The two tasks share one executor: each    *)
(* runs without the other from one await to the next.                      *)
(*                                                                         *)
(* A word is known by its session (a period with the gate open) and by its *)
(* number in it.  What the PIO makes of a dead line, and what was in the   *)
(* ring at boot, is Noise.                                                 *)
(***************************************************************************)
EXTENDS Integers, Sequences, FiniteSets

CONSTANTS
  RingWords,      \* ASIC_RX_DMA_RING_WORDS
  TransferCount,  \* ASIC_RX_DMA_TRANSFER_COUNT
  FifoWords,      \* PIO_RX_FIFO_BYTES, the depth of the joined RX FIFO
  ChunkBytes,     \* the length of the buffer of asic_to_esp_task
  U32,            \* 2^32, the number of values of a u32
  SessionCap,     \* bound: sessions of a behaviour
  WordCap         \* bound: words of a session

ASSUME RingAssumption ==
  /\ {RingWords, TransferCount, FifoWords, ChunkBytes} \subseteq Nat \ {0}
  /\ {SessionCap, WordCap} \subseteq Nat
  /\ U32 \in Nat /\ TransferCount < U32

VARIABLES
  powered,    \* the pins: 5 V on and reset released
  gate,       \* where the control task is in applying outputs or in GET_RX_STATS
  forward,    \* forward_asic_rx of the outputs being applied
  enabled,    \* ASIC_RX_ENABLED
  signal,     \* ASIC_RX_GATE_CHANGED
  sm,         \* whether the RX state machine is enabled
  isr,        \* the word with which the state machine is stalled, if any
  fifo,       \* its RX FIFO
  stall,      \* FDEBUG.RXSTALL
  busy,       \* CTRL_TRIG.BUSY of the channel
  moved,      \* words moved since the channel was started
  ring,       \* ASIC_RX_DMA_RING
  consumed,   \* ASIC_RX_DMA_CONSUMED
  fresh,      \* ASIC_RX_DMA_GENERATION is what it was at the snapshot
  fifoOvf,    \* ASIC_RX_FIFO_OVERFLOWS
  ringOvf,    \* ASIC_RX_RING_OVERFLOWS
  pc,         \* where asic_to_esp_task is
  window,     \* what it is copying: first index and number of words
  chunk,      \* the words copied, and then those still to be written
  session,    \* history: number of the session
  entered,    \* history: words of the session that the PIO kept
  base,       \* history: of these, moved before the channel was restarted
  untold,     \* history: the PIO has stalled since fifoOvf last went up
  raced,      \* history: DMA has overtaken a copy in the session
  forgotten,  \* history: words of the session given up by a restart
  got         \* history: numbers of the words of the session taken

smVars   == <<sm, isr, fifo, stall>>
dmaVars  == <<busy, moved, ring>>
ctlVars  == <<powered, gate, forward>>
statVars == <<fifoOvf, ringOvf>>
copyVars == <<window, chunk>>
lossVars == <<base, untold, raced, forgotten, got>>
vars == <<powered, gate, forward, enabled, signal, sm, isr, fifo, stall, busy, moved, ring,
          consumed, fresh, fifoOvf, ringOvf, pc, window, chunk, session, entered,
          base, untold, raced, forgotten, got>>

Words == [s : Nat, n : Nat]
Noise == [s |-> 0, n |-> 0]

Slots == 0 .. RingWords - 1
Slot(k) == k % RingWords

TypeOK ==
  /\ {powered, forward, enabled, signal, sm, stall, busy, fresh, untold, raced} \subseteq BOOLEAN
  /\ gate \in {"idle", "stop", "disable", "reset", "finish", "count"}
  /\ isr \in Seq(Words) /\ Len(isr) <= 1
  /\ fifo \in Seq(Words) /\ Len(fifo) <= FifoWords
  /\ moved \in 0 .. TransferCount
  /\ ring \in [Slots -> Words]
  /\ consumed \in 0 .. TransferCount
  /\ {fifoOvf, ringOvf, session, entered, base, forgotten} \subseteq Nat
  /\ pc \in {"top", "gate", "sleep", "snapshot", "copy", "report", "count", "write"}
  /\ window \in [start : Nat, count : 0 .. ChunkBytes]
  /\ chunk \in Seq(Words) /\ Len(chunk) <= ChunkBytes
  /\ got \subseteq Nat

(* main(), PioUart::new() and the statics.  The control task is spawned    *)
(* first, the receive task waits for its first poll.                       *)
Init ==
  /\ powered = FALSE /\ gate = "idle" /\ forward = FALSE
  /\ enabled = FALSE /\ signal = FALSE
  /\ sm = FALSE /\ isr = <<>> /\ fifo = <<>> /\ stall = FALSE
  /\ busy = FALSE /\ moved = 0 /\ ring = [i \in Slots |-> Noise]
  /\ consumed = 0 /\ fresh = FALSE /\ fifoOvf = 0 /\ ringOvf = 0
  /\ pc = "sleep" /\ window = [start |-> 0, count |-> 0] /\ chunk = <<>>
  /\ session = 0 /\ entered = 0
  /\ base = 0 /\ untold = FALSE /\ raced = FALSE /\ forgotten = 0 /\ got = {}

-----------------------------------------------------------------------------
(* PIO and DMA. *)

(* What the state machine makes of the line. *)
Sampled == IF powered THEN [s |-> session, n |-> entered] ELSE Noise

(* The state machine has sampled a whole word.  Autopush stalls it while   *)
(* the FIFO is full.                                                       *)
Receive ==
  /\ sm /\ isr = <<>> /\ entered < WordCap
  /\ entered' = entered + 1
  /\ IF Len(fifo) < FifoWords
     THEN fifo' = Append(fifo, Sampled) /\ UNCHANGED <<isr, stall, untold>>
     ELSE isr' = <<Sampled>> /\ stall' = TRUE /\ untold' = TRUE /\ UNCHANGED fifo
  /\ UNCHANGED <<ctlVars, enabled, signal, sm, dmaVars, consumed, fresh, statVars, pc,
                 copyVars, session, base, raced, forgotten, got>>

(* A state machine that is still stalled does not see what arrives, and    *)
(* raises the flag again if it was cleared meanwhile.                      *)
Lose ==
  /\ sm /\ isr # <<>> /\ Len(fifo) = FifoWords /\ ~(stall /\ untold)
  /\ fifoOvf < WordCap
  /\ stall' = TRUE /\ untold' = TRUE
  /\ UNCHANGED <<ctlVars, enabled, signal, sm, isr, fifo, dmaVars, consumed, fresh, statVars,
                 pc, copyVars, session, entered, base, raced, forgotten, got>>

Unstall ==
  /\ sm /\ isr # <<>> /\ Len(fifo) < FifoWords
  /\ fifo' = Append(fifo, Head(isr)) /\ isr' = <<>>
  /\ UNCHANGED <<ctlVars, enabled, signal, sm, stall, dmaVars, consumed, fresh, statVars, pc,
                 copyVars, session, entered, lossVars>>

(* The indices that the task has snapped but not yet copied. *)
Uncopied == IF pc = "copy" THEN window.start + Len(chunk) .. window.start + window.count - 1
                           ELSE {}

(* One transfer of the channel; the address wraps with the ring, and the   *)
(* channel stops for good after TransferCount of them.                     *)
Transfer ==
  /\ busy /\ fifo # <<>>
  /\ ring' = [ring EXCEPT ![Slot(moved)] = Head(fifo)]
  /\ fifo' = Tail(fifo)
  /\ moved' = moved + 1
  /\ busy' = (moved' < TransferCount)
  /\ raced' = (raced \/ moved - RingWords \in Uncopied)
  /\ UNCHANGED <<ctlVars, enabled, signal, sm, isr, stall, consumed, fresh, statVars, pc,
                 copyVars, session, entered, base, untold, forgotten, got>>

-----------------------------------------------------------------------------
(* The control task: apply_safety_outputs() with the gate inside, from     *)
(* begin to end without an await.                                          *)

(* A task has the processor until it awaits something. *)
AtAwait == pc \in {"gate", "sleep", "write"}

(* The outputs differ from the applied ones.  Only one set of outputs      *)
(* forwards, so there is nothing to apply when it is in place.  Pins go up *)
(* before the gate opens, and down after it has closed.                    *)
Apply(forwards) ==
  /\ gate = "idle" /\ AtAwait
  /\ forwards => ~powered /\ session < SessionCap
  /\ forward' = forwards
  /\ powered' = (powered \/ forwards)
  /\ gate' = "stop"
  /\ UNCHANGED <<enabled, signal, smVars, dmaVars, consumed, fresh, statVars, pc, copyVars,
                 session, entered, lossVars>>

(* set_buffered_rx_forwarding_enabled(): first the channel is aborted ... *)
Stop ==
  /\ gate = "stop" /\ gate' = "disable"
  /\ enabled' = FALSE
  /\ busy' = FALSE
  /\ UNCHANGED <<powered, forward, signal, smVars, moved, ring, consumed, fresh, statVars, pc,
                 copyVars, session, entered, lossVars>>

BugDisable ==    \* leaves the state machine on while the FIFO is drained
  /\ gate = "disable" /\ gate' = "reset"
  /\ UNCHANGED <<powered, forward, enabled, signal, smVars, dmaVars, consumed, fresh, statVars,
                 pc, copyVars, session, entered, lossVars>>

(* ... then the state machine is disabled, ... *)
Disable ==
  /\ gate = "disable" /\ gate' = "reset"
  /\ sm' = FALSE
  /\ UNCHANGED <<powered, forward, enabled, signal, isr, fifo, stall, dmaVars, consumed, fresh,
                 statVars, pc, copyVars, session, entered, lossVars>>

Reset(drained) ==
  /\ gate = "reset" /\ gate' = "finish"
  /\ fifo' = drained /\ stall' = FALSE
  /\ fifoOvf' = 0 /\ ringOvf' = 0
  /\ consumed' = 0
  /\ fresh' = FALSE
  /\ UNCHANGED <<powered, forward, enabled, signal, sm, isr, dmaVars, pc, copyVars,
                 session, entered, lossVars>>

BugDrain == Reset(fifo)    \* forgets the FIFO

(* ... the FIFO is drained and the accounts are cleared, ... *)
Drain == Reset(<<>>)

(* ... and everything is started again, if it is to be: the state machine  *)
(* from scratch, the channel, and then the gate.                           *)
Open ==
  /\ gate = "finish" /\ forward /\ gate' = "idle"
  /\ isr' = <<>> /\ sm' = TRUE
  /\ moved' = 0 /\ busy' = TRUE
  /\ enabled' = TRUE /\ signal' = TRUE
  /\ session' = session + 1 /\ entered' = 0
  /\ base' = 0 /\ untold' = FALSE /\ raced' = FALSE /\ forgotten' = 0 /\ got' = {}
  /\ UNCHANGED <<powered, forward, fifo, stall, ring, consumed, fresh, statVars, pc, copyVars>>

Close ==
  /\ gate = "finish" /\ ~forward /\ gate' = "idle"
  /\ powered' = FALSE
  /\ signal' = TRUE
  /\ UNCHANGED <<forward, enabled, smVars, dmaVars, consumed, fresh, statVars, pc, copyVars,
                 session, entered, lossVars>>

(* buffered_rx_overflows() clears the flag and counts if it has read the   *)
(* flag set; PIO runs on between the two.                                  *)
CountStall ==
  /\ stall' = FALSE /\ untold' = FALSE
  /\ fifoOvf' = fifoOvf + 1
  /\ UNCHANGED <<powered, forward, enabled, signal, sm, isr, fifo, dmaVars, consumed, fresh,
                 ringOvf, copyVars, session, entered, base, raced, forgotten, got>>

(* The control task handles GET_RX_STATS: it has read the flag set, ...    *)
GetRxStats ==
  /\ gate = "idle" /\ AtAwait /\ stall
  /\ gate' = "count"
  /\ UNCHANGED <<powered, forward, enabled, signal, smVars, dmaVars, consumed, fresh, statVars,
                 pc, copyVars, session, entered, lossVars>>

(* ... and counts it. *)
StatsCount == gate = "count" /\ gate' = "idle" /\ CountStall /\ UNCHANGED pc

-----------------------------------------------------------------------------
(* asic_to_esp_task with receive_buffered_rx_chunk().  Outside an await it *)
(* runs only while the control task does not.                              *)
Running(place) == pc = place /\ gate = "idle"

TopUnlessEnabled ==
  /\ Running("top") /\ ~enabled
  /\ pc' = "gate"
  /\ UNCHANGED <<ctlVars, enabled, signal, smVars, dmaVars, consumed, fresh, statVars, copyVars,
                 session, entered, lossVars>>

(* The channel is started again on a clean ring. *)
Rearm ==
  /\ Running("top") /\ enabled
  /\ consumed' = 0 /\ fresh' = FALSE
  /\ moved' = 0 /\ busy' = TRUE
  /\ base' = base + moved
  /\ forgotten' = forgotten + (moved - consumed)
  /\ pc' = "sleep"
  /\ UNCHANGED <<ctlVars, enabled, signal, smVars, ring, statVars, copyVars, session, entered,
                 untold, raced, got>>

BugRestart == Rearm    \* takes no look at BUSY

(* The channel has run to its end. *)
Restart == ~busy /\ Rearm

BugTop ==        \* takes a stopped channel for a snapshot
  /\ Running("top") /\ enabled
  /\ pc' = "snapshot"
  /\ UNCHANGED <<ctlVars, enabled, signal, smVars, dmaVars, consumed, fresh, statVars, copyVars,
                 session, entered, lossVars>>

Top ==
  /\ Running("top") /\ enabled /\ busy
  /\ pc' = "snapshot"
  /\ UNCHANGED <<ctlVars, enabled, signal, smVars, dmaVars, consumed, fresh, statVars, copyVars,
                 session, entered, lossVars>>

(* An await is over: the gate has changed, or 250 us have passed.          *)
GateChanged ==
  /\ Running("gate") /\ signal
  /\ signal' = FALSE
  /\ pc' = "top"
  /\ UNCHANGED <<ctlVars, enabled, smVars, dmaVars, consumed, fresh, statVars, copyVars,
                 session, entered, lossVars>>

Wake ==
  /\ Running("sleep")
  /\ pc' = "top"
  /\ UNCHANGED <<ctlVars, enabled, signal, smVars, dmaVars, consumed, fresh, statVars, copyVars,
                 session, entered, lossVars>>

WrappingSub(a, b) == IF a >= b THEN a - b ELSE a - b + U32

BugDmaRingWindow(produced, taken, capacity) ==  \* keeps one word too many
  LET available == WrappingSub(produced, taken)
  IN  IF available > capacity + 1
      THEN [start |-> WrappingSub(produced, capacity + 1), available |-> capacity + 1,
            dropped |-> available - capacity - 1]
      ELSE [start |-> taken, available |-> available, dropped |-> 0]

(* dma_ring_window(): the newest words that the ring can hold. *)
DmaRingWindow(produced, taken, capacity) ==
  LET available == WrappingSub(produced, taken)
  IN  IF available > capacity
      THEN [start |-> WrappingSub(produced, capacity), available |-> capacity,
            dropped |-> available - capacity]
      ELSE [start |-> taken, available |-> available, dropped |-> 0]

TakeSnapshot(limit) ==
  LET w == DmaRingWindow(moved, consumed, RingWords)
  IN  /\ Running("snapshot")
      /\ fresh' = TRUE
      /\ ringOvf' = ringOvf + w.dropped
      /\ IF w.available = 0
         THEN pc' = "sleep" /\ UNCHANGED window
         ELSE /\ pc' = "copy"
              /\ window' = [start |-> w.start,
                            count |-> IF w.available < limit THEN w.available ELSE limit]
      /\ chunk' = <<>>
      /\ UNCHANGED <<ctlVars, enabled, signal, smVars, dmaVars, consumed, fifoOvf, session,
                     entered, lossVars>>

BugSnapshot == TakeSnapshot(RingWords)    \* forgets how long the buffer is

(* The words that have been moved but not consumed, as many as fit.        *)
Snapshot == TakeSnapshot(ChunkBytes)

(* One volatile read of the ring; DMA may write between two of them. *)
Copy ==
  /\ Running("copy") /\ Len(chunk) < window.count
  /\ chunk' = Append(chunk, ring[Slot(window.start + Len(chunk))])
  /\ UNCHANGED <<ctlVars, enabled, signal, smVars, dmaVars, consumed, fresh, statVars, pc,
                 window, session, entered, lossVars>>

(* The copy counts unless the gate has changed since the snapshot. *)
Publish ==
  /\ Running("copy") /\ Len(chunk) = window.count
  /\ IF fresh /\ enabled
     THEN /\ consumed' = window.start + window.count
          /\ got' = got \cup {chunk[i].n : i \in DOMAIN chunk}
          /\ pc' = "report"
          /\ UNCHANGED chunk
     ELSE pc' = "top" /\ chunk' = <<>> /\ UNCHANGED <<consumed, got>>
  /\ UNCHANGED <<ctlVars, enabled, signal, smVars, dmaVars, fresh, statVars, window, session,
                 entered, base, untold, raced, forgotten>>

(* asic_to_esp_task asks for the overflows as well.                        *)
BugReport ==     \* clears the flag before it reads it
  /\ Running("report")
  /\ stall' = FALSE
  /\ pc' = "write"
  /\ UNCHANGED <<ctlVars, enabled, signal, sm, isr, fifo, dmaVars, consumed, fresh, statVars,
                 copyVars, session, entered, lossVars>>

Report ==
  /\ Running("report")
  /\ pc' = IF stall THEN "count" ELSE "write"
  /\ UNCHANGED <<ctlVars, enabled, signal, smVars, dmaVars, consumed, fresh, statVars, copyVars,
                 session, entered, lossVars>>

ReportCount == Running("count") /\ pc' = "write" /\ CountStall /\ UNCHANGED gate

(* write_all_buffered(): the next byte has gone to the ESP. *)
WriteByte ==
  /\ Running("write") /\ chunk # <<>>
  /\ chunk' = Tail(chunk)
  /\ pc' = IF chunk' = <<>> THEN "top" ELSE "write"
  /\ UNCHANGED <<ctlVars, enabled, signal, smVars, dmaVars, consumed, fresh, statVars, window,
                 session, entered, lossVars>>

(* A UART error gives up the rest of the chunk. *)
WriteFails ==
  /\ Running("write")
  /\ chunk' = <<>>
  /\ pc' = "top"
  /\ UNCHANGED <<ctlVars, enabled, signal, smVars, dmaVars, consumed, fresh, statVars, window,
                 session, entered, lossVars>>

Hardware == Receive \/ Lose \/ Unstall \/ Transfer
Begun == Stop \/ Disable \/ Drain \/ Open \/ Close \/ StatsCount
ControlTask == (\E f \in BOOLEAN : Apply(f)) \/ Begun \/ GetRxStats
ReceiveTask ==
  \/ TopUnlessEnabled \/ Restart \/ Top \/ GateChanged \/ Wake
  \/ Snapshot \/ Copy \/ Publish \/ Report \/ ReportCount \/ WriteByte \/ WriteFails

Next == Hardware \/ ControlTask \/ ReceiveTask

Spec == Init /\ [][Next]_vars

-----------------------------------------------------------------------------
(* Safety. *)

(* What is copied out of the ring are words that the ASIC sent while it    *)
(* was powered, all in one session, and in the present one until the chunk *)
(* has been published: nothing of an earlier session and nothing that a    *)
(* dead line made up is left in the state machine, the FIFO, the channel   *)
(* or the ring when the gate opens again.                                  *)
SessionPure ==
  /\ \A i, j \in DOMAIN chunk : chunk[i].s = chunk[j].s
  /\ \A i \in DOMAIN chunk :
       /\ chunk[i].s \in 1 .. session
       /\ pc \in {"copy", "report", "count"} => chunk[i].s = session

(* Where DMA has not overtaken a copy, the copy is exactly the words of    *)
(* its window, in order: no word is repeated, skipped or torn from its     *)
(* place, lapped or not and restarted or not.                              *)
CopyExact ==
  pc \in {"copy", "report", "count"} /\ ~raced =>
    \A i \in DOMAIN chunk : chunk[i].n = base + window.start + i - 1

(* Every word that DMA has moved was taken, is counted as lost, was given  *)
(* up by a restart, or is still to be looked at; and words are given up    *)
(* only by a channel that has moved all that it was to move.               *)
Accounted ==
  /\ enabled /\ pc # "copy" /\ ~raced =>
       base + consumed = Cardinality(got) + ringOvf + forgotten
  /\ \E runs \in 0 .. base : base = runs * TransferCount

(* No stall, and with it no loss in the PIO, vanishes from the count: one  *)
(* that came after the FIFO counter last went up still shows in the flag,  *)
(* whichever of the two tasks polls it, and also when it comes between the *)
(* read of the flag and its clearing.                                      *)
StallReported == enabled /\ untold => stall

(* What README.md says of the ring ("reports exact overwrite loss"): when  *)
(* all of the first run of the channel has been looked at, the words that  *)
(* were not taken are those that were counted.                             *)
OverwriteLossExact ==
  enabled /\ pc = "sleep" /\ base = 0 /\ consumed = moved =>
    ringOvf = moved - Cardinality(got)

(* The abstract specification: what is to be handed over counts as taken   *)
(* when it has been published.                                             *)
Taken == IF pc \in {"report", "count", "write"} THEN [i \in DOMAIN chunk |-> chunk[i].s] ELSE <<>>

Sessions == INSTANCE RxSessions WITH open <- enabled, chunk <- Taken

(* The receive path keeps sessions apart as RxSessions says. *)
SessionsSpec == Sessions!Spec

-----------------------------------------------------------------------------
(* Liveness.  PIO and DMA are hardware; the executor polls a task that has *)
(* been woken, timers expire, and the ESP side of the UART drains without  *)
(* flow control, so a write goes on.  Nothing obliges the control task to  *)
(* change the gate, but what it has begun it ends.                         *)

LiveSpec ==
  /\ Spec
  /\ WF_vars(Unstall) /\ WF_vars(Transfer)
  /\ WF_vars(Begun) /\ WF_vars(ReceiveTask)

(* As long as the gate stays open, all that has been received is taken out *)
(* of FIFO and ring, through every missed signal, lapped window and        *)
(* channel that has run to its end.                                        *)
Drained == <>[]enabled => <>[](fifo = <<>> /\ isr = <<>> /\ consumed = moved /\ busy)
=============================================================================
