--------------------------- MODULE AsicRxRingProofs ---------------------------
(***************************************************************************)
(* Theorems about AsicRxRing for every length of ring, FIFO and chunk, and *)
(* every transfer count: its types, the purity of sessions, and that it    *)
(* implements RxSessions.                                                  *)
(***************************************************************************)
EXTENDS AsicRxRing, SequenceTheorems, TLAPS

USE DEF smVars, dmaVars, ctlVars, statVars, copyVars, lossVars

-----------------------------------------------------------------------------
(* The inductive invariant. *)

(* How the places of the two tasks, the gate, the state machine and the    *)
(* channel go together.  The receive task is away from its awaits only     *)
(* while the control task is not at the gate.                              *)
Order ==
  /\ pc \in {"top", "snapshot", "copy", "report", "count"} => gate = "idle"
  /\ pc \in {"snapshot", "copy", "report", "count"} => enabled
  /\ pc \in {"copy", "report", "count", "write"} <=> (pc = "copy" \/ chunk # <<>>)
  /\ enabled => sm /\ gate \in {"idle", "count", "stop"} /\ session >= 1 /\ consumed <= moved
  /\ sm => powered /\ gate \in {"idle", "count", "stop", "disable"}
  /\ forward => powered
  /\ sm /\ gate \in {"idle", "count", "stop"} => enabled
  /\ busy => enabled /\ moved < TransferCount
  /\ gate \in {"finish", "idle", "count", "stop"} /\ ~sm => fifo = <<>>
  /\ gate = "finish" => consumed = 0
  /\ pc = "copy" => /\ window.count >= 1
                    /\ window.start + window.count <= moved
                    /\ Len(chunk) <= window.count

(* The words of the open session: what the PIO holds, what DMA has moved,  *)
(* what the task has copied; and the chunk that is being written, which is *)
(* of one session, perhaps an earlier one.                                 *)
Pure ==
  /\ sm => /\ \A i \in 1 .. Len(isr) : isr[i].s = session
           /\ \A i \in 1 .. Len(fifo) : fifo[i].s = session
  /\ enabled => \A k \in 0 .. moved - 1 : ring[Slot(k)].s = session
  /\ pc \in {"copy", "report", "count"} => \A i \in 1 .. Len(chunk) : chunk[i].s = session
  /\ pc = "write" => \E s \in 1 .. session : \A i \in 1 .. Len(chunk) : chunk[i].s = s

IInv == TypeOK /\ Order /\ Pure

-----------------------------------------------------------------------------
(* Lemmas on the operators. *)

(* Every index of the ring has a slot. *)
LEMMA SlotType == \A k \in Nat : Slot(k) \in Slots
  BY RingAssumption DEF Slot, Slots

(* The window of a consumer that has not overtaken the producer: no longer *)
(* than the ring, and at the end of what was produced or at its own place. *)
LEMMA WindowType ==
  ASSUME NEW p \in Nat, NEW c \in Nat, c <= p, NEW n \in Nat
  PROVE  LET w == DmaRingWindow(p, c, n)
         IN  /\ w.start \in Nat /\ w.available \in Nat /\ w.dropped \in Nat
             /\ c <= w.start /\ w.start + w.available = p
             /\ w.dropped = w.start - c
  BY DEF DmaRingWindow, WrappingSub

(* Sequences one longer and one shorter. *)
LEMMA Longer ==
  ASSUME NEW S, NEW s \in Seq(S), NEW e \in S
  PROVE  /\ Append(s, e) \in Seq(S) /\ Len(Append(s, e)) = Len(s) + 1 /\ Append(s, e) # <<>>
         /\ \A i \in 1 .. Len(s) : Append(s, e)[i] = s[i]
         /\ Append(s, e)[Len(s) + 1] = e
  OBVIOUS

(* A sequence without its head. *)
LEMMA Shorter ==
  ASSUME NEW S, NEW s \in Seq(S), s # <<>>
  PROVE  /\ Tail(s) \in Seq(S) /\ Len(Tail(s)) = Len(s) - 1 /\ Len(s) \in Nat \ {0}
         /\ Head(s) \in S /\ Head(s) = s[1]
         /\ \A i \in 1 .. Len(s) - 1 : Tail(s)[i] = s[i + 1]
  OBVIOUS

(* The tail as a function of its indices. *)
LEMMA TailIs ==
  ASSUME NEW S, NEW s \in Seq(S), s # <<>>
  PROVE  /\ Tail(s) = [i \in 1 .. Len(s) - 1 |-> s[i + 1]]
         /\ Len(s) = 1 => Tail(s) = <<>>
<1>1. Tail(s) \in Seq(S) /\ Len(Tail(s)) = Len(s) - 1
  OBVIOUS
<1>2. Tail(s) = [i \in 1 .. Len(s) - 1 |-> s[i + 1]]
  <2>1. Tail(s) \in [1 .. Len(s) - 1 -> S]
    BY <1>1, LenProperties
  <2>2. \A i \in 1 .. Len(s) - 1 : Tail(s)[i] = s[i + 1]
    BY Shorter
  <2> QED
    BY <2>1, <2>2
<1> QED
  BY <1>1, <1>2

(* A word is a sequence of words. *)
LEMMA One == ASSUME NEW S, NEW e \in S PROVE <<e>> \in Seq(S)
  OBVIOUS

(* What RingAssumption says of single constants. *)
LEMMA Params ==
  /\ RingWords \in Nat \ {0} /\ FifoWords \in Nat \ {0}
  /\ ChunkBytes \in Nat \ {0} /\ TransferCount \in Nat \ {0}
  BY RingAssumption

(* What TypeOK says of single variables. *)
LEMMA Types ==
  ASSUME TypeOK
  PROVE  /\ busy \in BOOLEAN /\ stall \in BOOLEAN /\ untold \in BOOLEAN /\ raced \in BOOLEAN
         /\ fifoOvf \in Nat /\ ringOvf \in Nat /\ session \in Nat /\ entered \in Nat
         /\ base \in Nat /\ forgotten \in Nat /\ moved \in Nat /\ consumed \in Nat
         /\ isr \in Seq(Words) /\ fifo \in Seq(Words) /\ chunk \in Seq(Words)
         /\ Len(isr) \in Nat /\ Len(fifo) \in Nat /\ Len(chunk) \in Nat
         /\ window.start \in Nat /\ window.count \in Nat
         /\ ring \in [Slots -> Words]
<1>1. busy \in BOOLEAN /\ stall \in BOOLEAN /\ untold \in BOOLEAN /\ raced \in BOOLEAN
  BY DEF TypeOK
<1>2. /\ fifoOvf \in Nat /\ ringOvf \in Nat /\ session \in Nat /\ entered \in Nat
      /\ base \in Nat /\ forgotten \in Nat
  BY DEF TypeOK
<1>4. moved \in Nat /\ consumed \in Nat
  BY Params DEF TypeOK
<1>5. isr \in Seq(Words) /\ fifo \in Seq(Words) /\ chunk \in Seq(Words)
  BY DEF TypeOK
<1>6. Len(isr) \in Nat /\ Len(fifo) \in Nat /\ Len(chunk) \in Nat
  BY <1>5
<1>7. window.start \in Nat /\ window.count \in Nat
  BY Params DEF TypeOK
<1>8. ring \in [Slots -> Words]
  BY DEF TypeOK
<1> QED
  BY <1>1, <1>2, <1>4, <1>5, <1>6, <1>7, <1>8

(* The bounds that TypeOK sets. *)
LEMMA Bounds ==
  ASSUME TypeOK
  PROVE  /\ moved <= TransferCount /\ consumed <= TransferCount
         /\ window.count <= ChunkBytes /\ Len(chunk) <= ChunkBytes
<1>1. moved \in 0 .. TransferCount /\ consumed \in 0 .. TransferCount
  BY DEF TypeOK
<1>2. window.count \in 0 .. ChunkBytes /\ Len(chunk) <= ChunkBytes
  BY DEF TypeOK
<1> QED
  BY <1>1, <1>2, Params

-----------------------------------------------------------------------------
(* Every action keeps the three parts. *)

(* No step leaves a type, a chunk its buffer or a count its range. *)
LEMMA TypeOKStep ==
  ASSUME IInv, Next
  PROVE  TypeOK'
<1> USE DEF IInv
<1>1. ASSUME Receive PROVE TypeOK'
  <2>1. Sampled \in Words
    BY Types DEF Words, Noise, Sampled
  <2>2. \/ fifo' = Append(fifo, Sampled) /\ isr' = isr /\ Len(fifo) < FifoWords
        \/ isr' = <<Sampled>> /\ fifo' = fifo
    BY <1>1 DEF Receive
  <2>3. isr' \in Seq(Words)
    <3>1. <<Sampled>> \in Seq(Words)
      BY <2>1, One
    <3> QED
      BY <2>2, <3>1, Types
  <2>4. Len(isr') <= 1
    <3>1. CASE isr' = isr
      BY <3>1 DEF TypeOK
    <3>2. CASE isr' = <<Sampled>>
      BY <3>2
    <3> QED
      BY <2>2, <3>1, <3>2
  <2>5. fifo' \in Seq(Words)
    <3>1. Append(fifo, Sampled) \in Seq(Words)
      BY <2>1, Types, Longer
    <3> QED
      BY <2>2, <3>1, Types
  <2>6. Len(fifo') <= FifoWords
    <3>1. CASE fifo' = fifo
      BY <3>1 DEF TypeOK
    <3>2. CASE fifo' = Append(fifo, Sampled) /\ Len(fifo) < FifoWords
      <4>1. Len(fifo') = Len(fifo) + 1
        BY <2>1, <3>2, Types, Longer
      <4> QED
        BY <3>2, <4>1, Types, Params
    <3> QED
      BY <2>2, <3>1, <3>2
  <2>7. entered' \in Nat
    BY <1>1, Types DEF Receive
  <2>8. stall' \in BOOLEAN /\ untold' \in BOOLEAN
    BY <1>1, Types DEF Receive
  <2> QED
    BY <1>1, <2>3, <2>4, <2>5, <2>6, <2>7, <2>8 DEF Receive, TypeOK
<1>2. ASSUME Lose PROVE TypeOK'
  BY <1>2 DEF Lose, TypeOK
<1>3. ASSUME Unstall PROVE TypeOK'
  <2>1. Head(isr) \in Words
    BY <1>3, Types, Shorter DEF Unstall
  <2>2. fifo' \in Seq(Words) /\ Len(fifo') = Len(fifo) + 1
    BY <1>3, <2>1, Types, Longer DEF Unstall
  <2>3. Len(fifo') <= FifoWords
    BY <1>3, <2>2, Types, Params DEF Unstall
  <2>4. isr' \in Seq(Words) /\ Len(isr') <= 1
    BY <1>3 DEF Unstall
  <2> QED
    BY <1>3, <2>2, <2>3, <2>4 DEF Unstall, TypeOK
<1>4. ASSUME Transfer PROVE TypeOK'
  <2>1. Head(fifo) \in Words
    BY <1>4, Types, Shorter DEF Transfer
  <2>2. fifo' \in Seq(Words) /\ Len(fifo') = Len(fifo) - 1
    BY <1>4, Types, Shorter DEF Transfer
  <2>3. Len(fifo') <= FifoWords
    <3>1. Len(fifo) <= FifoWords
      BY DEF TypeOK
    <3> QED
      BY <2>2, <3>1, Types, Params
  <2>4. ring' \in [Slots -> Words]
    BY <1>4, <2>1, Types DEF Transfer
  <2>5. moved' \in 0 .. TransferCount
    <3>1. moved < TransferCount /\ moved' = moved + 1
      BY <1>4 DEF Transfer, Order
    <3> QED
      BY <3>1, Types, Params
  <2>6. busy' \in BOOLEAN /\ raced' \in BOOLEAN
    BY <1>4 DEF Transfer
  <2> QED
    BY <1>4, <2>2, <2>3, <2>4, <2>5, <2>6 DEF Transfer, TypeOK
<1>5. ASSUME NEW f \in BOOLEAN, Apply(f) PROVE TypeOK'
  BY <1>5 DEF Apply, AtAwait, TypeOK
<1>6. ASSUME Stop PROVE TypeOK'
  BY <1>6 DEF Stop, TypeOK
<1>7. ASSUME Disable PROVE TypeOK'
  BY <1>7 DEF Disable, TypeOK
<1>8. ASSUME Drain PROVE TypeOK'
  <2>1. fifo' \in Seq(Words) /\ Len(fifo') <= FifoWords
    BY <1>8, Params DEF Drain, Reset
  <2>2. consumed' \in 0 .. TransferCount
    BY <1>8, Params DEF Drain, Reset
  <2>3. fifoOvf' \in Nat /\ ringOvf' \in Nat
    BY <1>8 DEF Drain, Reset
  <2> QED
    BY <1>8, <2>1, <2>2, <2>3 DEF Drain, Reset, TypeOK
<1>9. ASSUME Open PROVE TypeOK'
  <2>1. isr' \in Seq(Words) /\ Len(isr') <= 1
    BY <1>9 DEF Open
  <2>2. session' \in Nat
    BY <1>9, Types DEF Open
  <2>3. moved' \in 0 .. TransferCount
    BY <1>9, Params DEF Open
  <2>4. entered' \in Nat /\ base' \in Nat /\ forgotten' \in Nat
    BY <1>9 DEF Open
  <2> QED
    BY <1>9, <2>1, <2>2, <2>3, <2>4 DEF Open, TypeOK
<1>10. ASSUME Close PROVE TypeOK'
  BY <1>10 DEF Close, TypeOK
<1>11. ASSUME GetRxStats PROVE TypeOK'
  BY <1>11 DEF GetRxStats, TypeOK
<1>23. ASSUME StatsCount PROVE TypeOK'
  <2>1. fifoOvf' \in Nat
    BY <1>23, Types DEF StatsCount, CountStall
  <2> QED
    BY <1>23, <2>1 DEF StatsCount, CountStall, TypeOK
<1>24. ASSUME ReportCount PROVE TypeOK'
  <2>1. fifoOvf' \in Nat
    BY <1>24, Types DEF ReportCount, CountStall
  <2> QED
    BY <1>24, <2>1 DEF ReportCount, CountStall, TypeOK
<1>12. ASSUME TopUnlessEnabled PROVE TypeOK'
  BY <1>12 DEF TopUnlessEnabled, Running, TypeOK
<1>13. ASSUME Restart PROVE TypeOK'
  <2>1. consumed <= moved /\ base' = base + moved /\ forgotten' = forgotten + (moved - consumed)
    BY <1>13 DEF Restart, Rearm, Running, Order
  <2>2. base' \in Nat /\ forgotten' \in Nat
    <3>1. /\ base \in Nat /\ forgotten \in Nat
          /\ moved \in Nat /\ consumed \in Nat
      BY Types
    <3> QED
      BY <2>1, <3>1
  <2>3. moved' \in 0 .. TransferCount /\ consumed' \in 0 .. TransferCount
    BY <1>13, Params DEF Restart, Rearm
  <2> QED
    BY <1>13, <2>2, <2>3 DEF Restart, Rearm, TypeOK
<1>14. ASSUME Top PROVE TypeOK'
  BY <1>14 DEF Top, Running, TypeOK
<1>15. ASSUME GateChanged PROVE TypeOK'
  BY <1>15 DEF GateChanged, Running, TypeOK
<1>16. ASSUME Wake PROVE TypeOK'
  BY <1>16 DEF Wake, Running, TypeOK
<1>17. ASSUME Snapshot PROVE TypeOK'
  <2> DEFINE w == DmaRingWindow(moved, consumed, RingWords)
  <2>1. w.start \in Nat /\ w.available \in Nat /\ w.dropped \in Nat
    <3>1. consumed <= moved
      BY <1>17 DEF Snapshot, TakeSnapshot, Running, Order
    <3> QED
      BY <3>1, Types, Params, WindowType
  <2> HIDE DEF w
  <2>2. ringOvf' \in Nat
    <3>1. ringOvf' = ringOvf + w.dropped
      BY <1>17 DEF Snapshot, TakeSnapshot, w
    <3>2. ringOvf \in Nat
      BY Types
    <3> QED
      BY <2>1, <3>1, <3>2
  <2>3. window' \in [start : Nat, count : 0 .. ChunkBytes]
    <3>1. \/ window' = window
          \/ window' = [start |-> w.start, count |-> IF w.available < ChunkBytes THEN w.available
                                                    ELSE ChunkBytes]
      BY <1>17 DEF Snapshot, TakeSnapshot, w
    <3>2. window \in [start : Nat, count : 0 .. ChunkBytes]
      BY DEF TypeOK
    <3> QED
      BY <2>1, <3>1, <3>2, Params
  <2>4. chunk' \in Seq(Words) /\ Len(chunk') <= ChunkBytes
    BY <1>17, Params DEF Snapshot, TakeSnapshot
  <2>5. pc' \in {"sleep", "copy"} /\ fresh' \in BOOLEAN
    BY <1>17 DEF Snapshot, TakeSnapshot
  <2> QED
    BY <1>17, <2>2, <2>3, <2>4, <2>5 DEF Snapshot, TakeSnapshot, TypeOK
<1>18. ASSUME Copy PROVE TypeOK'
  <2>1. ring[Slot(window.start + Len(chunk))] \in Words
    BY Types, SlotType
  <2>2. chunk' \in Seq(Words) /\ Len(chunk') = Len(chunk) + 1
    BY <1>18, <2>1, Types, Longer DEF Copy
  <2>3. Len(chunk') <= ChunkBytes
    <3>1. Len(chunk) < window.count
      BY <1>18 DEF Copy
    <3>2. window.count <= ChunkBytes
      BY Bounds
    <3>3. Len(chunk) \in Nat /\ window.count \in Nat /\ ChunkBytes \in Nat
      BY Types, Params
    <3> QED
      BY <2>2, <3>1, <3>2, <3>3
  <2> QED
    BY <1>18, <2>2, <2>3 DEF Copy, TypeOK
<1>19. ASSUME Publish PROVE TypeOK'
  <2>1. consumed' \in 0 .. TransferCount
    <3>1. consumed' = consumed \/ consumed' = window.start + window.count
      BY <1>19 DEF Publish
    <3>2. window.start + window.count <= moved
      BY <1>19 DEF Publish, Running, Order
    <3>3. /\ moved \in Nat /\ moved <= TransferCount
          /\ consumed \in Nat /\ consumed <= TransferCount
      <4>1. moved \in Nat /\ consumed \in Nat
        BY Types
      <4>2. moved <= TransferCount /\ consumed <= TransferCount
        BY Bounds
      <4> QED
        BY <4>1, <4>2
    <3>4. window.start + window.count \in Nat
      BY Types, SMTT(30)
    <3>5. TransferCount \in Nat
      BY Params
    <3> QED
      BY <3>1, <3>2, <3>3, <3>4, <3>5
  <2>2. got' \subseteq Nat
    <3>1. ASSUME NEW i \in DOMAIN chunk PROVE chunk[i].n \in Nat
      <4>1. chunk[i] \in Words
        BY Types
      <4> QED
        BY <4>1 DEF Words
    <3>2. got' = got \/ got' = got \cup {chunk[i].n : i \in DOMAIN chunk}
      BY <1>19 DEF Publish
    <3>3. got \subseteq Nat
      BY DEF TypeOK
    <3> QED
      BY <3>1, <3>2, <3>3
  <2>3. chunk' \in Seq(Words) /\ Len(chunk') <= ChunkBytes
    <3>1. CASE chunk' = chunk
      BY <3>1 DEF TypeOK
    <3>2. CASE chunk' = <<>>
      BY <3>2, Params
    <3> QED
      BY <1>19, <3>1, <3>2 DEF Publish
  <2>4. pc' \in {"report", "top"}
    BY <1>19 DEF Publish
  <2> QED
    BY <1>19, <2>1, <2>2, <2>3, <2>4 DEF Publish, TypeOK
<1>20. ASSUME Report PROVE TypeOK'
  BY <1>20 DEF Report, TypeOK
<1>21. ASSUME WriteByte PROVE TypeOK'
  <2>1. chunk' \in Seq(Words) /\ Len(chunk') = Len(chunk) - 1
    BY <1>21, Types, Shorter DEF WriteByte
  <2>3. Len(chunk') <= ChunkBytes
    <3>1. Len(chunk) <= ChunkBytes
      BY DEF TypeOK
    <3> QED
      BY <2>1, <3>1, Types, Params
  <2>2. pc' \in {"top", "write"}
    BY <1>21 DEF WriteByte
  <2> QED
    BY <1>21, <2>1, <2>2, <2>3 DEF WriteByte, TypeOK
<1>22. ASSUME WriteFails PROVE TypeOK'
  <2>1. chunk' \in Seq(Words) /\ Len(chunk') <= ChunkBytes
    BY <1>22, Params DEF WriteFails
  <2> QED
    BY <1>22, <2>1 DEF WriteFails, TypeOK
<1> QED
  BY <1>1, <1>2, <1>3, <1>4, <1>5, <1>6, <1>7, <1>8, <1>9, <1>10, <1>11,
     <1>12, <1>13, <1>14, <1>15, <1>16, <1>17, <1>18, <1>19, <1>20, <1>21, <1>22,
     <1>23, <1>24
  DEF Next, Hardware, ControlTask, Begun, ReceiveTask

(* Gate, state machine, channel and tasks stay in order. *)
LEMMA OrderStep ==
  ASSUME IInv, Next
  PROVE  Order'
<1> USE DEF IInv
<1>1. ASSUME Receive PROVE Order'
  BY <1>1 DEF Receive, TypeOK, Order
<1>2. ASSUME Lose PROVE Order'
  BY <1>2 DEF Lose, TypeOK, Order
<1>3. ASSUME Unstall PROVE Order'
  BY <1>3 DEF Unstall, TypeOK, Order
<1>4. ASSUME Transfer PROVE Order'
  <2>1. busy' => moved' < TransferCount
    BY <1>4 DEF Transfer
  <2>2. moved' = moved + 1
    BY <1>4 DEF Transfer
  <2>3. consumed <= moved => consumed <= moved'
    BY <2>2, Types
  <2>4. window.start + window.count <= moved => window.start + window.count <= moved'
    BY <2>2, Types
  <2>5. sm /\ enabled
    BY <1>4 DEF Transfer, Order
  <2> QED
    BY <1>4, <2>1, <2>3, <2>4, <2>5 DEF Transfer, Order
<1>5. ASSUME NEW f \in BOOLEAN, Apply(f) PROVE Order'
  BY <1>5 DEF Apply, AtAwait, TypeOK, Order
<1>6. ASSUME Stop PROVE Order'
  BY <1>6 DEF Stop, TypeOK, Order
<1>7. ASSUME Disable PROVE Order'
  BY <1>7 DEF Disable, TypeOK, Order
<1>8. ASSUME Drain PROVE Order'
  BY <1>8 DEF Drain, Reset, TypeOK, Order
<1>9. ASSUME Open PROVE Order'
  <2>1. pc \in {"gate", "sleep", "write"}
    BY <1>9 DEF Open, Order, TypeOK
  <2>2. ~sm /\ powered /\ ~enabled /\ fifo = <<>>
    BY <1>9 DEF Open, Order
  <2>3. session' >= 1
    BY <1>9, Types DEF Open
  <2>4. moved' < TransferCount
    BY <1>9, Params DEF Open
  <2>5. consumed' <= moved'
    BY <1>9 DEF Open, Order
  <2> QED
    BY <1>9, <2>1, <2>2, <2>3, <2>4, <2>5 DEF Open, Order
<1>10. ASSUME Close PROVE Order'
  BY <1>10 DEF Close, TypeOK, Order
<1>11. ASSUME GetRxStats PROVE Order'
  BY <1>11 DEF GetRxStats, AtAwait, TypeOK, Order
<1>23. ASSUME StatsCount PROVE Order'
  BY <1>23 DEF StatsCount, CountStall, TypeOK, Order
<1>24. ASSUME ReportCount PROVE Order'
  BY <1>24 DEF ReportCount, CountStall, Running, TypeOK, Order
<1>12. ASSUME TopUnlessEnabled PROVE Order'
  BY <1>12 DEF TopUnlessEnabled, Running, TypeOK, Order
<1>13. ASSUME Restart PROVE Order'
  <2>1. consumed' <= moved'
    BY <1>13 DEF Restart, Rearm
  <2>2. moved' < TransferCount
    BY <1>13, Params DEF Restart, Rearm
  <2>3. pc = "top" /\ gate = "idle" /\ enabled
    BY <1>13 DEF Restart, Rearm, Running
  <2> QED
    BY <1>13, <2>1, <2>2, <2>3 DEF Restart, Rearm, Order
<1>14. ASSUME Top PROVE Order'
  BY <1>14 DEF Top, Running, TypeOK, Order
<1>15. ASSUME GateChanged PROVE Order'
  BY <1>15 DEF GateChanged, Running, TypeOK, Order
<1>16. ASSUME Wake PROVE Order'
  BY <1>16 DEF Wake, Running, TypeOK, Order
<1>17. ASSUME Snapshot PROVE Order'
  <2> DEFINE w == DmaRingWindow(moved, consumed, RingWords)
  <2>1. w.start \in Nat /\ w.available \in Nat /\ w.start + w.available = moved
    <3>1. consumed <= moved
      BY <1>17 DEF Snapshot, TakeSnapshot, Running, Order
    <3>2. moved \in Nat /\ consumed \in Nat /\ RingWords \in Nat
      BY Types, Params
    <3> QED
      BY <3>1, <3>2, WindowType
  <2> HIDE DEF w
  <2>2. \/ pc' = "sleep"
        \/ /\ pc' = "copy" /\ w.available # 0
           /\ window' = [start |-> w.start,
                         count |-> IF w.available < ChunkBytes THEN w.available ELSE ChunkBytes]
    BY <1>17 DEF Snapshot, TakeSnapshot, w
  <2>3. pc' = "copy" => /\ window'.count >= 1
                        /\ window'.start + window'.count <= moved
                        /\ 0 <= window'.count
    <3> SUFFICES ASSUME pc' = "copy"
                 PROVE  /\ window'.count >= 1
                        /\ window'.start + window'.count <= moved
                        /\ 0 <= window'.count
      OBVIOUS
    <3> DEFINE n == IF w.available < ChunkBytes THEN w.available ELSE ChunkBytes
    <3>1. w.available # 0 /\ window'.start = w.start /\ window'.count = n
      BY <2>2
    <3>2. n \in Nat /\ n >= 1 /\ n <= w.available
      BY <2>1, <3>1, Params
    <3> HIDE DEF n
    <3>3. moved \in Nat
      BY Types
    <3> QED
      BY <2>1, <3>1, <3>2, <3>3
  <2>4. chunk' = <<>> /\ Len(chunk') = 0
    BY <1>17 DEF Snapshot, TakeSnapshot
  <2>5. pc = "snapshot" /\ gate = "idle" /\ enabled
    BY <1>17 DEF Snapshot, TakeSnapshot, Running, Order
  <2>6. pc' \in {"sleep", "copy"}
    BY <2>2
  <2> QED
    BY <1>17, <2>3, <2>4, <2>5, <2>6 DEF Snapshot, TakeSnapshot, Order
<1>18. ASSUME Copy PROVE Order'
  BY <1>18 DEF Copy, Running, TypeOK, Order
<1>19. ASSUME Publish PROVE Order'
  <2>1. window.count >= 1 /\ Len(chunk) = window.count /\ window.start + window.count <= moved
    BY <1>19 DEF Publish, Running, Order
  <2>4. chunk # <<>>
    BY <2>1, Types
  <2>2. CASE fresh /\ enabled
    BY <1>19, <2>1, <2>4, <2>2 DEF Publish, Running, Order
  <2>3. CASE ~(fresh /\ enabled)
    BY <1>19, <2>3 DEF Publish, Running, Order
  <2> QED
    BY <2>2, <2>3
<1>20. ASSUME Report PROVE Order'
  BY <1>20 DEF Report, Running, TypeOK, Order
<1>21. ASSUME WriteByte PROVE Order'
  BY <1>21 DEF WriteByte, Running, TypeOK, Order
<1>22. ASSUME WriteFails PROVE Order'
  BY <1>22 DEF WriteFails, Running, TypeOK, Order
<1> QED
  BY <1>1, <1>2, <1>3, <1>4, <1>5, <1>6, <1>7, <1>8, <1>9, <1>10, <1>11,
     <1>12, <1>13, <1>14, <1>15, <1>16, <1>17, <1>18, <1>19, <1>20, <1>21, <1>22,
     <1>23, <1>24
  DEF Next, Hardware, ControlTask, Begun, ReceiveTask

(* Words of one session are never joined by words of another. *)
LEMMA PureStep ==
  ASSUME IInv, Next
  PROVE  Pure'
<1> USE DEF IInv
<1>1. ASSUME Receive PROVE Pure'
  <2>1. powered
    BY <1>1 DEF Receive, Order
  <2>2. Sampled \in Words /\ Sampled.s = session
    BY <2>1, Types DEF Words, Sampled
  <2>3. sm /\ \/ fifo' = Append(fifo, Sampled) /\ isr' = isr
              \/ isr' = <<Sampled>> /\ fifo' = fifo
    BY <1>1 DEF Receive
  <2>4. /\ \A i \in 1 .. Len(isr) : isr[i].s = session
        /\ \A i \in 1 .. Len(fifo) : fifo[i].s = session
    BY <2>3 DEF Pure
  <2>5. CASE fifo' = Append(fifo, Sampled) /\ isr' = isr
    <3>1. /\ Len(fifo') = Len(fifo) + 1
          /\ \A i \in 1 .. Len(fifo) : fifo'[i] = fifo[i]
          /\ fifo'[Len(fifo) + 1] = Sampled
      BY <2>2, <2>5, Types, Longer
    <3>2. ASSUME NEW i \in 1 .. Len(fifo') PROVE fifo'[i].s = session
      <4>1. i \in 1 .. Len(fifo) \/ i = Len(fifo) + 1
        BY <3>1, Types
      <4>2. CASE i \in 1 .. Len(fifo)
        BY <2>4, <3>1, <4>2
      <4>3. CASE i = Len(fifo) + 1
        BY <2>2, <3>1, <4>3
      <4> QED
        BY <4>1, <4>2, <4>3
    <3> QED
      BY <1>1, <2>4, <2>5, <3>2 DEF Receive, Pure
  <2>6. CASE isr' = <<Sampled>> /\ fifo' = fifo
    <3>1. \A i \in 1 .. Len(isr') : isr'[i].s = session
      BY <2>2, <2>6
    <3> QED
      BY <1>1, <2>4, <2>6, <3>1 DEF Receive, Pure
  <2> QED
    BY <2>3, <2>5, <2>6
<1>2. ASSUME Lose PROVE Pure'
  BY <1>2 DEF Lose, TypeOK, Order, Pure
<1>3. ASSUME Unstall PROVE Pure'
  <2> DEFINE e == Head(isr)
  <2>1. e \in Words /\ e.s = session
    <3>1. isr \in Seq(Words) /\ isr # <<>>
      BY <1>3, Types DEF Unstall
    <3>2. Len(isr) \in Nat \ {0} /\ e \in Words /\ e = isr[1]
      BY <3>1, Shorter
    <3>3. \A i \in 1 .. Len(isr) : isr[i].s = session
      BY <1>3 DEF Unstall, Pure
    <3> QED
      BY <3>2, <3>3
  <2>4. fifo' = Append(fifo, e)
    BY <1>3 DEF Unstall
  <2> HIDE DEF e
  <2>2. \A i \in 1 .. Len(fifo') : fifo'[i].s = session
    <3>1. \A i \in 1 .. Len(fifo) : fifo[i].s = session
      BY <1>3 DEF Unstall, Pure
    <3>2. /\ Len(fifo') = Len(fifo) + 1 /\ fifo'[Len(fifo) + 1] = e
          /\ \A i \in 1 .. Len(fifo) : fifo'[i] = fifo[i]
      BY <2>1, <2>4, Types, Longer
    <3> SUFFICES ASSUME NEW i \in 1 .. Len(fifo') PROVE fifo'[i].s = session
      OBVIOUS
    <3>3. i \in 1 .. Len(fifo) \/ i = Len(fifo) + 1
      BY <3>2, Types
    <3>4. CASE i \in 1 .. Len(fifo)
      BY <3>1, <3>2, <3>4
    <3>5. CASE i = Len(fifo) + 1
      BY <2>1, <3>2, <3>5
    <3> QED
      BY <3>3, <3>4, <3>5
  <2>3. Len(isr') = 0
    BY <1>3 DEF Unstall
  <2> QED
    BY <1>3, <2>2, <2>3 DEF Unstall, Pure
<1>4. ASSUME Transfer PROVE Pure'
  <2>1. sm /\ enabled
    BY <1>4 DEF Transfer, Order
  <2>2. Head(fifo).s = session
    <3>1. fifo \in Seq(Words) /\ fifo # <<>>
      BY <1>4, Types DEF Transfer
    <3>2. Len(fifo) \in Nat \ {0} /\ Head(fifo) = fifo[1]
      BY <3>1, Shorter
    <3>3. \A i \in 1 .. Len(fifo) : fifo[i].s = session
      BY <2>1 DEF Pure
    <3> QED
      BY <3>2, <3>3
  <2>3. \A i \in 1 .. Len(fifo') : fifo'[i].s = session
    BY <1>4, <2>1, Types, Shorter DEF Transfer, Pure
  <2>4. ASSUME NEW k \in 0 .. moved PROVE ring'[Slot(k)].s = session
    <3>1. Slot(k) \in Slots /\ Slot(moved) \in Slots
      BY Types, SlotType
    <3>2. CASE Slot(k) = Slot(moved)
      BY <1>4, <2>2, <3>1, <3>2, Types DEF Transfer
    <3>3. CASE Slot(k) # Slot(moved)
      <4>1. k \in 0 .. moved - 1
        BY <3>3, Types
      <4>2. ring'[Slot(k)] = ring[Slot(k)]
        BY <1>4, <3>1, <3>3, Types DEF Transfer
      <4> QED
        BY <2>1, <4>1, <4>2 DEF Pure
    <3> QED
      BY <3>2, <3>3
  <2>5. moved' - 1 = moved /\ session' = session
    BY <1>4, Types DEF Transfer
  <2> QED
    BY <1>4, <2>3, <2>4, <2>5 DEF Transfer, Pure
<1>5. ASSUME NEW f \in BOOLEAN, Apply(f) PROVE Pure'
  BY <1>5 DEF Apply, AtAwait, TypeOK, Order, Pure
<1>6. ASSUME Stop PROVE Pure'
  BY <1>6 DEF Stop, TypeOK, Order, Pure
<1>7. ASSUME Disable PROVE Pure'
  BY <1>7 DEF Disable, TypeOK, Order, Pure
<1>8. ASSUME Drain PROVE Pure'
  BY <1>8 DEF Drain, Reset, TypeOK, Order, Pure
<1>9. ASSUME Open PROVE Pure'
  <2>1. pc \in {"gate", "sleep", "write"} /\ fifo = <<>>
    BY <1>9 DEF Open, Order, TypeOK
  <2>2. Len(isr') = 0 /\ Len(fifo') = 0 /\ moved' = 0
    BY <1>9, <2>1 DEF Open
  <2>3. ASSUME pc = "write"
        PROVE  \E s \in 1 .. session' : \A i \in 1 .. Len(chunk) : chunk[i].s = s
    <3>1. PICK s \in 1 .. session : \A i \in 1 .. Len(chunk) : chunk[i].s = s
      BY <2>3 DEF Pure
    <3>2. session' = session + 1 /\ session \in Nat
      BY <1>9, Types DEF Open
    <3>3. s \in 1 .. session'
      BY <3>2
    <3> QED
      BY <3>1, <3>3
  <2> QED
    BY <1>9, <2>1, <2>2, <2>3 DEF Open, Pure
<1>10. ASSUME Close PROVE Pure'
  BY <1>10 DEF Close, TypeOK, Order, Pure
<1>11. ASSUME GetRxStats PROVE Pure'
  BY <1>11 DEF GetRxStats, AtAwait, TypeOK, Order, Pure
<1>23. ASSUME StatsCount PROVE Pure'
  BY <1>23 DEF StatsCount, CountStall, TypeOK, Order, Pure
<1>24. ASSUME ReportCount PROVE Pure'
  <2>1. enabled /\ session >= 1
    BY <1>24 DEF ReportCount, Running, Order
  <2>2. \A i \in 1 .. Len(chunk) : chunk[i].s = session
    BY <1>24 DEF ReportCount, Running, Pure
  <2>3. session \in 1 .. session
    BY <2>1, Types
  <2> QED
    BY <1>24, <2>2, <2>3 DEF ReportCount, CountStall, Pure
<1>12. ASSUME TopUnlessEnabled PROVE Pure'
  BY <1>12 DEF TopUnlessEnabled, Running, TypeOK, Order, Pure
<1>13. ASSUME Restart PROVE Pure'
  BY <1>13 DEF Restart, Rearm, Running, TypeOK, Order, Pure
<1>14. ASSUME Top PROVE Pure'
  BY <1>14 DEF Top, Running, TypeOK, Order, Pure
<1>15. ASSUME GateChanged PROVE Pure'
  BY <1>15 DEF GateChanged, Running, TypeOK, Order, Pure
<1>16. ASSUME Wake PROVE Pure'
  BY <1>16 DEF Wake, Running, TypeOK, Order, Pure
<1>17. ASSUME Snapshot PROVE Pure'
  BY <1>17 DEF Snapshot, TakeSnapshot, Running, TypeOK, Order, Pure
<1>18. ASSUME Copy PROVE Pure'
  <2> DEFINE k == window.start + Len(chunk)
  <2>1. k \in 0 .. moved - 1 /\ enabled
    <3>1. /\ enabled /\ Len(chunk) < window.count
          /\ window.start + window.count <= moved
      BY <1>18 DEF Copy, Running, Order
    <3>2. /\ window.start \in Nat /\ window.count \in Nat
          /\ Len(chunk) \in Nat /\ moved \in Nat
      BY Types
    <3> QED
      BY <3>1, <3>2
  <2>2. ring[Slot(k)].s = session /\ ring[Slot(k)] \in Words
    <3>1. ring[Slot(k)].s = session
      BY <2>1 DEF Pure
    <3>2. k \in Nat /\ Slot(k) \in Slots
      BY Types, SlotType
    <3>3. ring \in [Slots -> Words]
      BY Types
    <3> QED
      BY <3>1, <3>2, <3>3
  <2>3. /\ Len(chunk') = Len(chunk) + 1
        /\ \A i \in 1 .. Len(chunk) : chunk'[i] = chunk[i]
        /\ chunk'[Len(chunk) + 1] = ring[Slot(k)]
    BY <1>18, <2>2, Types, Longer DEF Copy
  <2>4. \A i \in 1 .. Len(chunk) : chunk[i].s = session
    BY <1>18 DEF Copy, Running, Pure
  <2>5. ASSUME NEW i \in 1 .. Len(chunk') PROVE chunk'[i].s = session
    <3>1. i \in 1 .. Len(chunk) \/ i = Len(chunk) + 1
      <4>1. Len(chunk) \in Nat /\ i \in 1 .. Len(chunk) + 1
        BY <2>3, Types
      <4> QED
        BY <4>1
    <3>2. CASE i \in 1 .. Len(chunk)
      BY <2>3, <2>4, <3>2
    <3>3. CASE i = Len(chunk) + 1
      BY <2>2, <2>3, <3>3
    <3> QED
      BY <3>1, <3>2, <3>3
  <2> QED
    BY <1>18, <2>5 DEF Copy, Running, Pure
<1>19. ASSUME Publish PROVE Pure'
  BY <1>19 DEF Publish, Running, TypeOK, Order, Pure
<1>20. ASSUME Report PROVE Pure'
  <2>1. enabled /\ session >= 1
    BY <1>20 DEF Report, Running, Order
  <2>2. \A i \in 1 .. Len(chunk) : chunk[i].s = session
    BY <1>20 DEF Report, Running, Pure
  <2>3. session \in 1 .. session
    BY <2>1, Types
  <2> QED
    BY <1>20, <2>2, <2>3 DEF Report, Pure
<1>21. ASSUME WriteByte PROVE Pure'
  BY <1>21 DEF WriteByte, Running, TypeOK, Order, Pure
<1>22. ASSUME WriteFails PROVE Pure'
  BY <1>22 DEF WriteFails, Running, TypeOK, Order, Pure
<1> QED
  BY <1>1, <1>2, <1>3, <1>4, <1>5, <1>6, <1>7, <1>8, <1>9, <1>10, <1>11,
     <1>12, <1>13, <1>14, <1>15, <1>16, <1>17, <1>18, <1>19, <1>20, <1>21, <1>22,
     <1>23, <1>24
  DEF Next, Hardware, ControlTask, Begun, ReceiveTask

(* Boot. *)
LEMMA InitStep == Init => IInv
<1> SUFFICES ASSUME Init PROVE IInv
  OBVIOUS
<1>1. TypeOK
  <2>1. moved \in 0 .. TransferCount /\ consumed \in 0 .. TransferCount
    BY Params DEF Init
  <2>2. Noise \in Words
    BY DEF Noise, Words
  <2>3. ring \in [Slots -> Words]
    BY <2>2 DEF Init
  <2>4. /\ fifo \in Seq(Words) /\ isr \in Seq(Words) /\ chunk \in Seq(Words)
        /\ Len(fifo) <= FifoWords /\ Len(isr) <= 1 /\ Len(chunk) <= ChunkBytes
    BY Params DEF Init
  <2>5. window \in [start : Nat, count : 0 .. ChunkBytes]
    BY Params DEF Init
  <2>6. /\ fifoOvf \in Nat /\ ringOvf \in Nat /\ session \in Nat /\ entered \in Nat
        /\ base \in Nat /\ forgotten \in Nat
    BY DEF Init
  <2>7. got \subseteq Nat
    BY DEF Init
  <2> QED
    BY <2>1, <2>3, <2>4, <2>5, <2>6, <2>7 DEF Init, TypeOK
<1>2. Order
  BY DEF Init, Order
<1>3. Pure
  BY DEF Init, Pure
<1> QED
  BY <1>1, <1>2, <1>3 DEF IInv

(* The invariant is kept by every step and by every step that changes      *)
(* nothing.                                                                *)
LEMMA Step == IInv /\ [Next]_vars => IInv'
<1> SUFFICES ASSUME IInv, [Next]_vars PROVE IInv'
  OBVIOUS
<1>1. CASE Next
  BY <1>1, TypeOKStep, OrderStep, PureStep DEF IInv
<1>2. CASE UNCHANGED vars
  <2>1. TypeOK'
    BY <1>2 DEF IInv, vars, TypeOK
  <2>2. Order'
    BY <1>2 DEF IInv, vars, Order
  <2>3. Pure'
    BY <1>2 DEF IInv, vars, Pure
  <2> QED
    BY <2>1, <2>2, <2>3 DEF IInv
<1> QED
  BY <1>1, <1>2

(* Types, order and purity hold in every reachable state. *)
THEOREM Invariance == Spec => []IInv
<1>1. Init => IInv
  BY InitStep
<1>2. IInv /\ [Next]_vars => IInv'
  BY Step
<1> QED
  BY <1>1, <1>2, PTL DEF Spec

(* Ring, FIFO, chunk and counters keep their ranges for every size of      *)
(* them; above all, a chunk never exceeds the buffer it is copied to, and  *)
(* neither position of the ring passes the end of the channel's run.       *)
THEOREM TypeCorrect == Spec => []TypeOK
<1>1. IInv => TypeOK
  BY DEF IInv
<1> QED
  BY <1>1, Invariance, PTL

(* No word of an earlier session and nothing that a dead line made up is   *)
(* ever copied or handed to the ESP, whatever the lengths are.             *)
THEOREM SessionPurity == Spec => []SessionPure
<1>1. IInv => SessionPure
  <2> SUFFICES ASSUME IInv PROVE SessionPure
    OBVIOUS
  <2>1. DOMAIN chunk = 1 .. Len(chunk)
    BY Types DEF IInv
  <2>2. CASE pc \in {"copy", "report", "count"}
    <3>1. enabled /\ session >= 1
      BY <2>2 DEF IInv, Order
    <3>2. session \in 1 .. session
      BY <3>1, Types DEF IInv
    <3>3. \A i \in 1 .. Len(chunk) : chunk[i].s = session
      BY <2>2 DEF IInv, Pure
    <3> QED
      BY <2>1, <3>2, <3>3 DEF SessionPure
  <2>3. CASE pc = "write"
    <3>1. PICK s \in 1 .. session : \A i \in 1 .. Len(chunk) : chunk[i].s = s
      BY <2>3 DEF IInv, Pure
    <3> QED
      BY <2>1, <2>3, <3>1 DEF SessionPure
  <2>4. CASE pc \notin {"copy", "report", "count", "write"}
    <3>1. chunk = <<>>
      BY <2>4 DEF IInv, Order
    <3> QED
      BY <3>1 DEF SessionPure
  <2> QED
    BY <2>2, <2>3, <2>4
<1> QED
  BY <1>1, Invariance, PTL

-----------------------------------------------------------------------------
(* AsicRxRing implements RxSessions. *)

(* The places of the receive task at which a chunk has been taken. *)
Handing == {"report", "count", "write"}

(* What is taken depends on the chunk and the place of the task only, *)
LEMMA TakenSame ==
  ASSUME chunk' = chunk, pc \in Handing <=> pc' \in Handing
  PROVE  Taken' = Taken
  BY DEF Taken, Handing

(* ... is nothing before a chunk has been published, *)
LEMMA TakenNone ==
  ASSUME pc \notin Handing
  PROVE  Taken = <<>>
  BY DEF Taken, Handing

(* ... and afterwards the sessions of its words. *)
LEMMA TakenSome ==
  ASSUME TypeOK, Order, pc \in Handing
  PROVE  /\ Taken \in Seq(Nat) /\ Len(Taken) = Len(chunk) /\ Taken # <<>>
         /\ \A i \in 1 .. Len(chunk) : Taken[i] = chunk[i].s
<1>1. DOMAIN chunk = 1 .. Len(chunk)
  BY Types
<1>2. Taken = [i \in 1 .. Len(chunk) |-> chunk[i].s]
  BY <1>1 DEF Taken, Handing
<1>3. \A i \in 1 .. Len(chunk) : chunk[i].s \in Nat
  <2> SUFFICES ASSUME NEW i \in 1 .. Len(chunk) PROVE chunk[i].s \in Nat
    OBVIOUS
  <2>1. chunk[i] \in Words
    BY Types
  <2> QED
    BY <2>1 DEF Words
<1>4. chunk # <<>>
  BY DEF Order, Handing
<1>5. Len(chunk) \in Nat \ {0}
  BY <1>4, Types, Shorter
<1>6. Taken \in Seq(Nat) /\ Len(Taken) = Len(chunk)
  BY <1>2, <1>3, <1>5
<1> QED
  BY <1>2, <1>5, <1>6

(* Every step is a step of RxSessions or none. *)
LEMMA Mapped ==
  ASSUME IInv, Next
  PROVE  Sessions!Next \/ UNCHANGED Sessions!vars
<1> USE DEF IInv
<1>1. ASSUME enabled' = enabled, session' = session, Taken' = Taken
      PROVE  UNCHANGED Sessions!vars
  BY <1>1 DEF Sessions!vars
<1>2. CASE Stop
  <2>1. Taken' = Taken
    BY <1>2, TakenSame DEF Stop
  <2>2. CASE enabled
    BY <1>2, <2>1, <2>2 DEF Stop, Sessions!Next, Sessions!Close
  <2>3. CASE ~enabled
    <3>1. enabled' = enabled
      BY <1>2, <2>3 DEF Stop, TypeOK
    <3> QED
      BY <1>1, <1>2, <2>1, <3>1 DEF Stop
  <2> QED
    BY <2>2, <2>3
<1>3. CASE Open
  <2>1. Taken' = Taken
    BY <1>3, TakenSame DEF Open
  <2>2. ~enabled
    BY <1>3 DEF Open, Order
  <2> QED
    BY <1>3, <2>1, <2>2 DEF Open, Sessions!Next, Sessions!Open
<1>4. CASE Publish
  <2>1. Taken = <<>>
    BY <1>4, TakenNone DEF Publish, Running, Handing
  <2>2. enabled' = enabled /\ session' = session
    BY <1>4 DEF Publish
  <2>3. CASE ~(fresh /\ enabled)
    <3>1. Taken' = <<>>
      BY <1>4, <2>3 DEF Publish, Taken
    <3> QED
      BY <1>1, <2>1, <2>2, <3>1
  <2>4. CASE fresh /\ enabled
    <3> DEFINE n == Len(chunk)
    <3>1. Taken' = [i \in DOMAIN chunk |-> chunk[i].s]
      BY <1>4, <2>4 DEF Publish, Taken
    <3>2. DOMAIN chunk = 1 .. n
      BY Types
    <3>3. \A i \in 1 .. n : chunk[i].s = session
      BY <1>4 DEF Publish, Running, Pure
    <3>4. n = window.count /\ window.count >= 1
      BY <1>4 DEF Publish, Running, Order
    <3>5. n <= ChunkBytes
      BY DEF TypeOK
    <3>6. n \in 1 .. ChunkBytes
      BY <3>4, <3>5, Types, Params
    <3>7. Taken' = [i \in 1 .. n |-> session]
      BY <3>1, <3>2, <3>3
    <3> QED
      BY <2>1, <2>2, <2>4, <3>6, <3>7 DEF Sessions!Next, Sessions!Take
  <2> QED
    BY <2>3, <2>4
<1>5. CASE Report
  <2>1. Taken' = Taken
    BY <1>5, TakenSame DEF Report, Running, Handing
  <2> QED
    BY <1>1, <1>5, <2>1 DEF Report
<1>6. CASE WriteByte
  <2>1. pc \in Handing /\ enabled' = enabled /\ session' = session
    BY <1>6 DEF WriteByte, Running, Handing
  <2>2. /\ Taken \in Seq(Nat) /\ Len(Taken) = Len(chunk) /\ Taken # <<>>
        /\ \A i \in 1 .. Len(chunk) : Taken[i] = chunk[i].s
    BY <2>1, TakenSome
  <2>3. /\ chunk' \in Seq(Words) /\ Len(chunk') = Len(chunk) - 1
        /\ Len(chunk) \in Nat \ {0}
        /\ \A i \in 1 .. Len(chunk) - 1 : chunk'[i] = chunk[i + 1]
    BY <1>6, Types, Shorter DEF WriteByte
  <2>4. Tail(Taken) = [i \in 1 .. Len(chunk) - 1 |-> chunk[i + 1].s]
    <3>1. Tail(Taken) = [i \in 1 .. Len(chunk) - 1 |-> Taken[i + 1]]
      BY <2>2, TailIs
    <3>2. \A i \in 1 .. Len(chunk) - 1 : Taken[i + 1] = chunk[i + 1].s
      BY <2>2, <2>3
    <3> QED
      BY <3>1, <3>2
  <2>5. Taken' = Tail(Taken)
    <3>1. CASE chunk' = <<>>
      <4>1. Taken' = <<>>
        BY <1>6, <3>1 DEF WriteByte, Taken
      <4>2. Len(chunk) = 1
        BY <2>3, <3>1
      <4>3. Tail(Taken) = <<>>
        BY <2>2, <4>2, TailIs
      <4> QED
        BY <4>1, <4>3
    <3>2. CASE chunk' # <<>>
      <4>1. Taken' = [i \in DOMAIN chunk' |-> chunk'[i].s]
        BY <1>6, <3>2 DEF WriteByte, Taken
      <4>2. DOMAIN chunk' = 1 .. Len(chunk) - 1
        BY <2>3
      <4> QED
        BY <2>3, <2>4, <4>1, <4>2
    <3> QED
      BY <3>1, <3>2
  <2> QED
    BY <2>1, <2>2, <2>5 DEF Sessions!Next, Sessions!Hand
<1>7. CASE WriteFails
  <2>1. pc \in Handing /\ enabled' = enabled /\ session' = session
    BY <1>7 DEF WriteFails, Running, Handing
  <2>2. Taken # <<>>
    BY <2>1, TakenSome
  <2>3. Taken' = <<>>
    BY <1>7 DEF WriteFails, Taken
  <2> QED
    BY <2>1, <2>2, <2>3 DEF Sessions!Next, Sessions!Abandon
<1>8. CASE \E f \in BOOLEAN : Apply(f)
  <2>1. Taken' = Taken
    BY <1>8, TakenSame DEF Apply
  <2> QED
    BY <1>1, <1>8, <2>1 DEF Apply
<1>9. CASE Receive
  <2>1. Taken' = Taken
    BY <1>9, TakenSame DEF Receive
  <2> QED
    BY <1>1, <1>9, <2>1 DEF Receive
<1>10. CASE Lose
  <2>1. Taken' = Taken
    BY <1>10, TakenSame DEF Lose
  <2> QED
    BY <1>1, <1>10, <2>1 DEF Lose
<1>11. CASE Unstall
  <2>1. Taken' = Taken
    BY <1>11, TakenSame DEF Unstall
  <2> QED
    BY <1>1, <1>11, <2>1 DEF Unstall
<1>12. CASE Transfer
  <2>1. Taken' = Taken
    BY <1>12, TakenSame DEF Transfer
  <2> QED
    BY <1>1, <1>12, <2>1 DEF Transfer
<1>13. CASE Disable
  <2>1. Taken' = Taken
    BY <1>13, TakenSame DEF Disable
  <2> QED
    BY <1>1, <1>13, <2>1 DEF Disable
<1>14. CASE Drain
  <2>1. Taken' = Taken
    BY <1>14, TakenSame DEF Drain, Reset
  <2> QED
    BY <1>1, <1>14, <2>1 DEF Drain, Reset
<1>15. CASE Close
  <2>1. Taken' = Taken
    BY <1>15, TakenSame DEF Close
  <2> QED
    BY <1>1, <1>15, <2>1 DEF Close
<1>16. CASE GetRxStats
  <2>1. Taken' = Taken
    BY <1>16, TakenSame DEF GetRxStats
  <2> QED
    BY <1>1, <1>16, <2>1 DEF GetRxStats
<1>24. CASE StatsCount
  <2>1. Taken' = Taken
    BY <1>24, TakenSame DEF StatsCount, CountStall
  <2> QED
    BY <1>1, <1>24, <2>1 DEF StatsCount, CountStall
<1>25. CASE ReportCount
  <2>1. Taken' = Taken
    BY <1>25, TakenSame DEF ReportCount, CountStall, Running, Handing
  <2> QED
    BY <1>1, <1>25, <2>1 DEF ReportCount, CountStall
<1>17. CASE TopUnlessEnabled
  <2>1. Taken = <<>> /\ Taken' = <<>>
    BY <1>17 DEF TopUnlessEnabled, Running, Taken
  <2> QED
    BY <1>1, <1>17, <2>1 DEF TopUnlessEnabled, Running
<1>18. CASE Restart
  <2>1. Taken = <<>> /\ Taken' = <<>>
    BY <1>18 DEF Restart, Rearm, Running, Taken
  <2> QED
    BY <1>1, <1>18, <2>1 DEF Restart, Rearm, Running
<1>19. CASE Top
  <2>1. Taken = <<>> /\ Taken' = <<>>
    BY <1>19 DEF Top, Running, Taken
  <2> QED
    BY <1>1, <1>19, <2>1 DEF Top, Running
<1>20. CASE GateChanged
  <2>1. Taken = <<>> /\ Taken' = <<>>
    BY <1>20 DEF GateChanged, Running, Taken
  <2> QED
    BY <1>1, <1>20, <2>1 DEF GateChanged, Running
<1>21. CASE Wake
  <2>1. Taken = <<>> /\ Taken' = <<>>
    BY <1>21 DEF Wake, Running, Taken
  <2> QED
    BY <1>1, <1>21, <2>1 DEF Wake, Running
<1>22. CASE Snapshot
  <2>1. Taken = <<>> /\ Taken' = <<>>
    BY <1>22 DEF Snapshot, TakeSnapshot, Running, Taken
  <2> QED
    BY <1>1, <1>22, <2>1 DEF Snapshot, TakeSnapshot, Running
<1>23. CASE Copy
  <2>1. Taken = <<>> /\ Taken' = <<>>
    BY <1>23 DEF Copy, Running, Taken
  <2> QED
    BY <1>1, <1>23, <2>1 DEF Copy, Running
<1> QED
  BY <1>2, <1>3, <1>4, <1>5, <1>6, <1>7, <1>8, <1>9, <1>10, <1>11, <1>12,
     <1>13, <1>14, <1>15, <1>16, <1>17, <1>18, <1>19, <1>20, <1>21, <1>22, <1>23,
     <1>24, <1>25
  DEF Next, Hardware, ControlTask, Begun, ReceiveTask

(* The receive path keeps its promise on sessions: chunks are taken while  *)
(* the gate is open, hold words of the open session only, and no more than *)
(* the rest of one chunk reaches the ESP after the gate has closed.        *)
THEOREM Implements == Spec => SessionsSpec
<1>1. Init => Sessions!Init
  BY DEF Init, Taken, Sessions!Init
<1>2. IInv /\ [Next]_vars => [Sessions!Next]_Sessions!vars
  <2> SUFFICES ASSUME IInv, [Next]_vars
               PROVE  Sessions!Next \/ UNCHANGED Sessions!vars
    OBVIOUS
  <2>1. CASE Next
    BY <2>1, Mapped
  <2>2. CASE UNCHANGED vars
    <3>1. Taken' = Taken
      BY <2>2, TakenSame DEF vars
    <3> QED
      BY <2>2, <3>1 DEF vars, Sessions!vars
  <2> QED
    BY <2>1, <2>2
<1> QED
  BY <1>1, <1>2, Invariance, PTL DEF Spec, SessionsSpec, Sessions!Spec

=============================================================================
