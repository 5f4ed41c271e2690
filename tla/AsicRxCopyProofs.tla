--------------------------- MODULE AsicRxCopyProofs ---------------------------
(***************************************************************************)
(* Theorems about what AsicRxRing copies and what it counts, for every     *)
(* length of ring, FIFO and chunk and every transfer count: a copy that    *)
(* DMA has not overtaken is the words of its window, every word that DMA   *)
(* has moved is accounted for, and a loss in the PIO is reported.          *)
(***************************************************************************)
EXTENDS AsicRxRingProofs, FiniteSetTheorems

USE DEF smVars, dmaVars, ctlVars, statVars, copyVars, lossVars

-----------------------------------------------------------------------------
(* The additions to the inductive invariant. *)

(* The words of the open session are numbered through: the latest of them  *)
(* in the ring, then the FIFO, then the stalled state machine.             *)
Numbered ==
  enabled =>
    /\ \A k \in Nat : k < moved /\ moved <= k + RingWords => ring[Slot(k)].n = base + k
    /\ \A i \in 1 .. Len(fifo) : fifo[i].n = base + moved + i - 1
    /\ \A i \in 1 .. Len(isr) : isr[i].n = base + moved + Len(fifo)
    /\ entered = base + moved + Len(fifo) + Len(isr)

(* What is not yet copied is still in the ring, unless DMA has overtaken   *)
(* the copy; what is copied has the numbers of its window.                 *)
Copied ==
  ~raced =>
    /\ pc = "copy" /\ Len(chunk) < window.count =>
         moved <= window.start + Len(chunk) + RingWords
    /\ pc \in {"copy", "report", "count"} =>
         \A i \in 1 .. Len(chunk) : chunk[i].n = base + window.start + i - 1

(* Up to here, the words of the session are settled.                       *)
Settled == base + (IF pc = "copy" THEN window.start ELSE consumed)

(* What is settled was taken, is counted as lost, or was given up; and     *)
(* nothing further on was taken.  A copy is published: no change of the    *)
(* gate and no restart comes between its snapshot and its end.             *)
Counted ==
  /\ gate = "finish" => ringOvf = 0
  /\ pc = "copy" => fresh
  /\ enabled /\ ~raced =>
       /\ IsFiniteSet(got) /\ \A n \in got : n < Settled
       /\ Settled = Cardinality(got) + ringOvf + forgotten

(* A channel stops when it has moved all that it was to move, and only     *)
(* then it is started again.                                               *)
Rounds ==
  /\ enabled /\ ~busy => moved = TransferCount
  /\ \E runs \in Nat : base = runs * TransferCount

-----------------------------------------------------------------------------
(* Two indices less than a ring apart have different slots. *)
LEMMA SlotsApart ==
  ASSUME NEW k \in Nat, NEW m \in Nat, k < m, m < k + RingWords
  PROVE  Slot(k) # Slot(m)
<1> SUFFICES ASSUME Slot(k) = Slot(m) PROVE FALSE
  OBVIOUS
<1> DEFINE R == RingWords
           a == k \div R
           b == m \div R
<1>1. R \in Nat \ {0}
  BY Params
<1>2. /\ a \in Int /\ b \in Int
      /\ k = R * a + (k % R) /\ m = R * b + (m % R)
  BY <1>1
<1>3. m - k = R * b - R * a
  <2>1. R * a \in Int /\ R * b \in Int /\ (k % R) \in Int /\ (m % R) \in Int
    BY <1>1, <1>2
  <2>2. k % R = m % R
    BY DEF Slot
  <2> HIDE DEF a, b, R
  <2> QED BY <1>2, <2>1, <2>2
<1> HIDE DEF a, b, R
<1>4. CASE b <= a
  <2>1. R * b <= R * a
    BY <1>1, <1>2, <1>4
  <2>2. R * a \in Int /\ R * b \in Int
    BY <1>1, <1>2
  <2> QED BY <1>3, <2>1, <2>2
<1>5. CASE b >= a + 1
  <2>1. R * b >= R * (a + 1)
    BY <1>1, <1>2, <1>5
  <2>2. R * (a + 1) = R * a + R
    BY <1>1, <1>2
  <2>3. m < k + R
    BY DEF R
  <2>4. R * a \in Int /\ R * b \in Int
    BY <1>1, <1>2
  <2> QED BY <1>1, <1>3, <2>1, <2>2, <2>3, <2>4
<1> QED BY <1>2, <1>4, <1>5

(* A window begins no further back than the ring reaches. *)
LEMMA WindowReaches ==
  ASSUME NEW p \in Nat, NEW c \in Nat, c <= p, NEW n \in Nat
  PROVE  DmaRingWindow(p, c, n).start \in Nat /\ p <= DmaRingWindow(p, c, n).start + n
BY DEF DmaRingWindow, WrappingSub

(* An empty window is one without loss. *)
LEMMA WindowEmpty ==
  ASSUME NEW p \in Nat, NEW c \in Nat, c <= p, NEW n \in Nat \ {0},
         DmaRingWindow(p, c, n).available = 0
  PROVE  DmaRingWindow(p, c, n).dropped = 0
BY DEF DmaRingWindow, WrappingSub

(* A set grows by an interval above it. *)
LEMMA GrowsBy ==
  ASSUME NEW S, IsFiniteSet(S), NEW a \in Int, NEW c \in Nat, \A n \in S : n < a,
         S \subseteq Int
  PROVE  LET T == S \cup a .. a + c - 1
         IN  /\ IsFiniteSet(T) /\ Cardinality(T) = Cardinality(S) + c
             /\ \A n \in T : n < a + c
<1> DEFINE I == a .. a + c - 1
<1>1. IsFiniteSet(I) /\ Cardinality(I) = c
  <2>1. a + c - 1 \in Int /\ (a > a + c - 1 => c = 0)
    OBVIOUS
  <2>2. IsFiniteSet(I) /\ Cardinality(I) = IF a > a + c - 1 THEN 0 ELSE a + c - 1 - a + 1
    BY <2>1, FS_Interval
  <2> HIDE DEF I
  <2> QED BY <2>1, <2>2
<1>2. S \cap I = {}
  OBVIOUS
<1>3. Cardinality(S \cap I) = 0
  BY <1>2, FS_EmptySet
<1>4. \A n \in S \cup I : n < a + c
  OBVIOUS
<1>5. Cardinality(S) \in Nat
  BY FS_CardinalityType
<1> HIDE DEF I
<1>6. /\ IsFiniteSet(S \cup I)
      /\ Cardinality(S \cup I) = Cardinality(S) + Cardinality(I) - Cardinality(S \cap I)
  BY <1>1, FS_Union
<1>7. Cardinality(S \cup I) = Cardinality(S) + c
  BY <1>1, <1>3, <1>5, <1>6
<1> QED BY <1>4, <1>6, <1>7 DEF I

(* A word that the state machine samples has the next number. *)
LEMMA SampledWord ==
  ASSUME TypeOK, Order, sm
  PROVE  Sampled \in Words /\ Sampled.n = entered
<1>1. powered
  BY DEF Order
<1> QED BY <1>1, Types DEF Sampled, Words

-----------------------------------------------------------------------------
(* Every step keeps the parts. *)

(* Words keep their numbers on the way from the line to the ring. *)
LEMMA NumberedStep ==
  ASSUME IInv, Numbered, [Next]_vars
  PROVE  Numbered'
<1> USE DEF IInv
<1>1. CASE Receive
  <2> SUFFICES ASSUME enabled
               PROVE  /\ \A k \in Nat : k < moved /\ moved <= k + RingWords => ring[Slot(k)].n = base + k
                      /\ \A i \in 1 .. Len(fifo') : fifo'[i].n = base + moved + i - 1
                      /\ \A i \in 1 .. Len(isr') : isr'[i].n = base + moved + Len(fifo')
                      /\ entered' = base + moved + Len(fifo') + Len(isr')
    BY <1>1 DEF Receive, Numbered
  <2>1. Sampled \in Words /\ Sampled.n = entered
    BY <1>1, SampledWord DEF Receive
  <2>2. isr = <<>> /\ Len(isr) = 0 /\ entered' = entered + 1
    BY <1>1 DEF Receive
  <2>3. entered = base + moved + Len(fifo)
    BY <2>2, Types DEF Numbered
  <2>4. CASE fifo' = Append(fifo, Sampled) /\ isr' = isr
    <3>1. /\ Len(fifo') = Len(fifo) + 1 /\ fifo'[Len(fifo) + 1] = Sampled
          /\ \A i \in 1 .. Len(fifo) : fifo'[i] = fifo[i]
      BY <2>1, <2>4, Types, Longer
    <3>2. ASSUME NEW i \in 1 .. Len(fifo') PROVE fifo'[i].n = base + moved + i - 1
      <4>1. i \in 1 .. Len(fifo) \/ i = Len(fifo) + 1
        <5>1. Len(fifo) \in Nat /\ i \in 1 .. Len(fifo) + 1
          BY <3>1, Types
        <5> QED BY <5>1
      <4>2. CASE i \in 1 .. Len(fifo)
        BY <3>1, <4>2 DEF Numbered
      <4>3. CASE i = Len(fifo) + 1
        <5>1. base + moved + i - 1 = base + moved + Len(fifo)
          BY <4>3, Types
        <5> QED BY <2>1, <2>3, <3>1, <4>3, <5>1
      <4> QED BY <4>1, <4>2, <4>3
    <3>3. Len(isr') = 0
      BY <2>2, <2>4
    <3>4. entered' = base + moved + Len(fifo') + Len(isr')
      BY <2>2, <2>3, <3>1, <3>3, Types, SMTT(30)
    <3> QED BY <3>2, <3>3, <3>4 DEF Numbered
  <2>5. CASE isr' = <<Sampled>> /\ fifo' = fifo
    <3>1. Len(isr') = 1 /\ isr'[1] = Sampled
      BY <2>5
    <3>2. entered' = base + moved + Len(fifo') + Len(isr')
      BY <2>2, <2>3, <2>5, <3>1, Types
    <3>3. ASSUME NEW i \in 1 .. Len(isr') PROVE isr'[i].n = base + moved + Len(fifo')
      BY <2>1, <2>3, <2>5, <3>1
    <3> QED BY <2>5, <3>2, <3>3 DEF Numbered
  <2> QED BY <1>1, <2>4, <2>5 DEF Receive
<1>2. CASE Unstall
  <2> DEFINE e == Head(isr)
  <2> SUFFICES ASSUME enabled
               PROVE  /\ \A k \in Nat : k < moved /\ moved <= k + RingWords => ring[Slot(k)].n = base + k
                      /\ \A i \in 1 .. Len(fifo') : fifo'[i].n = base + moved + i - 1
                      /\ \A i \in 1 .. Len(isr') : isr'[i].n = base + moved + Len(fifo')
                      /\ entered' = base + moved + Len(fifo') + Len(isr')
    BY <1>2 DEF Unstall, Numbered
  <2>1. isr # <<>> /\ isr \in Seq(Words) /\ Len(isr) <= 1
    BY <1>2 DEF Unstall, TypeOK
  <2>2. e \in Words /\ e = isr[1] /\ Len(isr) = 1
    <3>1. e \in Words /\ e = isr[1] /\ Len(isr) \in Nat \ {0}
      BY <2>1, Shorter
    <3> DEFINE n == Len(isr)
    <3>2. n \in Nat \ {0} /\ n <= 1
      BY <2>1, <3>1
    <3> HIDE DEF n
    <3>3. n = 1
      BY <3>2
    <3> QED BY <3>1, <3>3 DEF n
  <2>3. e.n = base + moved + Len(fifo) /\ entered = base + moved + Len(fifo) + 1
    BY <2>2 DEF Numbered
  <2>4. fifo' = Append(fifo, e) /\ Len(isr') = 0 /\ entered' = entered
    BY <1>2 DEF Unstall
  <2> HIDE DEF e
  <2>5. /\ Len(fifo') = Len(fifo) + 1 /\ fifo'[Len(fifo) + 1] = e
        /\ \A i \in 1 .. Len(fifo) : fifo'[i] = fifo[i]
    BY <2>2, <2>4, Types, Longer
  <2>6. ASSUME NEW i \in 1 .. Len(fifo') PROVE fifo'[i].n = base + moved + i - 1
    <3>1. i \in 1 .. Len(fifo) \/ i = Len(fifo) + 1
      BY <2>5, Types
    <3>2. CASE i \in 1 .. Len(fifo)
      BY <2>5, <3>2 DEF Numbered
    <3>3. CASE i = Len(fifo) + 1
      <4>1. base + moved + i - 1 = base + moved + Len(fifo)
        BY <3>3, Types
      <4> QED BY <2>3, <2>5, <3>3, <4>1
    <3> QED BY <3>1, <3>2, <3>3
  <2>7. entered' = base + moved + Len(fifo') + Len(isr')
    BY <2>3, <2>4, <2>5, Types
  <2> QED BY <2>4, <2>6, <2>7 DEF Numbered
<1>3. CASE Transfer
  <2>1. enabled /\ moved' = moved + 1 /\ base' = base /\ isr' = isr /\ entered' = entered
    BY <1>3 DEF Transfer, Order
  <2>2. /\ Len(fifo') = Len(fifo) - 1 /\ Len(fifo) \in Nat \ {0}
        /\ Head(fifo) = fifo[1]
        /\ \A i \in 1 .. Len(fifo) - 1 : fifo'[i] = fifo[i + 1]
    BY <1>3, Types, Shorter DEF Transfer
  <2>3. \A i \in 1 .. Len(fifo) : fifo[i].n = base + moved + i - 1
    BY <2>1 DEF Numbered
  <2>4. ASSUME NEW i \in 1 .. Len(fifo') PROVE fifo'[i].n = base + moved' + i - 1
    <3>1. i \in 1 .. Len(fifo) - 1 /\ i + 1 \in 1 .. Len(fifo)
      BY <2>2
    <3>2. fifo[i + 1].n = base + moved + (i + 1) - 1
      BY <2>3, <3>1
    <3>3. base + moved + (i + 1) - 1 = base + moved' + i - 1
      <4>1. base \in Nat /\ moved \in Nat /\ i \in Nat /\ moved' = moved + 1
        BY <2>1, <3>1, Types
      <4> QED BY <4>1
    <3> QED BY <2>2, <3>1, <3>2, <3>3
  <2>5. entered = base + moved' + Len(fifo') + Len(isr)
    <3>1. entered = base + moved + Len(fifo) + Len(isr)
      BY <2>1 DEF Numbered
    <3> QED BY <2>1, <2>2, <3>1, Types
  <2>6. \A i \in 1 .. Len(isr) : isr[i].n = base + moved' + Len(fifo')
    <3>1. base + moved' + Len(fifo') = base + moved + Len(fifo)
      BY <2>1, <2>2, Types
    <3> QED BY <2>1, <3>1 DEF Numbered
  <2>7. ASSUME NEW k \in Nat, k < moved', moved' <= k + RingWords
        PROVE  ring'[Slot(k)].n = base + k
    <3>1. Slot(k) \in Slots /\ Slot(moved) \in Slots /\ ring \in [Slots -> Words]
      BY Types, SlotType
    <3>2. CASE k = moved
      <4>1. ring'[Slot(k)] = fifo[1]
        BY <1>3, <2>2, <3>1, <3>2 DEF Transfer
      <4>2. fifo[1].n = base + moved
        <5>1. 1 \in 1 .. Len(fifo)
          BY <2>2
        <5>2. fifo[1].n = base + moved + 1 - 1
          BY <2>3, <5>1
        <5> QED BY <5>2, Types
      <4> QED BY <3>2, <4>1, <4>2
    <3>3. CASE k # moved
      <4>1. k < moved /\ moved < k + RingWords /\ moved <= k + RingWords
        <5>1. /\ moved \in Nat /\ RingWords \in Nat /\ moved' = moved + 1
              /\ k < moved' /\ moved' <= k + RingWords /\ k # moved
          BY <2>1, <2>7, <3>3, Types, Params
        <5> QED BY <5>1
      <4>2. Slot(k) # Slot(moved)
        BY <4>1, Types, SlotsApart
      <4>3. ring'[Slot(k)] = ring[Slot(k)]
        BY <1>3, <3>1, <4>2 DEF Transfer
      <4> QED BY <2>1, <4>1, <4>3 DEF Numbered
    <3> QED BY <3>2, <3>3
  <2> QED BY <2>1, <2>4, <2>5, <2>6, <2>7 DEF Numbered
<1>4. CASE Open
  <2>1. fifo' = <<>> /\ isr' = <<>>
    BY <1>4 DEF Open, Order
  <2>2. Len(fifo') = 0 /\ Len(isr') = 0 /\ moved' = 0 /\ base' = 0 /\ entered' = 0
    BY <1>4, <2>1 DEF Open
  <2> QED BY <2>2 DEF Numbered
<1>5. CASE Restart
  <2>1. enabled /\ base' = base + moved /\ moved' = 0 /\ fifo' = fifo /\ isr' = isr /\ entered' = entered
    BY <1>5 DEF Restart, Rearm
  <2>2. base' + moved' = base + moved
    BY <2>1, Types
  <2>3. \A k \in Nat : ~(k < moved')
    BY <2>1
  <2> QED BY <2>1, <2>2, <2>3, Types DEF Numbered
<1>6. CASE Stop
  BY <1>6 DEF Stop, Numbered
<1>7. CASE Drain
  BY <1>7 DEF Drain, Reset, Order, Numbered
<1>8. CASE Lose \/ (\E f \in BOOLEAN : Apply(f)) \/ Disable \/ Close \/ GetRxStats \/ StatsCount
  BY <1>8 DEF Lose, Apply, Disable, Close, GetRxStats, StatsCount, CountStall, Numbered
<1>9. CASE TopUnlessEnabled \/ Top \/ GateChanged \/ Wake \/ Snapshot \/ Copy
  BY <1>9 DEF TopUnlessEnabled, Top, GateChanged, Wake, Snapshot, TakeSnapshot, Copy, Numbered
<1>10. CASE Publish \/ Report \/ ReportCount \/ WriteByte \/ WriteFails
  BY <1>10 DEF Publish, Report, ReportCount, CountStall, WriteByte, WriteFails, Numbered
<1>11. CASE UNCHANGED vars
  BY <1>11 DEF vars, Numbered
<1> QED
  BY <1>1, <1>2, <1>3, <1>4, <1>5, <1>6, <1>7, <1>8, <1>9, <1>10, <1>11
  DEF Next, Hardware, ControlTask, Begun, ReceiveTask

(* A copy keeps the numbers of its window. *)
LEMMA CopiedStep ==
  ASSUME IInv, Numbered, Copied, [Next]_vars
  PROVE  Copied'
<1> USE DEF IInv
<1>1. CASE Transfer
  <2> SUFFICES ASSUME ~raced'
               PROVE  /\ pc = "copy" /\ Len(chunk) < window.count =>
                           moved' <= window.start + Len(chunk) + RingWords
                      /\ pc \in {"copy", "report", "count"} =>
                           \A i \in 1 .. Len(chunk) : chunk[i].n = base + window.start + i - 1
    BY <1>1 DEF Transfer, Copied
  <2>1. ~raced /\ moved' = moved + 1
    BY <1>1 DEF Transfer
  <2>2. ASSUME pc = "copy", Len(chunk) < window.count
        PROVE  moved' <= window.start + Len(chunk) + RingWords
    <3> DEFINE s == window.start
               l == Len(chunk)
               c == window.count
    <3>1. moved <= s + l + RingWords /\ l < c
      BY <2>1, <2>2 DEF Copied
    <3>2. moved - RingWords \notin s + l .. s + c - 1
      BY <1>1, <2>2 DEF Transfer, Uncopied
    <3>3. s \in Nat /\ l \in Nat /\ c \in Nat /\ moved \in Nat /\ RingWords \in Nat
      BY Types, Params
    <3> HIDE DEF s, l, c
    <3>4. s + l \in s + l .. s + c - 1
      BY <3>1, <3>3
    <3>5. moved - RingWords # s + l
      BY <3>2, <3>4
    <3>6. moved + 1 <= s + l + RingWords
      BY <3>1, <3>3, <3>5
    <3> QED BY <2>1, <3>6 DEF s, l
  <2> QED BY <2>1, <2>2 DEF Copied
<1>2. CASE Snapshot
  <2> DEFINE w == DmaRingWindow(moved, consumed, RingWords)
  <2>1. CASE pc' = "sleep"
    BY <2>1 DEF Copied
  <2>2. CASE pc' # "sleep"
    <3>1. window'.start = w.start /\ chunk' = <<>> /\ moved' = moved
      BY <1>2, <2>2 DEF Snapshot, TakeSnapshot
    <3>2. consumed <= moved
      BY <1>2 DEF Snapshot, TakeSnapshot, Running, Order
    <3>3. w.start \in Nat /\ moved <= w.start + RingWords
      <4>1. moved \in Nat /\ consumed \in Nat /\ RingWords \in Nat
        BY Types, Params
      <4> QED BY <3>2, <4>1, WindowReaches
    <3> HIDE DEF w
    <3>4. Len(chunk') = 0
      BY <3>1
    <3>5. moved' <= window'.start + Len(chunk') + RingWords
      BY <3>1, <3>3, <3>4, Params
    <3>6. \A i \in 1 .. Len(chunk') : FALSE
      BY <3>4
    <3> QED BY <3>5, <3>6 DEF Copied
  <2> QED BY <2>1, <2>2
<1>3. CASE Copy
  <2> DEFINE k == window.start + Len(chunk)
  <2> SUFFICES ASSUME ~raced
               PROVE  /\ moved <= window.start + Len(chunk') + RingWords
                      /\ \A i \in 1 .. Len(chunk') : chunk'[i].n = base + window.start + i - 1
    BY <1>3 DEF Copy, Copied
  <2>1. /\ enabled /\ pc = "copy" /\ Len(chunk) < window.count
        /\ window.start + window.count <= moved
    BY <1>3 DEF Copy, Running, Order
  <2>2. moved <= k + RingWords
    BY <2>1 DEF Copied
  <2>3. k \in Nat /\ k < moved
    <3> DEFINE s == window.start
               l == Len(chunk)
               c == window.count
    <3>1. s \in Nat /\ l \in Nat /\ c \in Nat /\ moved \in Nat /\ l < c /\ s + c <= moved
      BY <2>1, Types
    <3> HIDE DEF s, l, c
    <3>2. s + l \in Nat /\ s + l < moved
      BY <3>1
    <3> QED BY <3>2 DEF s, l
  <2>4. ring[Slot(k)].n = base + k
    BY <2>1, <2>2, <2>3 DEF Numbered
  <2>5. ring[Slot(k)] \in Words
    <3>1. Slot(k) \in Slots /\ ring \in [Slots -> Words]
      BY <2>3, Types, SlotType
    <3> QED BY <3>1
  <2>6. /\ Len(chunk') = Len(chunk) + 1
        /\ \A i \in 1 .. Len(chunk) : chunk'[i] = chunk[i]
        /\ chunk'[Len(chunk) + 1] = ring[Slot(k)]
    BY <1>3, <2>5, Types, Longer DEF Copy
  <2>7. ASSUME NEW i \in 1 .. Len(chunk') PROVE chunk'[i].n = base + window.start + i - 1
    <3>1. i \in 1 .. Len(chunk) \/ i = Len(chunk) + 1
      <4>1. Len(chunk) \in Nat /\ i \in 1 .. Len(chunk) + 1
        BY <2>6, Types
      <4> QED BY <4>1
    <3>2. CASE i \in 1 .. Len(chunk)
      BY <2>1, <2>6, <3>2 DEF Copied
    <3>3. CASE i = Len(chunk) + 1
      <4>1. base + k = base + window.start + i - 1
        BY <3>3, Types
      <4> QED BY <2>4, <2>6, <3>3, <4>1
    <3> QED BY <3>1, <3>2, <3>3
  <2>8. moved <= window.start + Len(chunk') + RingWords
    <3> DEFINE s == window.start
               l == Len(chunk)
    <3>1. s \in Nat /\ l \in Nat /\ moved \in Nat /\ RingWords \in Nat
          /\ moved <= s + l + RingWords
      BY <2>2, Types, Params
    <3> HIDE DEF s, l
    <3>2. moved <= s + (l + 1) + RingWords
      BY <3>1
    <3> QED BY <2>6, <3>2 DEF s, l
  <2> QED BY <2>7, <2>8
<1>4. CASE Open
  BY <1>4 DEF Open, Order, Copied
<1>5. CASE Publish
  BY <1>5 DEF Publish, Running, Copied
<1>6. CASE Receive \/ Lose \/ Unstall \/ (\E f \in BOOLEAN : Apply(f)) \/ Stop
  BY <1>6 DEF Receive, Lose, Unstall, Apply, Stop, Copied
<1>7. CASE Disable \/ Drain \/ Close \/ GetRxStats \/ StatsCount
  BY <1>7 DEF Disable, Drain, Reset, Close, GetRxStats, StatsCount, CountStall, Copied
<1>8. CASE TopUnlessEnabled \/ Restart \/ Top \/ GateChanged \/ Wake
  BY <1>8 DEF TopUnlessEnabled, Restart, Rearm, Top, GateChanged, Wake, Copied
<1>9. CASE Report \/ ReportCount \/ WriteByte \/ WriteFails
  BY <1>9 DEF Report, ReportCount, CountStall, Running, WriteByte, WriteFails, Copied
<1>10. CASE UNCHANGED vars
  BY <1>10 DEF vars, Copied
<1> QED
  BY <1>1, <1>2, <1>3, <1>4, <1>5, <1>6, <1>7, <1>8, <1>9, <1>10
  DEF Next, Hardware, ControlTask, Begun, ReceiveTask

(* The stall flag is cleared only by counting it. *)
LEMMA ReportedStep ==
  ASSUME IInv, StallReported, [Next]_vars
  PROVE  StallReported'
<1> USE DEF IInv
<1>1. CASE Receive \/ Lose \/ Unstall \/ Transfer
  BY <1>1 DEF Receive, Lose, Unstall, Transfer, StallReported
<1>2. CASE (\E f \in BOOLEAN : Apply(f)) \/ Stop \/ Disable \/ Close
  BY <1>2 DEF Apply, Stop, Disable, Close, StallReported
<1>3. CASE Drain
  BY <1>3 DEF Drain, Reset, Order, StallReported
<1>4. CASE Open
  BY <1>4 DEF Open, StallReported
<1>5. CASE GetRxStats \/ StatsCount \/ Report \/ ReportCount
  BY <1>5 DEF GetRxStats, StatsCount, Report, ReportCount, CountStall, StallReported
<1>6. CASE TopUnlessEnabled \/ Restart \/ Top \/ GateChanged \/ Wake \/ Snapshot \/ Copy
  BY <1>6 DEF TopUnlessEnabled, Restart, Rearm, Top, GateChanged, Wake, Snapshot, TakeSnapshot,
              Copy, StallReported
<1>7. CASE Publish \/ WriteByte \/ WriteFails
  BY <1>7 DEF Publish, WriteByte, WriteFails, StallReported
<1>8. CASE UNCHANGED vars
  BY <1>8 DEF vars, StallReported
<1> QED
  BY <1>1, <1>2, <1>3, <1>4, <1>5, <1>6, <1>7, <1>8
  DEF Next, Hardware, ControlTask, Begun, ReceiveTask

(* Only a channel at its end is started again. *)
LEMMA RoundsStep ==
  ASSUME IInv, Rounds, [Next]_vars
  PROVE  Rounds'
<1> USE DEF IInv
<1>1. CASE Transfer
  <2>1. /\ base' = base /\ moved' = moved + 1 /\ moved < TransferCount
        /\ ~busy' => ~(moved' < TransferCount)
    BY <1>1 DEF Transfer, Order
  <2>2. moved \in Nat /\ TransferCount \in Nat
    BY Types, Params
  <2>3. ~busy' => moved' = TransferCount
    BY <2>1, <2>2
  <2> QED BY <2>1, <2>3 DEF Rounds
<1>2. CASE Restart
  <2>1. busy' /\ base' = base + moved /\ moved = TransferCount
    BY <1>2 DEF Restart, Rearm, Rounds
  <2>2. PICK runs \in Nat : base = runs * TransferCount
    BY DEF Rounds
  <2>3. base' = (runs + 1) * TransferCount
    <3>1. (runs + 1) * TransferCount = runs * TransferCount + TransferCount
      BY Params
    <3> QED BY <2>1, <2>2, <3>1
  <2>4. runs + 1 \in Nat
    OBVIOUS
  <2> QED BY <2>1, <2>3, <2>4 DEF Rounds
<1>3. CASE Open
  <2>1. busy' /\ base' = 0
    BY <1>3 DEF Open
  <2>2. 0 = 0 * TransferCount
    BY Params
  <2> QED BY <2>1, <2>2 DEF Rounds
<1>4. CASE Receive \/ Lose \/ Unstall \/ (\E f \in BOOLEAN : Apply(f)) \/ Stop \/ Disable
  BY <1>4 DEF Receive, Lose, Unstall, Apply, Stop, Disable, Rounds
<1>5. CASE Drain \/ Close \/ GetRxStats \/ StatsCount
  BY <1>5 DEF Drain, Reset, Close, GetRxStats, StatsCount, CountStall, Rounds
<1>6. CASE TopUnlessEnabled \/ Top \/ GateChanged \/ Wake \/ Snapshot \/ Copy
  BY <1>6 DEF TopUnlessEnabled, Top, GateChanged, Wake, Snapshot, TakeSnapshot, Copy, Rounds
<1>7. CASE Publish \/ Report \/ ReportCount \/ WriteByte \/ WriteFails
  BY <1>7 DEF Publish, Report, ReportCount, CountStall, WriteByte, WriteFails, Rounds
<1>8. CASE UNCHANGED vars
  BY <1>8 DEF vars, Rounds
<1> QED
  BY <1>1, <1>2, <1>3, <1>4, <1>5, <1>6, <1>7, <1>8
  DEF Next, Hardware, ControlTask, Begun, ReceiveTask

(* Settled is a number. *)
LEMMA SettledType == ASSUME TypeOK PROVE Settled \in Nat
<1>1. base \in Nat /\ window.start \in Nat /\ consumed \in Nat
  BY Types
<1> QED BY <1>1 DEF Settled

(* A step that leaves all that is counted as it was. *)
LEMMA CountedSame ==
  ASSUME Counted, UNCHANGED <<base, consumed, window, got, ringOvf, forgotten, raced, fresh>>,
         enabled' => enabled, gate' = "finish" => gate = "finish",
         pc' = "copy" <=> pc = "copy"
  PROVE  Counted'
<1>1. Settled' = Settled
  BY DEF Settled
<1> QED BY <1>1 DEF Counted

(* Every step that settles a word takes it, counts it or gives it up.     *)
LEMMA CountedStep ==
  ASSUME IInv, Copied, Counted, [Next]_vars
  PROVE  Counted'
<1> USE DEF IInv
<1>1. CASE Snapshot
  <2> DEFINE w == DmaRingWindow(moved, consumed, RingWords)
  <2>1. /\ pc = "snapshot" /\ gate = "idle" /\ enabled /\ consumed <= moved
    BY <1>1 DEF Snapshot, TakeSnapshot, Running, Order
  <2>2. moved \in Nat /\ consumed \in Nat /\ RingWords \in Nat \ {0}
    BY Types, Params
  <2>3. /\ w.start \in Nat /\ w.dropped \in Nat /\ consumed <= w.start
        /\ w.dropped = w.start - consumed
    BY <2>1, <2>2, WindowType
  <2>4. w.available = 0 => w.dropped = 0
    BY <2>1, <2>2, WindowEmpty
  <2>5. /\ fresh' /\ gate' = gate /\ base' = base /\ consumed' = consumed /\ got' = got
        /\ forgotten' = forgotten /\ raced' = raced /\ enabled' = enabled
        /\ ringOvf' = ringOvf + w.dropped
        /\ \/ w.available = 0 /\ pc' = "sleep"
           \/ pc' = "copy" /\ window'.start = w.start
    BY <1>1 DEF Snapshot, TakeSnapshot
  <2> HIDE DEF w
  <2>6. base \in Nat /\ ringOvf \in Nat /\ forgotten \in Nat
    BY Types
  <2>7. Settled = base + consumed
    BY <2>1 DEF Settled
  <2>8. Settled' = Settled + w.dropped
    <3>1. CASE pc' = "sleep"
      BY <2>2, <2>4, <2>5, <2>6, <2>7, <3>1 DEF Settled
    <3>2. CASE pc' = "copy"
      <4>1. Settled' = base + w.start
        BY <2>5, <3>2 DEF Settled
      <4> QED BY <2>2, <2>3, <2>6, <2>7, <4>1
    <3> QED BY <2>5, <3>1, <3>2
  <2>9. ASSUME ~raced
        PROVE  /\ IsFiniteSet(got) /\ \A n \in got : n < Settled'
               /\ Settled' = Cardinality(got) + ringOvf' + forgotten'
    <3>1. /\ IsFiniteSet(got) /\ \A n \in got : n < Settled
          /\ Settled = Cardinality(got) + ringOvf + forgotten
      BY <2>1, <2>9 DEF Counted
    <3>2. Cardinality(got) \in Nat /\ Settled \in Nat /\ got \subseteq Nat
      BY <3>1, FS_CardinalityType, SettledType DEF TypeOK
    <3>3. \A n \in got : n < Settled + w.dropped
      BY <2>3, <3>1, <3>2
    <3>4. Settled + w.dropped = Cardinality(got) + (ringOvf + w.dropped) + forgotten
      BY <2>3, <2>6, <3>1, <3>2
    <3> QED BY <2>5, <2>8, <3>1, <3>3, <3>4
  <2> QED BY <2>1, <2>5, <2>9 DEF Counted
<1>2. CASE Publish
  <2>1. /\ pc = "copy" /\ gate = "idle" /\ enabled /\ fresh
    BY <1>2 DEF Publish, Running, Order, Counted
  <2>2. /\ consumed' = window.start + window.count /\ pc' = "report" /\ Len(chunk) = window.count
        /\ got' = got \cup {chunk[i].n : i \in DOMAIN chunk}
        /\ gate' = gate /\ base' = base /\ ringOvf' = ringOvf /\ forgotten' = forgotten
        /\ raced' = raced /\ enabled' = enabled
    BY <1>2, <2>1 DEF Publish
  <2>3. ASSUME ~raced
        PROVE  /\ IsFiniteSet(got') /\ \A n \in got' : n < Settled'
               /\ Settled' = Cardinality(got') + ringOvf' + forgotten'
    <3> DEFINE s == window.start
               c == window.count
               a == base + s
    <3>1. Settled = a
      BY <2>1 DEF Settled
    <3>2. Settled' = base + (s + c)
      BY <2>2 DEF Settled
    <3>3. \A i \in 1 .. c : chunk[i].n = base + s + i - 1
      BY <2>1, <2>2, <2>3 DEF Copied
    <3>4. DOMAIN chunk = 1 .. c
      BY <2>2, Types
    <3>5. base \in Nat /\ s \in Nat /\ c \in Nat
      BY Types
    <3>6. /\ IsFiniteSet(got) /\ \A n \in got : n < Settled
          /\ Settled = Cardinality(got) + ringOvf + forgotten
      BY <2>1, <2>3 DEF Counted
    <3> HIDE DEF s, c
    <3>7. {chunk[i].n : i \in DOMAIN chunk} = a .. a + c - 1
      <4>1. \A i \in 1 .. c : chunk[i].n \in a .. a + c - 1
        BY <3>3, <3>5
      <4>2. ASSUME NEW n \in a .. a + c - 1
            PROVE  \E i \in 1 .. c : chunk[i].n = n
        <5>1. n - a + 1 \in 1 .. c
          BY <3>5
        <5>2. chunk[n - a + 1].n = base + s + (n - a + 1) - 1
          BY <3>3, <5>1
        <5>3. base + s + (n - a + 1) - 1 = n
          BY <3>5
        <5> QED BY <5>1, <5>2, <5>3
      <4> QED BY <3>4, <4>1, <4>2
    <3>8. got' = got \cup a .. a + c - 1
      BY <2>2, <3>7
    <3>9. a \in Int /\ got \subseteq Int
      BY <3>5 DEF TypeOK
    <3>10. \A n \in got : n < a
      BY <3>1, <3>6
    <3>11. Settled' = a + c
      BY <3>2, <3>5
    <3>12. Cardinality(got) \in Nat /\ ringOvf \in Nat /\ forgotten \in Nat
      BY <3>6, FS_CardinalityType, Types
    <3> HIDE DEF a
    <3>13. /\ IsFiniteSet(got') /\ Cardinality(got') = Cardinality(got) + c
           /\ \A n \in got' : n < a + c
      BY <3>5, <3>6, <3>8, <3>9, <3>10, GrowsBy
    <3>14. a + c = (Cardinality(got) + c) + ringOvf + forgotten
      BY <3>1, <3>5, <3>6, <3>12
    <3> QED BY <2>2, <3>11, <3>13, <3>14
  <2> QED BY <2>1, <2>2, <2>3 DEF Counted
<1>3. CASE Restart
  <2>1. /\ pc = "top" /\ pc' = "sleep" /\ gate = "idle" /\ gate' = gate /\ enabled
        /\ consumed' = 0 /\ base' = base + moved /\ forgotten' = forgotten + (moved - consumed)
        /\ got' = got /\ ringOvf' = ringOvf /\ raced' = raced
    BY <1>3 DEF Restart, Rearm, Running
  <2>2. /\ base \in Nat /\ moved \in Nat /\ consumed \in Nat /\ consumed <= moved
        /\ ringOvf \in Nat /\ forgotten \in Nat
    BY <2>1, Types DEF Order
  <2>3. Settled = base + consumed /\ Settled' = base + moved
    BY <2>1, <2>2 DEF Settled
  <2>4. ASSUME ~raced
        PROVE  /\ IsFiniteSet(got) /\ \A n \in got : n < Settled'
               /\ Settled' = Cardinality(got) + ringOvf + forgotten'
    <3>1. /\ IsFiniteSet(got) /\ \A n \in got : n < Settled
          /\ Settled = Cardinality(got) + ringOvf + forgotten
      BY <2>1, <2>4 DEF Counted
    <3>2. Cardinality(got) \in Nat /\ got \subseteq Nat
      BY <3>1, FS_CardinalityType DEF TypeOK
    <3>3. \A n \in got : n < base + moved
      BY <2>2, <2>3, <3>1, <3>2
    <3>4. base + moved = Cardinality(got) + ringOvf + (forgotten + (moved - consumed))
      BY <2>2, <2>3, <3>1, <3>2
    <3> QED BY <2>1, <2>3, <3>1, <3>3, <3>4
  <2> QED BY <2>1, <2>4 DEF Counted
<1>4. CASE Open
  <2>1. /\ ringOvf = 0 /\ consumed = 0 /\ pc # "copy"
    BY <1>4 DEF Open, Counted, Order
  <2>2. /\ got' = {} /\ base' = 0 /\ forgotten' = 0 /\ ringOvf' = 0 /\ consumed' = 0
        /\ pc' # "copy" /\ gate' = "idle"
    BY <1>4, <2>1 DEF Open
  <2>3. Settled' = 0 /\ IsFiniteSet(got') /\ Cardinality(got') = 0
    BY <2>2, FS_EmptySet DEF Settled
  <2> QED BY <2>2, <2>3 DEF Counted
<1>5. CASE Drain
  BY <1>5 DEF Drain, Reset, Order, Counted
<1>6. CASE Receive \/ Lose \/ Unstall \/ (\E f \in BOOLEAN : Apply(f)) \/ Stop \/ Disable \/ Close
  BY <1>6, CountedSame DEF Receive, Lose, Unstall, Apply, Stop, Disable, Close
<1>7. CASE GetRxStats \/ StatsCount \/ TopUnlessEnabled \/ Top \/ GateChanged \/ Wake
  BY <1>7, CountedSame
  DEF GetRxStats, StatsCount, CountStall, TopUnlessEnabled, Top, GateChanged, Wake, Running
<1>8. CASE Copy \/ Report \/ ReportCount \/ WriteByte \/ WriteFails
  BY <1>8, CountedSame DEF Copy, Report, ReportCount, CountStall, WriteByte, WriteFails, Running
<1>9. CASE Transfer
  <2>1. /\ UNCHANGED <<base, consumed, window, got, ringOvf, forgotten, fresh, pc, gate, enabled>>
        /\ raced => raced'
    BY <1>9 DEF Transfer
  <2>2. Settled' = Settled
    BY <2>1 DEF Settled
  <2> QED BY <2>1, <2>2 DEF Counted
<1>10. CASE UNCHANGED vars
  BY <1>10, CountedSame DEF vars
<1> QED
  BY <1>1, <1>2, <1>3, <1>4, <1>5, <1>6, <1>7, <1>8, <1>9, <1>10
  DEF Next, Hardware, ControlTask, Begun, ReceiveTask

-----------------------------------------------------------------------------
(* The theorems. *)

CopyInv == Numbered /\ Copied /\ Counted /\ Rounds /\ StallReported

(* The additions hold in every reachable state. *)
THEOREM CopyInvariance == Spec => [](IInv /\ CopyInv)
<1>1. Init => CopyInv
  <2> SUFFICES ASSUME Init PROVE CopyInv
    OBVIOUS
  <2>1. /\ ~enabled /\ pc = "sleep" /\ gate = "idle" /\ base = 0
    BY DEF Init
  <2>2. base = 0 * TransferCount
    BY <2>1, Params
  <2> QED BY <2>1, <2>2 DEF CopyInv, Numbered, Copied, Counted, Rounds, StallReported
<1>2. IInv /\ CopyInv /\ [Next]_vars => CopyInv'
  BY NumberedStep, CopiedStep, CountedStep, RoundsStep, ReportedStep DEF CopyInv
<1> QED BY <1>1, <1>2, Invariance, PTL DEF Spec

(* A copy that DMA has not overtaken is exactly the words of its window,   *)
(* in order, lapped or not and restarted or not.                           *)
THEOREM CopiesAreExact == Spec => []CopyExact
<1>1. IInv /\ CopyInv => CopyExact
  <2> SUFFICES ASSUME IInv, CopyInv PROVE CopyExact
    OBVIOUS
  <2>1. DOMAIN chunk = 1 .. Len(chunk)
    BY Types DEF IInv
  <2> QED BY <2>1 DEF CopyInv, Copied, CopyExact
<1> QED BY <1>1, CopyInvariance, PTL

(* Every word that DMA has moved was taken, is counted as lost, was given  *)
(* up by a restart, or is still to be looked at; and only a channel that   *)
(* has moved all that it was to move gives words up.                       *)
THEOREM WordsAreAccountedFor == Spec => []Accounted
<1>1. IInv /\ CopyInv => Accounted
  <2> SUFFICES ASSUME IInv, CopyInv PROVE Accounted
    OBVIOUS
  <2>1. PICK runs \in Nat : base = runs * TransferCount
    BY DEF CopyInv, Rounds
  <2>2. runs \in 0 .. base
    <3>1. runs * TransferCount >= runs
      BY Params
    <3> QED BY <2>1, <3>1
  <2>3. enabled /\ pc # "copy" /\ ~raced =>
          base + consumed = Cardinality(got) + ringOvf + forgotten
    BY DEF CopyInv, Counted, Settled
  <2> QED BY <2>1, <2>2, <2>3 DEF Accounted
<1> QED BY <1>1, CopyInvariance, PTL

(* No stall of the state machine vanishes from the count, whichever of the *)
(* two tasks polls the flag, and whenever PIO raises it.                   *)
THEOREM StallsAreReported == Spec => []StallReported
<1>1. IInv /\ CopyInv => StallReported
  BY DEF CopyInv
<1> QED BY <1>1, CopyInvariance, PTL
=============================================================================
