------------------------ MODULE ControlFramingProofs ------------------------
(***************************************************************************)
(* Theorems about ControlFraming for every length of buffer and ring and   *)
(* every set of packets: its types, that the task never waits without room *)
(* for what it waits for, and that it handles what the host has sent.      *)
(***************************************************************************)
EXTENDS ControlFraming, SequenceTheorems, WellFoundedInduction, TLAPS

USE DEF hostVars, taskVars

-----------------------------------------------------------------------------
(* The inductive invariant.  A task that is waiting has tried to extract a *)
(* packet in vain.                                                         *)

Tried == pc = "read" => ~Malformed(buf) /\ ~Complete(buf)

IInv == TypeOK /\ Tried

-----------------------------------------------------------------------------
(* Lemmas on constants, sequences and packets. *)

(* What FramingAssumption says of single constants. *)
LEMMA Params ==
  /\ ByteBase \in Nat \ {0} /\ MinPacket \in Nat /\ BufSize \in Nat /\ RingBytes \in Nat
  /\ MinPacket >= 6 /\ MinPacket <= BufSize
  /\ HostPackets \subseteq Seq(Byte)
  BY FramingAssumption

(* The part of a sequence behind some of its elements. *)
LEMMA Behind ==
  ASSUME NEW S, NEW s \in Seq(S), NEW n \in Nat
  PROVE  /\ SubSeq(s, n + 1, Len(s)) \in Seq(S)
         /\ Len(SubSeq(s, n + 1, Len(s))) <= Len(s)
<1>1. Len(s) \in Nat
  OBVIOUS
<1>2. SubSeq(s, n + 1, Len(s)) \in Seq(S)
  BY <1>1, SubSeqProperties
<1>3. Len(SubSeq(s, n + 1, Len(s))) = IF n + 1 <= Len(s) THEN Len(s) - n ELSE 0
  BY <1>1
<1> QED
  BY <1>1, <1>2, <1>3

(* The beginning of a sequence. *)
LEMMA Before ==
  ASSUME NEW S, NEW s \in Seq(S), NEW n \in 1 .. Len(s)
  PROVE  SubSeq(s, 1, n) \in Seq(S) /\ Len(SubSeq(s, 1, n)) = n
<1>1. Len(s) \in Nat
  OBVIOUS
<1> QED
  BY <1>1, SubSeqProperties

(* A length is a number. *)
LEMMA PacketLenType ==
  ASSUME NEW b \in Seq(Byte), HasLength(b)
  PROVE  PacketLen(b) \in Nat
<1>1. b[1] \in Byte /\ b[2] \in Byte
  BY DEF HasLength
<1>2. b[1] \in Nat /\ b[2] \in Nat /\ ByteBase \in Nat
  BY <1>1, Params DEF Byte
<1> QED
  BY <1>2 DEF PacketLen

(* An id is a byte. *)
LEMMA IdType ==
  ASSUME NEW b \in Seq(Byte)
  PROVE  IdOf(b) \in Byte
<1>1. ByteBase - 1 \in Byte
  BY Params DEF Byte
<1>2. Len(b) >= 3 => b[3] \in Byte
  OBVIOUS
<1> QED
  BY <1>1, <1>2 DEF IdOf, NoId

(* A result is one. *)
LEMMA ResultType ==
  ASSUME NEW b \in Seq(Byte)
  PROVE  Result(b) \in Results
  BY IdType DEF Result, Results, Kind

(* What is behind a packet is no longer than what there was. *)
LEMMA RestType ==
  ASSUME NEW b \in Seq(Byte), Malformed(b) \/ Complete(b)
  PROVE  Rest(b) \in Seq(Byte) /\ Len(Rest(b)) <= Len(b)
<1>1. CASE Malformed(b)
  <2>1. Rest(b) = <<>>
    BY <1>1 DEF Rest
  <2> QED
    BY <2>1
<1>2. CASE ~Malformed(b)
  <2>1. HasLength(b)
    BY <1>2 DEF Complete
  <2>2. PacketLen(b) \in Nat
    BY <2>1, PacketLenType
  <2>3. Rest(b) = SubSeq(b, PacketLen(b) + 1, Len(b))
    BY <1>2 DEF Rest
  <2> QED
    BY <2>2, <2>3, Behind
<1> QED
  BY <1>1, <1>2

(* An answer is one of the results. *)
LEMMA HandleType ==
  ASSUME TypeOK, NEW r \in Results, Handle(r)
  PROVE  handled' \in Seq(Results)
<1>1. handled \in Seq(Results)
  BY DEF TypeOK
<1>2. Append(handled, r) \in Seq(Results)
  BY <1>1
<1> QED
  BY <1>1, <1>2 DEF Handle

(* What extracting leaves, from any bytes that fit. *)
LEMMA ExtractKeeps ==
  ASSUME TypeOK, NEW b \in Seq(Byte), Len(b) <= BufSize, NEW next \in {"loop", "read"},
         TryExtract(b, next)
  PROVE  /\ buf' \in Seq(Byte) /\ Len(buf') <= BufSize
         /\ pc' \in {"loop", "read", "answer"}
         /\ handled' \in Seq(Results)
         /\ pc' = "read" => ~Malformed(buf') /\ ~Complete(buf')
<1>1. CASE Malformed(b) \/ Complete(b)
  <2>1. buf' = Rest(b) /\ pc' = "answer" /\ Handle(Result(b))
    BY <1>1 DEF TryExtract
  <2>2. Rest(b) \in Seq(Byte) /\ Len(Rest(b)) <= Len(b)
    BY <1>1, RestType
  <2>3. Len(Rest(b)) \in Nat /\ Len(b) \in Nat
    BY <2>2
  <2>4. Len(buf') <= BufSize
    BY <2>1, <2>2, <2>3, Params
  <2>5. handled' \in Seq(Results)
    BY <2>1, ResultType, HandleType
  <2> QED
    BY <2>1, <2>2, <2>4, <2>5
<1>2. CASE ~(Malformed(b) \/ Complete(b))
  <2>1. buf' = b /\ pc' = next /\ handled' = handled
    BY <1>2 DEF TryExtract
  <2>2. handled \in Seq(Results)
    BY DEF TypeOK
  <2> QED
    BY <1>2, <2>1, <2>2
<1> QED
  BY <1>1, <1>2

-----------------------------------------------------------------------------
(* Every action keeps the invariant. *)

(* A sequence without its head. *)
LEMMA TailType ==
  ASSUME NEW S, NEW s \in Seq(S), s # <<>>
  PROVE  Tail(s) \in Seq(S) /\ Head(s) \in S
  OBVIOUS

(* The empty buffer. *)
LEMMA NoBytes == <<>> \in Seq(Byte) /\ Len(<<>>) = 0 /\ 0 <= BufSize
  BY Params

(* The empty histories. *)
LEMMA NoHistory == <<>> \in Seq(Seq(Byte)) /\ <<>> \in Seq(Results)
  OBVIOUS

(* Well-formed histories, after damage or not. *)
LEMMA DamageType ==
  ASSUME Damage
  PROVE  clean' \in BOOLEAN /\ sent' \in Seq(Seq(Byte)) /\ handled' \in Seq(Results)
  BY NoHistory DEF Damage

(* Every step of task and host keeps the invariant. *)
LEMMA Step ==
  ASSUME IInv, Next
  PROVE  IInv'
<1> USE DEF IInv
<1>1. CASE Extract
  <2>1. /\ buf' \in Seq(Byte) /\ Len(buf') <= BufSize
        /\ pc' \in {"loop", "read", "answer"} /\ handled' \in Seq(Results)
        /\ pc' = "read" => ~Malformed(buf') /\ ~Complete(buf')
    <3>1. buf \in Seq(Byte) /\ Len(buf) <= BufSize
      BY DEF TypeOK
    <3>2. TryExtract(buf, "read")
      BY <1>1 DEF Extract
    <3> QED
      BY <3>1, <3>2, ExtractKeeps
  <2>2. Tried'
    BY <2>1 DEF Tried, Malformed, Complete, HasLength, LengthOk, PacketLen
  <2> QED
    BY <1>1, <2>1, <2>2 DEF Extract, TypeOK
<1>2. CASE Read
  <2>1. PICK n \in 1 .. Len(ring) :
          /\ Len(buf) + n <= BufSize
          /\ TryExtract(buf \o SubSeq(ring, 1, n), "loop")
          /\ ring' = SubSeq(ring, n + 1, Len(ring))
    BY <1>2 DEF Read
  <2>2. ring \in Seq(Byte) /\ buf \in Seq(Byte) /\ Len(ring) <= RingBytes /\ n \in Nat
    BY DEF TypeOK
  <2> DEFINE b == buf \o SubSeq(ring, 1, n)
  <2>3. b \in Seq(Byte) /\ Len(b) <= BufSize
    <3>1. SubSeq(ring, 1, n) \in Seq(Byte) /\ Len(SubSeq(ring, 1, n)) = n
      BY <2>2, Before
    <3>2. b \in Seq(Byte) /\ Len(b) = Len(buf) + n
      BY <2>2, <3>1
    <3> QED
      BY <2>1, <3>2
  <2>4. TryExtract(b, "loop")
    BY <2>1
  <2> HIDE DEF b
  <2>5. /\ buf' \in Seq(Byte) /\ Len(buf') <= BufSize
        /\ pc' \in {"loop", "read", "answer"} /\ handled' \in Seq(Results)
        /\ pc' = "read" => ~Malformed(buf') /\ ~Complete(buf')
    BY <2>3, <2>4, ExtractKeeps
  <2>6. ring' \in Seq(Byte) /\ Len(ring') <= RingBytes
    <3>1. ring' \in Seq(Byte) /\ Len(ring') <= Len(ring)
      BY <2>1, <2>2, Behind
    <3>2. Len(ring) \in Nat /\ Len(ring') \in Nat
      BY <2>2, <3>1
    <3> QED
      BY <2>2, <3>1, <3>2, Params
  <2>7. Tried'
    BY <2>5 DEF Tried, Malformed, Complete, HasLength, LengthOk, PacketLen
  <2> QED
    BY <1>2, <2>5, <2>6, <2>7 DEF Read, TypeOK
<1>3. CASE ReadError
  BY <1>3 DEF ReadError, TypeOK, Tried
<1>4. CASE Timeout
  <2>1. buf' = <<>>
    BY <1>4 DEF Timeout, TimesOut
  <2>2. buf' \in Seq(Byte) /\ Len(buf') <= BufSize
    BY <2>1, NoBytes
  <2>3. pc' \in {"loop", "answer"}
    BY <1>4 DEF Timeout, TimesOut
  <2>4. handled' \in Seq(Results)
    <3>1. CASE buf = <<>>
      BY <1>4, <3>1 DEF Timeout, TimesOut, TypeOK
    <3>2. CASE buf # <<>>
      <4>1. IdOf(buf) \in Byte
        BY IdType DEF TypeOK
      <4>2. [id |-> IdOf(buf), kind |-> "timeout"] \in Results
        BY <4>1 DEF Results
      <4> QED
        BY <1>4, <3>2, <4>2, HandleType DEF Timeout, TimesOut
    <3> QED
      BY <3>1, <3>2
  <2>5. clean' \in BOOLEAN
    BY <1>4 DEF Timeout, TimesOut
  <2> QED
    BY <1>4, <2>2, <2>3, <2>4, <2>5 DEF Timeout, TimesOut, TypeOK, Tried
<1>5. CASE Answer
  BY <1>5 DEF Answer, TypeOK, Tried
<1>6. ASSUME NEW p \in HostPackets, Begin(p) PROVE IInv'
  <2>1. unsent' \in Seq(Byte)
    BY <1>6, Params DEF Begin
  <2>2. begun' \in Nat
    BY <1>6 DEF Begin, TypeOK
  <2>3. clean' \in BOOLEAN /\ sent' \in Seq(Seq(Byte)) /\ handled' \in Seq(Results)
    <3>1. CASE Damage
      BY <3>1, DamageType
    <3>2. CASE sent' = Append(sent, p) /\ UNCHANGED <<clean, handled>>
      <4>1. p \in Seq(Byte) /\ sent \in Seq(Seq(Byte))
        BY Params DEF TypeOK
      <4>2. Append(sent, p) \in Seq(Seq(Byte))
        BY <4>1
      <4> QED
        BY <3>2, <4>2 DEF TypeOK
    <3> QED
      BY <1>6, <3>1, <3>2 DEF Begin
  <2> QED
    BY <1>6, <2>1, <2>2, <2>3 DEF Begin, TypeOK, Tried
<1>7. CASE Send
  <2>1. unsent' \in Seq(Byte) /\ Head(unsent) \in Byte
    <3>1. unsent \in Seq(Byte) /\ unsent # <<>>
      BY <1>7 DEF Send, TypeOK
    <3> QED
      BY <1>7, <3>1, TailType DEF Send
  <2>2. /\ ring' \in Seq(Byte) /\ Len(ring') <= RingBytes /\ error' \in BOOLEAN
        /\ clean' \in BOOLEAN /\ sent' \in Seq(Seq(Byte)) /\ handled' \in Seq(Results)
    <3>1. CASE Len(ring) < RingBytes
      <4>1. /\ ring' = Append(ring, Head(unsent))
            /\ UNCHANGED <<error, clean, sent, handled>>
        BY <1>7, <3>1 DEF Send
      <4>2. ring \in Seq(Byte)
        BY DEF TypeOK
      <4>3. ring' \in Seq(Byte) /\ Len(ring') = Len(ring) + 1 /\ Len(ring) \in Nat
        BY <2>1, <4>1, <4>2
      <4>4. Len(ring') <= RingBytes
        BY <3>1, <4>3, Params
      <4> QED
        BY <4>1, <4>3, <4>4 DEF TypeOK
    <3>2. CASE ~(Len(ring) < RingBytes)
      <4>1. error' = TRUE /\ Damage /\ ring' = ring
        BY <1>7, <3>2 DEF Send
      <4> QED
        BY <4>1, DamageType DEF TypeOK
    <3> QED
      BY <3>1, <3>2
  <2> QED
    BY <1>7, <2>1, <2>2 DEF Send, TypeOK, Tried
<1>8. CASE Lose
  <2>1. unsent' \in Seq(Byte)
    BY <1>8, TailType DEF Lose, TypeOK
  <2>2. Damage /\ flaws' \in Nat
    BY <1>8 DEF Lose, Flaw, TypeOK
  <2> QED
    BY <1>8, <2>1, <2>2, DamageType DEF Lose, TypeOK, Tried
<1>9. CASE HostStalls
  <2>1. Damage /\ flaws' \in Nat
    BY <1>9 DEF HostStalls, Flaw, TypeOK
  <2> QED
    BY <1>9, <2>1, DamageType DEF HostStalls, TypeOK, Tried
<1>10. CASE HostResumes
  BY <1>10 DEF HostResumes, TypeOK, Tried
<1>11. CASE BreakOff
  <2>1. Damage /\ flaws' \in Nat
    BY <1>11 DEF BreakOff, Flaw, TypeOK
  <2> QED
    BY <1>11, <2>1, DamageType, NoBytes DEF BreakOff, TypeOK, Tried
<1> QED
  BY <1>1, <1>2, <1>3, <1>4, <1>5, <1>6, <1>7, <1>8, <1>9, <1>10, <1>11
  DEF Next, Task, Host

(* Types hold, and a waiting task has tried to extract in vain. *)
THEOREM Invariance == Spec => []IInv
<1>1. Init => IInv
  <2>1. ASSUME Init PROVE TypeOK
    <3>1. /\ ring \in Seq(Byte) /\ unsent \in Seq(Byte) /\ buf \in Seq(Byte)
          /\ sent \in Seq(Seq(Byte)) /\ handled \in Seq(Results)
      BY <2>1, NoBytes, NoHistory DEF Init
    <3>2. Len(ring) <= RingBytes /\ Len(buf) <= BufSize
      BY <2>1, NoBytes, Params DEF Init
    <3>3. begun \in Nat /\ flaws \in Nat
      BY <2>1 DEF Init
    <3> QED
      BY <2>1, <3>1, <3>2, <3>3 DEF Init, TypeOK
  <2>2. Init => Tried
    BY DEF Init, Tried
  <2> QED
    BY <2>1, <2>2 DEF IInv
<1>2. IInv /\ [Next]_vars => IInv'
  <2> SUFFICES ASSUME IInv, [Next]_vars PROVE IInv'
    OBVIOUS
  <2>1. CASE Next
    BY <2>1, Step
  <2>2. CASE UNCHANGED vars
    <3>1. TypeOK'
      BY <2>2 DEF vars, IInv, TypeOK
    <3>2. Tried'
      BY <2>2 DEF vars, IInv, Tried, Malformed, Complete, HasLength, LengthOk, PacketLen
    <3> QED
      BY <3>1, <3>2 DEF IInv
  <2> QED
    BY <2>1, <2>2
<1> QED
  BY <1>1, <1>2, PTL DEF Spec

(* frame_buf, the receive ring and the answers keep their types for every  *)
(* length of them; above all, what try_extract_packet() moves to the front *)
(* and what a read appends never exceeds frame_buf.                        *)
THEOREM TypeCorrect == Spec => []TypeOK
<1>1. IInv => TypeOK
  BY DEF IInv
<1> QED
  BY <1>1, Invariance, PTL

(* The task never waits for bytes with frame_buf full: a packet that the   *)
(* length check of try_extract_packet() lets pass always fits.             *)
THEOREM RoomCorrect == Spec => []RoomToRead
<1>1. IInv => RoomToRead
  <2> SUFFICES ASSUME IInv, pc = "read" PROVE Len(buf) < BufSize
    BY DEF RoomToRead
  <2>1. ~Malformed(buf) /\ ~Complete(buf)
    BY DEF IInv, Tried
  <2>2. buf \in Seq(Byte) /\ Len(buf) \in Nat
    BY DEF IInv, TypeOK
  <2>3. CASE HasLength(buf)
    <3>1. PacketLen(buf) \in Nat
      BY <2>2, <2>3, PacketLenType
    <3>2. PacketLen(buf) \in MinPacket .. BufSize /\ ~(Len(buf) >= PacketLen(buf))
      BY <2>1, <2>3 DEF Malformed, Complete, LengthOk
    <3> QED
      BY <2>2, <3>1, <3>2, Params
  <2>4. CASE ~HasLength(buf)
    BY <2>2, <2>4, Params DEF HasLength
  <2> QED
    BY <2>3, <2>4
<1> QED
  BY <1>1, Invariance, PTL
-----------------------------------------------------------------------------
(* Sequences that have been put together, and taken apart. *)

(* A set of numbers that holds 0 and every successor of its elements holds *)
(* every number: induction, over a set instead of a predicate.             *)
LEMMA NatSet ==
  ASSUME NEW T, 0 \in T, \A n \in Nat : n \in T => n + 1 \in T
  PROVE  Nat \subseteq T
<1> DEFINE U == Nat \ T
<1> SUFFICES ASSUME U # {} PROVE FALSE
  OBVIOUS
<1>1. PICK m \in U : \A k \in U : <<k, m>> \notin OpToRel(<, Nat)
  BY WFMin, NatLessThanWellFounded, Zenon
<1>2. m \in Nat /\ m \notin T
  OBVIOUS
<1>3. m # 0
  BY <1>2
<1>4. m - 1 \in Nat /\ m - 1 < m /\ (m - 1) + 1 = m
  BY <1>2, <1>3
<1>5. m - 1 \notin T
  <2> SUFFICES ASSUME m - 1 \in T PROVE FALSE
    OBVIOUS
  <2>1. (m - 1) + 1 \in T
    BY <1>4
  <2> QED
    BY <2>1, <1>2, <1>4
<1>6. m - 1 \in U
  BY <1>4, <1>5
<1>7. <<m - 1, m>> \in OpToRel(<, Nat)
  BY <1>2, <1>4, Zenon DEF OpToRel
<1> QED
  BY <1>1, <1>6, <1>7

(* A sequence is what is before a place and what is behind it. *)
LEMMA SplitAt ==
  ASSUME NEW S, NEW s \in Seq(S), NEW n \in 0 .. Len(s)
  PROVE  /\ SubSeq(s, 1, n) \in Seq(S) /\ SubSeq(s, n + 1, Len(s)) \in Seq(S)
         /\ Len(SubSeq(s, 1, n)) = n
         /\ s = SubSeq(s, 1, n) \o SubSeq(s, n + 1, Len(s))
<1> DEFINE a == SubSeq(s, 1, n)
           b == SubSeq(s, n + 1, Len(s))
<1>0. Len(s) \in Nat /\ n \in Nat
  OBVIOUS
<1>1. /\ a \in Seq(S) /\ Len(a) = n
      /\ \A i \in 1 .. n : a[i] = s[i]
  <2>1. \A i \in 1 .. n : s[i] \in S
    BY <1>0, ElementOfSeq
  <2>2. /\ a \in Seq(S) /\ Len(a) = (IF 1 <= n THEN n - 1 + 1 ELSE 0)
        /\ \A i \in 1 .. n - 1 + 1 : a[i] = s[1 + i - 1]
    BY <1>0, <2>1, SubSeqProperties
  <2> HIDE DEF a
  <2> QED
    BY <1>0, <2>2
<1>2. /\ b \in Seq(S) /\ Len(b) = Len(s) - n
      /\ \A i \in 1 .. Len(s) - n : b[i] = s[n + i]
  <2>1. \A i \in n + 1 .. Len(s) : s[i] \in S
    BY <1>0, ElementOfSeq
  <2>2. /\ b \in Seq(S) /\ Len(b) = (IF n + 1 <= Len(s) THEN Len(s) - (n + 1) + 1 ELSE 0)
        /\ \A i \in 1 .. Len(s) - (n + 1) + 1 : b[i] = s[(n + 1) + i - 1]
    BY <1>0, <2>1, SubSeqProperties
  <2> HIDE DEF b
  <2> QED
    BY <1>0, <2>2
<1> HIDE DEF a, b
<1>3. /\ a \o b \in Seq(S) /\ Len(a \o b) = Len(s)
      /\ \A i \in 1 .. Len(s) : (a \o b)[i] = IF i <= n THEN a[i] ELSE b[i - n]
  BY <1>0, <1>1, <1>2, ConcatProperties
<1>4. ASSUME NEW i \in 1 .. Len(s) PROVE (a \o b)[i] = s[i]
  <2>1. CASE i <= n
    BY <1>0, <1>1, <1>3, <2>1
  <2>2. CASE ~(i <= n)
    <3>1. i - n \in 1 .. Len(s) - n /\ n + (i - n) = i
      BY <1>0, <2>2
    <3> QED
      BY <1>2, <1>3, <2>2, <3>1
  <2> QED
    BY <2>1, <2>2
<1>5. a \o b = s
  BY <1>3, <1>4, SeqEqual
<1> QED
  BY <1>1, <1>2, <1>5 DEF a, b

(* Two ways to cut one sequence: the shorter beginning is the beginning of *)
(* the longer.                                                             *)
LEMMA CutTwice ==
  ASSUME NEW S, NEW b \in Seq(S), NEW c \in Seq(S), NEW p \in Seq(S), NEW q \in Seq(S),
         b \o c = p \o q
  PROVE  /\ \A i \in 1 .. Len(b) : i <= Len(p) => b[i] = p[i]
         /\ Len(p) <= Len(b) => SubSeq(b, Len(p) + 1, Len(b)) \o c = q
<1>0. Len(b) \in Nat /\ Len(p) \in Nat /\ Len(c) \in Nat /\ Len(q) \in Nat
  OBVIOUS
<1>1. ASSUME NEW i \in 1 .. Len(b), i <= Len(p) PROVE b[i] = p[i]
  <2>1. (b \o c)[i] = b[i]
    <3>1. i \in 1 .. Len(b) + Len(c)
      BY <1>0
    <3> QED
      BY <3>1, ConcatProperties
  <2>2. (p \o q)[i] = p[i]
    <3>1. i \in 1 .. Len(p) + Len(q)
      BY <1>0, <1>1
    <3> QED
      BY <1>1, <3>1, ConcatProperties
  <2> QED
    BY <2>1, <2>2
<1>2. ASSUME Len(p) <= Len(b) PROVE SubSeq(b, Len(p) + 1, Len(b)) \o c = q
  <2> DEFINE n == Len(p)
             a == SubSeq(b, 1, n)
             r == SubSeq(b, n + 1, Len(b))
  <2>1. n \in 0 .. Len(b)
    BY <1>0, <1>2
  <2>2. a \in Seq(S) /\ r \in Seq(S) /\ Len(a) = n /\ b = a \o r
    BY <2>1, SplitAt
  <2>3. \A i \in 1 .. n : (a \o r)[i] = a[i]
    <3>1. Len(r) \in Nat
      BY <2>2
    <3>2. \A i \in 1 .. n + Len(r) : (a \o r)[i] = IF i <= n THEN a[i] ELSE r[i - n]
      <4> HIDE DEF a, r, n
      <4> QED
        BY <2>2, ConcatProperties
    <3>3. \A i \in 1 .. n : i \in 1 .. n + Len(r) /\ i <= n
      BY <1>0, <3>1
    <3> HIDE DEF a, r, n
    <3> QED
      BY <3>2, <3>3
  <2>4. \A i \in 1 .. n : a[i] = p[i]
    <3>1. \A i \in 1 .. n : b[i] = p[i]
      BY <1>0, <1>1, <1>2
    <3> HIDE DEF a, r
    <3> QED
      BY <2>2, <2>3, <3>1
  <2>5. a = p
    <3> HIDE DEF a, r
    <3> QED
      BY <2>2, <2>4, SeqEqual
  <2>6. p \o (r \o c) = p \o q /\ r \o c \in Seq(S)
    <3> HIDE DEF a, r
    <3>1. (p \o r) \o c = p \o (r \o c)
      BY <2>2, ConcatAssociative, SMTT(30)
    <3>2. r \o c \in Seq(S)
      BY <2>2, ConcatProperties
    <3>3. b = p \o r
      BY <2>2, <2>5
    <3> QED
      BY <3>1, <3>2, <3>3
  <2>7. r \o c = q
    <3> HIDE DEF a, r
    <3> QED
      BY <2>6, ConcatSimplifications
  <2> QED
    BY <2>7
<1> QED
  BY <1>1, <1>2
-----------------------------------------------------------------------------
(* Flat: what packets are when they follow each other. *)

Packets == Seq(Seq(Byte))

(* What f makes of the first n packets of s, for every n. *)
Sums(f, s) ==
  /\ f \in [0 .. Len(s) -> Seq(Byte)]
  /\ f[0] = <<>>
  /\ \A n \in 1 .. Len(s) : f[n] = f[n - 1] \o s[n]

(* There is such a function. *)
LEMMA SumsExist == ASSUME NEW s \in Packets PROVE \E f : Sums(f, s)
<1> DEFINE L == Len(s)
           Up(f, m) == /\ f \in [0 .. m -> Seq(Byte)]
                       /\ f[0] = <<>>
                       /\ \A n \in 1 .. m : f[n] = f[n - 1] \o s[n]
           Some(m) == \E f : Up(f, m)
           T == {m \in Nat : m <= L => Some(m)}
<1>0. L \in Nat /\ \A n \in 1 .. L : s[n] \in Seq(Byte)
  BY ElementOfSeq DEF Packets
<1>1. 0 \in T
  <2>1. Up([n \in 0 .. 0 |-> <<>>], 0)
    OBVIOUS
  <2> HIDE DEF Up
  <2> QED
    BY <2>1
<1>2. ASSUME NEW m \in Nat, m + 1 <= L, Some(m) PROVE Some(m + 1)
  <2>1. PICK f : Up(f, m)
    BY <1>2
  <2> DEFINE v == f[m] \o s[m + 1]
             g == [n \in 0 .. m + 1 |-> IF n = m + 1 THEN v ELSE f[n]]
  <2>2. v \in Seq(Byte)
    <3>1. f[m] \in Seq(Byte) /\ s[m + 1] \in Seq(Byte)
      BY <1>0, <1>2, <2>1
    <3> QED
      BY <3>1, ConcatProperties
  <2>3. g \in [0 .. m + 1 -> Seq(Byte)] /\ g[0] = <<>>
    <3> HIDE DEF v
    <3> QED
      BY <2>1, <2>2
  <2>4. ASSUME NEW n \in 1 .. m + 1 PROVE g[n] = g[n - 1] \o s[n]
    <3>1. n - 1 \in 0 .. m /\ (\A i \in 0 .. m : g[i] = f[i]) /\ g[m + 1] = v
      <4> HIDE DEF v
      <4> QED
        OBVIOUS
    <3> HIDE DEF g
    <3>2. CASE n = m + 1
      <4>1. n - 1 = m
        BY <3>2
      <4> QED
        BY <3>1, <3>2, <4>1
    <3>3. CASE n \in 1 .. m
      <4>1. f[n] = f[n - 1] \o s[n]
        BY <2>1, <3>3, Zenon
      <4>2. n \in 0 .. m
        BY <3>3
      <4> QED
        BY <3>1, <4>1, <4>2
    <3>4. n = m + 1 \/ n \in 1 .. m
      OBVIOUS
    <3> QED
      BY <3>2, <3>3, <3>4
  <2>5. Up(g, m + 1)
    <3> HIDE DEF g, v
    <3> QED
      BY <2>3, <2>4
  <2> HIDE DEF Up
  <2> QED
    BY <2>5
<1>3. Nat \subseteq T
  <2>1. ASSUME NEW m \in Nat, m \in T PROVE m + 1 \in T
    <3> HIDE DEF Some
    <3> QED
      BY <1>0, <1>2, <2>1
  <2> HIDE DEF T
  <2> QED
    BY <1>1, <2>1, NatSet
<1>4. PICK f : Up(f, L)
  <2> HIDE DEF Up
  <2> QED
    BY <1>0, <1>3
<1>5. Sums(f, s)
  BY <1>4 DEF Sums
<1> QED
  BY <1>5

(* Functions that agree on what they are of agree. *)
LEMMA SumsAgree ==
  ASSUME NEW s \in Packets, NEW t \in Packets, NEW f, NEW g, Sums(f, s), Sums(g, t),
         Len(s) <= Len(t), \A i \in 1 .. Len(s) : s[i] = t[i]
  PROVE  \A n \in 0 .. Len(s) : f[n] = g[n]
<1> DEFINE L == Len(s)
           T == {n \in Nat : n <= L => f[n] = g[n]}
<1>0. L \in Nat /\ Len(t) \in Nat
  BY DEF Packets
<1>1. 0 \in T
  BY DEF Sums
<1>2. ASSUME NEW n \in Nat, n \in T PROVE n + 1 \in T
  <2> SUFFICES ASSUME n + 1 <= L PROVE f[n + 1] = g[n + 1]
    OBVIOUS
  <2>1. f[n] = g[n]
    BY <1>0, <1>2
  <2>2. n + 1 \in 1 .. L /\ n + 1 \in 1 .. Len(t) /\ (n + 1) - 1 = n
    BY <1>0
  <2>3. f[n + 1] = f[n] \o s[n + 1] /\ g[n + 1] = g[n] \o t[n + 1]
    BY <2>2 DEF Sums
  <2>4. s[n + 1] = t[n + 1]
    BY <2>2
  <2> QED
    BY <2>1, <2>3, <2>4
<1>3. Nat \subseteq T
  <2> HIDE DEF T
  <2> QED
    BY <1>1, <1>2, NatSet
<1> QED
  BY <1>0, <1>3

(* Flat computes it. *)
LEMMA FlatIs == ASSUME NEW s \in Packets, NEW f, Sums(f, s) PROVE Flat(s) = f[Len(s)]
<1> DEFINE Is(g) == g = [n \in 0 .. Len(s) |-> IF n = 0 THEN <<>> ELSE g[n - 1] \o s[n]]
           c == CHOOSE g : Is(g)
<1>0. Len(s) \in Nat
  BY DEF Packets
<1>1. Is(f)
  <2>1. f = [n \in 0 .. Len(s) |-> f[n]]
    BY DEF Sums
  <2>2. ASSUME NEW n \in 0 .. Len(s)
        PROVE  f[n] = IF n = 0 THEN <<>> ELSE f[n - 1] \o s[n]
    <3>1. n = 0 \/ n \in 1 .. Len(s)
      BY <1>0
    <3> QED
      BY <3>1 DEF Sums
  <2> QED
    BY <2>1, <2>2
<1>2. Is(c)
  <2> HIDE DEF Is
  <2> QED
    BY <1>1
<1>3. Flat(s) = c[Len(s)]
  BY DEF Flat
<1> HIDE DEF c
<1> DEFINE T == {n \in Nat : n <= Len(s) => c[n] = f[n]}
<1>4. 0 \in T
  BY <1>0, <1>2 DEF Sums
<1>5. ASSUME NEW n \in Nat, n \in T PROVE n + 1 \in T
  <2> SUFFICES ASSUME n + 1 <= Len(s) PROVE c[n + 1] = f[n + 1]
    OBVIOUS
  <2>1. n + 1 \in 1 .. Len(s) /\ n + 1 # 0 /\ (n + 1) - 1 = n /\ n + 1 \in 0 .. Len(s)
    BY <1>0
  <2>2. c[n] = f[n]
    BY <1>0, <1>5
  <2>3. f[n + 1] = f[n] \o s[n + 1]
    BY <2>1 DEF Sums
  <2>4. c[n + 1] = c[n] \o s[n + 1]
    BY <1>2, <2>1
  <2> QED
    BY <2>2, <2>3, <2>4
<1>6. Nat \subseteq T
  <2> HIDE DEF T
  <2> QED
    BY <1>4, <1>5, NatSet
<1> QED
  BY <1>0, <1>3, <1>6

(* No packets are no bytes, and packets are bytes. *)
LEMMA FlatType ==
  /\ Flat(<<>>) = <<>>
  /\ \A s \in Packets : Flat(s) \in Seq(Byte)
<1>1. ASSUME NEW s \in Packets PROVE Flat(s) \in Seq(Byte) /\ (s = <<>> => Flat(s) = <<>>)
  <2>1. PICK f : Sums(f, s)
    BY SumsExist
  <2>2. Flat(s) = f[Len(s)] /\ Len(s) \in Nat
    BY <2>1, FlatIs DEF Packets
  <2>3. s = <<>> => Len(s) = 0
    OBVIOUS
  <2> QED
    BY <2>1, <2>2, <2>3 DEF Sums
<1>2. <<>> \in Packets
  BY DEF Packets
<1> QED
  BY <1>1, <1>2

(* One packet more. *)
LEMMA FlatAppend ==
  ASSUME NEW s \in Packets, NEW p \in Seq(Byte)
  PROVE  Flat(Append(s, p)) = Flat(s) \o p
<1> DEFINE t == Append(s, p)
           L == Len(s)
<1>1. /\ t \in Packets /\ Len(t) = L + 1 /\ L \in Nat
      /\ \A i \in 1 .. L : s[i] = t[i]
      /\ t[L + 1] = p
  BY AppendProperties DEF Packets
<1> HIDE DEF t
<1>2. PICK f : Sums(f, s)
  BY SumsExist
<1>3. PICK g : Sums(g, t)
  BY <1>1, SumsExist
<1>4. f[L] = g[L]
  BY <1>1, <1>2, <1>3, SumsAgree
<1>5. g[L + 1] = g[L] \o t[L + 1]
  <2>1. L + 1 \in 1 .. Len(t) /\ (L + 1) - 1 = L
    BY <1>1
  <2> QED
    BY <1>3, <2>1 DEF Sums
<1>6. Flat(s) = f[L] /\ Flat(t) = g[L + 1]
  BY <1>1, <1>2, <1>3, FlatIs
<1> QED
  BY <1>1, <1>4, <1>5, <1>6 DEF t

(* The first packet comes first. *)
LEMMA FlatFirst ==
  ASSUME NEW s \in Packets, s # <<>>
  PROVE  /\ Tail(s) \in Packets /\ s[1] \in Seq(Byte)
         /\ Flat(s) = s[1] \o Flat(Tail(s))
<1> DEFINE t == Tail(s)
           p == s[1]
           L == Len(t)
<1>1. /\ t \in Packets /\ Len(s) = L + 1 /\ L \in Nat
      /\ \A i \in 1 .. L : t[i] = s[i + 1]
      /\ p \in Seq(Byte)
  <2>1. Len(s) \in Nat /\ Len(s) # 0
    BY EmptySeq DEF Packets
  <2>2. /\ t \in Packets /\ Len(t) = Len(s) - 1
        /\ \A i \in 1 .. Len(t) : t[i] = s[i + 1]
    BY HeadTailProperties DEF Packets
  <2>3. p \in Seq(Byte)
    <3>1. 1 \in 1 .. Len(s)
      BY <2>1
    <3> QED
      BY <3>1, ElementOfSeq DEF Packets
  <2> HIDE DEF t
  <2> QED
    BY <2>1, <2>2, <2>3
<1> HIDE DEF t
<1>2. PICK f : Sums(f, s)
  BY SumsExist
<1>3. PICK g : Sums(g, t)
  BY <1>1, SumsExist
<1> DEFINE Ahead(n) == f[n + 1] = p \o g[n]
           T == {n \in Nat : n <= L => Ahead(n)}
<1>4. Ahead(0)
  <2>1. 1 \in 1 .. Len(s) /\ 1 - 1 = 0
    BY <1>1
  <2>2. f[1] = <<>> \o s[1] /\ g[0] = <<>>
    BY <1>2, <1>3, <2>1 DEF Sums
  <2>3. <<>> \o p = p /\ p \o <<>> = p /\ 0 + 1 = 1
    BY <1>1, ConcatEmptySeq
  <2> QED
    BY <2>2, <2>3
<1>5. ASSUME NEW n \in Nat, n + 1 <= L, Ahead(n) PROVE Ahead(n + 1)
  <2>1. /\ n + 1 \in 1 .. L /\ (n + 1) + 1 \in 1 .. Len(s) /\ n \in 0 .. L
        /\ (n + 1) - 1 = n /\ ((n + 1) + 1) - 1 = n + 1
    BY <1>1, <1>5
  <2>2. f[n + 1] = p \o g[n]
    BY <1>5
  <2>3. f[(n + 1) + 1] = f[n + 1] \o s[(n + 1) + 1]
    BY <1>2, <2>1 DEF Sums
  <2>4. g[n + 1] = g[n] \o t[n + 1] /\ g[n] \in Seq(Byte)
    BY <1>3, <2>1 DEF Sums
  <2>5. t[n + 1] = s[(n + 1) + 1] /\ t[n + 1] \in Seq(Byte)
    BY <1>1, <2>1, ElementOfSeq DEF Packets
  <2>6. (p \o g[n]) \o t[n + 1] = p \o (g[n] \o t[n + 1])
    <3>1. \A a, b, c \in Seq(Byte) : (a \o b) \o c = a \o (b \o c)
      BY ConcatAssociative
    <3>2. p \in Seq(Byte) /\ g[n] \in Seq(Byte) /\ t[n + 1] \in Seq(Byte)
      BY <1>1, <2>4, <2>5
    <3> HIDE DEF p
    <3> QED
      BY <3>1, <3>2, Zenon
  <2> QED
    BY <2>2, <2>3, <2>4, <2>5, <2>6
<1>6. Nat \subseteq T
  <2>0. L \in Nat
    BY <1>1
  <2> HIDE DEF Ahead, L
  <2>1. 0 \in T
    BY <1>4
  <2>2. ASSUME NEW n \in Nat, n \in T PROVE n + 1 \in T
    BY <1>5, <2>0, <2>2
  <2> HIDE DEF T
  <2> QED
    BY <2>1, <2>2, NatSet
<1>7. f[L + 1] = p \o g[L]
  <2>1. L \in Nat /\ L <= L
    BY <1>1
  <2>2. L \in T
    <3> HIDE DEF T
    <3> QED
      BY <1>6, <2>1
  <2> QED
    BY <2>1, <2>2
<1>8. Flat(s) = f[L + 1] /\ Flat(t) = g[L]
  BY <1>1, <1>2, <1>3, FlatIs
<1> QED
  BY <1>1, <1>7, <1>8 DEF t
-----------------------------------------------------------------------------
(* In step with the host. *)

(* The packet at the head of what has come and is to come. *)
LEMMA HeadPacket ==
  ASSUME NEW b \in Seq(Byte), NEW c \in Seq(Byte), NEW u \in Packets, b \o c = Flat(u),
         \A i \in 1 .. Len(u) : WellFormed(u[i])
  PROVE  /\ Malformed(b) \/ Complete(b) => /\ u # <<>>
                                           /\ Result(b) = Result(u[1])
                                           /\ Rest(b) \o c = Flat(Tail(u))
         /\ ~(Malformed(b) \/ Complete(b)) /\ c = <<>> => u = <<>> /\ b = <<>>
<1>0. Len(b) \in Nat
  OBVIOUS
<1>1. CASE u = <<>>
  <2>1. b \o c = <<>>
    BY <1>1, FlatType
  <2>2. b = <<>>
    BY <2>1, ConcatSimplifications
  <2>3. ~HasLength(b)
    BY <2>2 DEF HasLength
  <2> QED
    BY <1>1, <2>2, <2>3 DEF Malformed, Complete
<1>2. CASE u # <<>>
  <2> DEFINE p == u[1]
             q == Flat(Tail(u))
  <2>1. p \in Seq(Byte) /\ q \in Seq(Byte) /\ b \o c = p \o q
    <3>1. Tail(u) \in Packets /\ p \in Seq(Byte) /\ Flat(u) = p \o q
      BY <1>2, FlatFirst
    <3>2. q \in Seq(Byte)
      BY <3>1, FlatType
    <3> QED
      BY <3>1, <3>2
  <2>2. WellFormed(p)
    <3>1. Len(u) \in Nat /\ Len(u) # 0
      BY <1>2, EmptySeq DEF Packets
    <3> QED
      BY <3>1
  <2> HIDE DEF p, q
  <2>3. Len(p) = PacketLen(p) /\ Len(p) \in Nat /\ Len(p) >= 6 /\ LengthOk(p)
    <3>1. Len(p) = PacketLen(p) /\ LengthOk(p)
      BY <2>2 DEF WellFormed
    <3>2. PacketLen(p) \in MinPacket .. BufSize
      BY <3>1 DEF LengthOk
    <3> QED
      BY <2>1, <3>1, <3>2, Params
  <2>4. /\ \A i \in 1 .. Len(b) : i <= Len(p) => b[i] = p[i]
        /\ Len(p) <= Len(b) => SubSeq(b, Len(p) + 1, Len(b)) \o c = q
    BY <2>1, CutTwice
  <2>5. ASSUME HasLength(b)
        PROVE  PacketLen(b) = Len(p) /\ ~Malformed(b) /\ (Complete(b) <=> Len(b) >= Len(p))
    <3>1. b[1] = p[1] /\ b[2] = p[2]
      <4>1. 1 \in 1 .. Len(b) /\ 2 \in 1 .. Len(b) /\ 1 <= Len(p) /\ 2 <= Len(p)
        BY <1>0, <2>3, <2>5 DEF HasLength
      <4> QED
        BY <2>4, <4>1
    <3>2. PacketLen(b) = PacketLen(p)
      BY <3>1 DEF PacketLen
    <3>3. LengthOk(b)
      BY <2>3, <3>2 DEF LengthOk
    <3>4. PacketLen(b) = Len(p)
      BY <2>3, <3>2
    <3> QED
      BY <2>5, <3>3, <3>4 DEF Malformed, Complete
  <2>6. ASSUME Malformed(b) \/ Complete(b)
        PROVE  Result(b) = Result(p) /\ Rest(b) \o c = q
    <3>1. HasLength(b)
      BY <2>6 DEF Malformed, Complete
    <3>2. Len(b) >= Len(p) /\ ~Malformed(b) /\ PacketLen(b) = Len(p)
      BY <2>5, <2>6, <3>1
    <3>3. Rest(b) \o c = q
      <4>1. Rest(b) = SubSeq(b, Len(p) + 1, Len(b))
        BY <3>2 DEF Rest
      <4> QED
        BY <1>0, <2>3, <2>4, <3>2, <4>1
    <3>4. IdOf(b) = IdOf(p)
      <4>1. 3 \in 1 .. Len(b) /\ 3 <= Len(p)
        BY <1>0, <2>3, <3>2
      <4>2. b[3] = p[3]
        BY <2>4, <4>1
      <4> QED
        BY <4>1, <4>2, <2>3 DEF IdOf
    <3>5. SubSeq(b, 5, Len(p)) = SubSeq(p, 5, Len(p))
      <4> DEFINE n == Len(p)
                 x == SubSeq(b, 5, n)
                 y == SubSeq(p, 5, n)
      <4>1. n \in Nat /\ n >= 6 /\ n <= Len(b)
        BY <1>0, <2>3, <3>2
      <4>2. \A i \in 5 .. n : b[i] = p[i] /\ b[i] \in Byte /\ p[i] \in Byte
        <5> SUFFICES ASSUME NEW i \in 5 .. n
                     PROVE  b[i] = p[i] /\ b[i] \in Byte /\ p[i] \in Byte
          OBVIOUS
        <5>1. i \in 1 .. Len(b) /\ i \in 1 .. n /\ i <= n
          BY <1>0, <4>1
        <5> QED
          BY <2>1, <2>4, <5>1, ElementOfSeq
      <4>3. /\ x \in Seq(Byte) /\ Len(x) = (IF 5 <= n THEN n - 5 + 1 ELSE 0)
            /\ \A i \in 1 .. n - 5 + 1 : x[i] = b[5 + i - 1]
        <5> HIDE DEF n
        <5> QED
          BY <4>1, <4>2, SubSeqProperties
      <4>4. /\ y \in Seq(Byte) /\ Len(y) = (IF 5 <= n THEN n - 5 + 1 ELSE 0)
            /\ \A i \in 1 .. n - 5 + 1 : y[i] = p[5 + i - 1]
        <5> HIDE DEF n
        <5> QED
          BY <4>1, <4>2, SubSeqProperties
      <4> HIDE DEF x, y, n
      <4>5. ASSUME NEW i \in 1 .. n - 5 + 1 PROVE x[i] = y[i]
        <5>1. 5 + i - 1 \in 5 .. n
          BY <4>1
        <5> QED
          BY <4>2, <4>3, <4>4, <5>1
      <4>6. x = y
        BY <4>1, <4>3, <4>4, <4>5, SeqEqual
      <4> QED
        BY <4>6 DEF x, y, n
    <3>6. Kind(b) = Kind(p)
      BY <2>3, <3>2, <3>5 DEF Kind
    <3>7. ~Malformed(p)
      BY <2>3 DEF Malformed
    <3> QED
      BY <3>2, <3>3, <3>4, <3>6, <3>7 DEF Result
  <2>7. ASSUME ~(Malformed(b) \/ Complete(b)), c = <<>> PROVE FALSE
    <3>1. b = p \o q
      BY <2>1, <2>7, ConcatEmptySeq
    <3>2. Len(b) >= Len(p)
      <4>1. Len(b) = Len(p) + Len(q) /\ Len(q) \in Nat
        BY <2>1, <3>1, ConcatProperties
      <4> QED
        BY <2>3, <4>1
    <3>3. HasLength(b)
      BY <1>0, <2>3, <3>2 DEF HasLength
    <3> QED
      BY <2>5, <2>7, <3>2, <3>3
  <2> QED
    BY <1>2, <2>6, <2>7 DEF p, q
<1> QED
  BY <1>1, <1>2

(* What InStep rests on besides: a host that hesitates has spoilt the      *)
(* step, and all packets since the last silence are good ones.             *)
Sound ==
  /\ stalled => ~clean /\ unsent # <<>>
  /\ ~clean => sent = <<>> /\ handled = <<>>
  /\ \A i \in 1 .. Len(sent) : WellFormed(sent[i])

(* The packets that have not been handled. *)
Unhandled == SubSeq(sent, Len(handled) + 1, Len(sent))

(* They are packets, and good ones. *)
LEMMA UnhandledType ==
  ASSUME TypeOK, Sound, Len(handled) <= Len(sent)
  PROVE  /\ Unhandled \in Packets
         /\ \A i \in 1 .. Len(Unhandled) : WellFormed(Unhandled[i])
         /\ Unhandled # <<>> =>
              /\ Len(handled) + 1 <= Len(sent)
              /\ Unhandled[1] = sent[Len(handled) + 1]
              /\ Tail(Unhandled) = SubSeq(sent, Len(handled) + 2, Len(sent))
<1> DEFINE n == Len(handled)
           L == Len(sent)
           u == SubSeq(sent, n + 1, L)
<1>1. n \in Nat /\ L \in Nat /\ n <= L /\ sent \in Packets /\ sent \in Seq(Seq(Byte))
  BY DEF TypeOK, Packets
<1>2. \A i \in n + 1 .. L : sent[i] \in Seq(Byte) /\ WellFormed(sent[i])
  <2> SUFFICES ASSUME NEW i \in n + 1 .. L PROVE sent[i] \in Seq(Byte) /\ WellFormed(sent[i])
    OBVIOUS
  <2>1. i \in 1 .. L
    BY <1>1
  <2> QED
    BY <1>1, <2>1, ElementOfSeq DEF Sound
<1> HIDE DEF n, L
<1>3. /\ u \in Packets /\ Len(u) = (IF n + 1 <= L THEN L - (n + 1) + 1 ELSE 0)
      /\ \A i \in 1 .. L - (n + 1) + 1 : u[i] = sent[(n + 1) + i - 1]
  BY <1>1, <1>2, SubSeqProperties DEF Packets
<1>4. ASSUME NEW i \in 1 .. Len(u) PROVE WellFormed(u[i])
  <2>1. i \in 1 .. L - (n + 1) + 1 /\ (n + 1) + i - 1 \in n + 1 .. L
    BY <1>1, <1>3
  <2>2. u[i] = sent[(n + 1) + i - 1]
    BY <1>3, <2>1
  <2> HIDE DEF u
  <2> QED
    BY <1>2, <2>1, <2>2
<1>5. ASSUME u # <<>>
      PROVE  /\ n + 1 <= L /\ u[1] = sent[n + 1]
             /\ Tail(u) = SubSeq(sent, n + 2, L)
  <2>1. n + 1 <= L
    <3> SUFFICES ASSUME ~(n + 1 <= L) PROVE FALSE
      OBVIOUS
    <3>1. n + 1 > L
      BY <1>1
    <3> QED
      BY <1>1, <1>5, <3>1, SubSeqEmpty
  <2>2. n + 1 \in 1 .. L /\ L \in n + 1 .. L /\ (n + 1) + 1 = n + 2
    BY <1>1, <2>1
  <2>3. Tail(u) = SubSeq(sent, (n + 1) + 1, L)
    BY <1>1, <2>2, HeadTailOfSubSeq DEF L
  <2>4. u[1] = sent[n + 1]
    <3>1. 1 \in 1 .. L - (n + 1) + 1 /\ (n + 1) + 1 - 1 = n + 1
      BY <1>1, <2>1
    <3> QED
      BY <1>3, <3>1
  <2> QED
    BY <2>1, <2>2, <2>3, <2>4
<1> QED
  BY <1>3, <1>4, <1>5 DEF Unhandled, n, L

(* The answers so far are those that the packets ask for. *)
Matched ==
  /\ Len(handled) <= Len(sent)
  /\ \A i \in 1 .. Len(handled) : handled[i] = Result(sent[i])

(* InStep, by its parts. *)
LEMMA InStepIs ==
  /\ InStep <=> (clean => Matched /\ (buf \o ring) \o unsent = Flat(Unhandled))
  /\ InStep' <=> (clean' => Matched' /\ (buf' \o ring') \o unsent' = Flat(Unhandled'))
  BY Zenon DEF InStep, Matched, Unhandled

(* Concatenation of bytes is associative. *)
LEMMA Regroup == \A a, b, c \in Seq(Byte) : (a \o b) \o c = a \o (b \o c)
  BY ConcatAssociative

(* What is extracted from the head of the stream is the answer to the next *)
(* packet, and what stays is the stream behind it.                         *)
LEMMA Extracted ==
  ASSUME TypeOK, Sound, clean, Matched, NEW b \in Seq(Byte), NEW c \in Seq(Byte),
         b \o c = Flat(Unhandled), NEW next, TryExtract(b, next), sent' = sent
  PROVE  Matched' /\ buf' \o c = Flat(Unhandled')
<1> DEFINE n == Len(handled)
<1>0. Len(handled) <= Len(sent) /\ n \in Nat /\ Len(sent) \in Nat
  BY DEF Matched, TypeOK
<1>1. /\ Unhandled \in Packets
      /\ \A i \in 1 .. Len(Unhandled) : WellFormed(Unhandled[i])
      /\ Unhandled # <<>> =>
           /\ n + 1 <= Len(sent)
           /\ Unhandled[1] = sent[n + 1]
           /\ Tail(Unhandled) = SubSeq(sent, n + 2, Len(sent))
  BY <1>0, UnhandledType
<1>2. CASE Malformed(b) \/ Complete(b)
  <2>1. Unhandled # <<>> /\ Result(b) = Result(Unhandled[1]) /\ Rest(b) \o c = Flat(Tail(Unhandled))
    BY <1>1, <1>2, HeadPacket
  <2>2. buf' = Rest(b) /\ handled' = Append(handled, Result(b))
    BY <1>2 DEF TryExtract, Handle
  <2>3. /\ Len(handled') = n + 1
        /\ \A i \in 1 .. n : handled'[i] = handled[i]
        /\ handled'[n + 1] = Result(b)
    <3>1. handled \in Seq(Results) /\ Result(b) \in Results
      BY ResultType DEF TypeOK
    <3> QED
      BY <2>2, <3>1, AppendProperties
  <2>4. Matched'
    <3>1. Len(handled') <= Len(sent')
      BY <1>1, <2>1, <2>3
    <3>2. ASSUME NEW i \in 1 .. Len(handled') PROVE handled'[i] = Result(sent'[i])
      <4>1. CASE i \in 1 .. n
        BY <2>3, <4>1 DEF Matched
      <4>2. CASE i = n + 1
        BY <1>1, <2>1, <2>3, <4>2
      <4>3. i \in 1 .. n \/ i = n + 1
        BY <1>0, <2>3
      <4> QED
        BY <4>1, <4>2, <4>3
    <3>3. (\A i \in 1 .. Len(handled) : handled[i] = Result(sent[i]))'
      BY <3>2 DEF Result, Malformed, HasLength, LengthOk, Kind, PacketLen, IdOf
    <3> QED
      BY <3>1, <3>3 DEF Matched
  <2>5. Unhandled' = Tail(Unhandled)
    <3>1. Unhandled' = SubSeq(sent', Len(handled') + 1, Len(sent'))
      BY DEF Unhandled
    <3>2. Len(handled') + 1 = n + 2
      BY <1>0, <2>3
    <3> QED
      BY <1>1, <2>1, <3>1, <3>2
  <2> QED
    BY <2>1, <2>2, <2>4, <2>5
<1>3. CASE ~(Malformed(b) \/ Complete(b))
  <2>1. buf' = b /\ handled' = handled
    BY <1>3 DEF TryExtract
  <2>2. Unhandled' = Unhandled
    BY <2>1 DEF Unhandled
  <2>3. Matched'
    BY <2>1 DEF Matched
  <2> QED
    BY <2>1, <2>2, <2>3
<1> QED
  BY <1>2, <1>3

(* What is behind the first of two sequences is the second.                *)
LEMMA BehindConcat ==
  ASSUME NEW S, NEW a \in Seq(S), NEW d \in Seq(S)
  PROVE  SubSeq(a \o d, Len(a) + 1, Len(a \o d)) = d
<1> DEFINE s == a \o d
<1>1. s \in Seq(S) /\ Len(a) <= Len(s)
  <2>1. Len(a) \in Nat /\ Len(d) \in Nat
    OBVIOUS
  <2> QED
    BY <2>1, ConcatProperties
<1>2. s \o <<>> = a \o d /\ <<>> \in Seq(S)
  BY <1>1, ConcatEmptySeq
<1> HIDE DEF s
<1>3. SubSeq(s, Len(a) + 1, Len(s)) \o <<>> = d
  BY <1>1, <1>2, CutTwice
<1>4. SubSeq(s, Len(a) + 1, Len(s)) \in Seq(S)
  <2>1. Len(a) \in Nat
    OBVIOUS
  <2> QED
    BY <1>1, <2>1, Behind
<1> QED
  BY <1>3, <1>4, ConcatEmptySeq DEF s

(* A sequence is its head and its tail.                                    *)
LEMMA HeadTail ==
  ASSUME NEW S, NEW s \in Seq(S), s # <<>>
  PROVE  s = <<Head(s)>> \o Tail(s)
<1>1. Len(s) \in Nat /\ 1 \in 1 .. Len(s) /\ Len(s) \in 1 .. Len(s) /\ 1 + 1 = 2
  BY EmptySeq
<1>2. SubSeq(s, 1, Len(s)) = <<s[1]>> \o SubSeq(s, 1 + 1, Len(s))
  BY <1>1, SubSeqRecursiveFirst
<1> QED
  BY <1>1, <1>2, SubSeqFull, TailIsSubSeq, HeadTailProperties

(* Behind a place, one element more at the end is one element more.        *)
LEMMA MoreBehind ==
  ASSUME NEW S, NEW s \in Seq(S), NEW e \in S, NEW n \in 0 .. Len(s)
  PROVE  SubSeq(Append(s, e), n + 1, Len(s) + 1) = Append(SubSeq(s, n + 1, Len(s)), e)
<1> DEFINE t == Append(s, e)
           a == SubSeq(s, 1, n)
           b == SubSeq(s, n + 1, Len(s))
<1>1. /\ t \in Seq(S) /\ Len(t) = Len(s) + 1 /\ Len(s) \in Nat /\ n \in Nat
      /\ t = s \o <<e>> /\ <<e>> \in Seq(S)
  BY AppendProperties, AppendIsConcat
<1>2. a \in Seq(S) /\ b \in Seq(S) /\ Len(a) = n /\ s = a \o b
  BY SplitAt
<1> HIDE DEF a, b, t
<1>3. b \o <<e>> \in Seq(S) /\ t = a \o (b \o <<e>>)
  <2>1. b \o <<e>> \in Seq(S)
    BY <1>1, <1>2, ConcatProperties
  <2>2. t = (a \o b) \o <<e>>
    BY <1>1, <1>2
  <2>3. (a \o b) \o <<e>> = a \o (b \o <<e>>)
    <3>1. \A x, y, z \in Seq(S) : (x \o y) \o z = x \o (y \o z)
      BY ConcatAssociative, SMTT(30)
    <3> QED
      BY <1>1, <1>2, <3>1
  <2> QED
    BY <2>1, <2>2, <2>3
<1>4. SubSeq(t, n + 1, Len(t)) = b \o <<e>>
  <2>1. SubSeq(a \o (b \o <<e>>), Len(a) + 1, Len(a \o (b \o <<e>>))) = b \o <<e>>
    <3> DEFINE d == b \o <<e>>
    <3> HIDE DEF d
    <3>1. d \in Seq(S)
      BY <1>3 DEF d
    <3>2. SubSeq(a \o d, Len(a) + 1, Len(a \o d)) = d
      BY <1>2, <3>1, BehindConcat
    <3> QED
      BY <3>2 DEF d
  <2> QED
    BY <1>1, <1>2, <1>3, <2>1
<1>5. b \o <<e>> = Append(b, e)
  BY <1>2, AppendIsConcat
<1> QED
  BY <1>1, <1>4, <1>5 DEF t, b

(* Every step keeps the invariant of the history. *)
LEMMA SoundStep ==
  ASSUME TypeOK, Sound, Next
  PROVE  Sound'
<1> USE DEF Sound
<1> DEFINE Good == \A i \in 1 .. Len(sent) : WellFormed(sent[i])
<1>0. ASSUME sent' = sent \/ sent' = <<>>
      PROVE  Good'
  <2>1. CASE sent' = sent
    BY <2>1 DEF WellFormed, HasLength, LengthOk, PacketLen
  <2>2. CASE sent' = <<>>
    BY <2>2
  <2> QED
    BY <1>0, <2>1, <2>2
<1> HIDE DEF Good
<1> SUFFICES Good' /\ (stalled' => ~clean' /\ unsent' # <<>>)
                   /\ (~clean' => sent' = <<>> /\ handled' = <<>>)
  BY DEF Good
<1>1. CASE Extract
  BY <1>0, <1>1 DEF Extract, TryExtract, Handle
<1>2. CASE Read
  BY <1>0, <1>2 DEF Read, TryExtract, Handle
<1>3. CASE ReadError
  BY <1>0, <1>3 DEF ReadError
<1>4. CASE Timeout
  BY <1>0, <1>4 DEF Timeout, TimesOut, Handle
<1>5. CASE Answer
  BY <1>0, <1>5 DEF Answer
<1>6. ASSUME NEW p \in HostPackets, Begin(p)
      PROVE  Good' /\ (stalled' => ~clean' /\ unsent' # <<>>)
                   /\ (~clean' => sent' = <<>> /\ handled' = <<>>)
  <2>1. ~stalled'
    BY <1>6 DEF Begin
  <2>2. CASE clean /\ WellFormed(p)
    <3>1. sent' = Append(sent, p) /\ clean'
      BY <1>6, <2>2 DEF Begin
    <3>2. /\ Len(sent') = Len(sent) + 1 /\ Len(sent) \in Nat
          /\ \A i \in 1 .. Len(sent) : sent'[i] = sent[i]
          /\ sent'[Len(sent) + 1] = p
      <4>1. sent \in Seq(Seq(Byte)) /\ p \in Seq(Byte)
        BY Params DEF TypeOK
      <4> QED
        BY <3>1, <4>1, AppendProperties
    <3>3. ASSUME NEW i \in 1 .. Len(sent') PROVE WellFormed(sent'[i])
      <4>1. i \in 1 .. Len(sent) \/ i = Len(sent) + 1
        BY <3>2
      <4> QED
        BY <2>2, <3>2, <4>1
    <3>4. Good'
      BY <3>3 DEF Good, WellFormed, HasLength, LengthOk, PacketLen
    <3> QED
      BY <2>1, <3>1, <3>4
  <2>3. CASE ~(clean /\ WellFormed(p))
    BY <1>0, <1>6, <2>1, <2>3 DEF Begin, Damage
  <2> QED
    BY <2>2, <2>3
<1>7. CASE Send
  BY <1>0, <1>7 DEF Send, Damage
<1>8. CASE Lose
  BY <1>0, <1>8 DEF Lose, Flaw, Damage
<1>9. CASE HostStalls
  BY <1>0, <1>9 DEF HostStalls, Flaw, Damage
<1>10. CASE HostResumes
  BY <1>0, <1>10 DEF HostResumes
<1>11. CASE BreakOff
  BY <1>0, <1>11 DEF BreakOff, Flaw, Damage
<1> QED
  BY <1>1, <1>2, <1>3, <1>4, <1>5, <1>6, <1>7, <1>8, <1>9, <1>10, <1>11
  DEF Next, Task, Host

(* A step that touches neither the stream nor the histories. *)
LEMMA SameStep ==
  ASSUME InStep, UNCHANGED <<unsent, ring, buf, clean, sent, handled>>
  PROVE  InStep'
<1>1. clean' => Matched /\ (buf \o ring) \o unsent = Flat(Unhandled)
  BY InStepIs
<1>2. Matched => Matched'
  BY DEF Matched
<1>3. Unhandled' = Unhandled
  BY DEF Unhandled
<1>4. (buf' \o ring') \o unsent' = (buf \o ring) \o unsent
  OBVIOUS
<1> QED
  BY <1>1, <1>2, <1>3, <1>4, InStepIs

(* Every step of task and host keeps them in step. *)
LEMMA InStepStep ==
  ASSUME IInv, Sound, InStep, Next
  PROVE  InStep'
<1> DEFINE Whole == (buf \o ring) \o unsent
<1>0. /\ TypeOK /\ buf \in Seq(Byte) /\ ring \in Seq(Byte) /\ unsent \in Seq(Byte)
      /\ clean => Matched /\ Whole = Flat(Unhandled)
  BY InStepIs DEF IInv, TypeOK
<1>a. ASSUME ~clean' PROVE InStep'
  BY <1>a, InStepIs
<1>b. ASSUME UNCHANGED <<unsent, ring, buf, clean, sent, handled>> PROVE InStep'
  BY <1>b, SameStep
<1>c. ASSUME Damage PROVE InStep'
  BY <1>a, <1>c DEF Damage
<1>1. CASE Extract
  <2> SUFFICES ASSUME clean PROVE InStep'
    BY <1>1, <1>a DEF Extract
  <2>1. TryExtract(buf, "read") /\ UNCHANGED <<unsent, ring, clean, sent>>
    BY <1>1 DEF Extract
  <2>2. ring \o unsent \in Seq(Byte) /\ buf \o (ring \o unsent) = Flat(Unhandled)
    BY <1>0, Regroup, ConcatProperties
  <2>3. Matched' /\ buf' \o (ring \o unsent) = Flat(Unhandled')
    BY <1>0, <2>1, <2>2, Extracted
  <2>4. buf' \in Seq(Byte)
    BY Step DEF IInv, TypeOK
  <2>5. (buf' \o ring') \o unsent' = Flat(Unhandled')
    BY <1>0, <2>1, <2>3, <2>4, Regroup
  <2> QED
    BY <2>3, <2>5, InStepIs
<1>2. CASE Read
  <2> SUFFICES ASSUME clean PROVE InStep'
    BY <1>2, <1>a DEF Read
  <2>1. PICK n \in 1 .. Len(ring) :
          /\ TryExtract(buf \o SubSeq(ring, 1, n), "loop")
          /\ ring' = SubSeq(ring, n + 1, Len(ring))
    BY <1>2 DEF Read
  <2>2. UNCHANGED <<unsent, clean, sent>>
    BY <1>2 DEF Read
  <2> DEFINE x == SubSeq(ring, 1, n)
  <2>3. x \in Seq(Byte) /\ ring' \in Seq(Byte) /\ ring = x \o ring'
    <3>1. n \in 0 .. Len(ring)
      OBVIOUS
    <3> QED
      BY <1>0, <2>1, <3>1, SplitAt
  <2>4. TryExtract(buf \o x, "loop")
    BY <2>1
  <2> HIDE DEF x
  <2>5. buf \o x \in Seq(Byte) /\ ring' \o unsent \in Seq(Byte)
    BY <1>0, <2>3, ConcatProperties
  <2>6. (buf \o x) \o (ring' \o unsent) = Flat(Unhandled)
    <3>1. (buf \o x) \o (ring' \o unsent) = ((buf \o x) \o ring') \o unsent
      <4> DEFINE y == buf \o x
      <4> HIDE DEF y
      <4>1. y \in Seq(Byte)
        BY <2>5 DEF y
      <4>2. y \o (ring' \o unsent) = (y \o ring') \o unsent
        BY <1>0, <2>3, <4>1, Regroup, ZenonT(60)
      <4> QED
        BY <4>2 DEF y
    <3>2. (buf \o x) \o ring' = buf \o ring
      BY <1>0, <2>3, Regroup, SMTT(30)
    <3> QED
      BY <1>0, <3>1, <3>2
  <2>7. Matched' /\ buf' \o (ring' \o unsent) = Flat(Unhandled')
    BY <1>0, <2>2, <2>4, <2>5, <2>6, Extracted
  <2>8. buf' \in Seq(Byte)
    BY Step DEF IInv, TypeOK
  <2>9. (buf' \o ring') \o unsent' = Flat(Unhandled')
    BY <1>0, <2>2, <2>3, <2>7, <2>8, Regroup, ZenonT(60)
  <2> QED
    BY <2>7, <2>9, InStepIs
<1>3. CASE ReadError
  BY <1>3, <1>b DEF ReadError
<1>4. CASE Timeout
  <2> SUFFICES ASSUME clean' PROVE InStep'
    BY <1>a
  <2>1. /\ pc = "read" /\ Silent /\ ring = <<>> /\ buf' = <<>> /\ ring' = ring
        /\ sent' = sent /\ unsent' = unsent /\ clean' = (clean \/ unsent = <<>>)
    BY <1>4 DEF Timeout, TimesOut
  <2>2. unsent = <<>>
    BY <2>1 DEF Silent, Sound
  <2>3. buf' \o ring' = <<>> /\ (buf' \o ring') \o unsent' = <<>>
    BY <2>1, <2>2
  <2>4. CASE clean
    <3>1. Whole = buf
      BY <1>0, <2>1, <2>2, ConcatEmptySeq
    <3>2. Unhandled = <<>> /\ buf = <<>>
      <4>1. <<>> \in Seq(Byte) /\ buf \o <<>> = Flat(Unhandled)
        BY <1>0, <2>4, <3>1, ConcatEmptySeq
      <4>2. /\ Unhandled \in Packets
            /\ \A i \in 1 .. Len(Unhandled) : WellFormed(Unhandled[i])
        BY <1>0, <2>4, UnhandledType DEF Matched
      <4>3. ~(Malformed(buf) \/ Complete(buf))
        BY <2>1 DEF IInv, Tried
      <4> QED
        BY <1>0, <4>1, <4>2, <4>3, HeadPacket
    <3>3. handled' = handled
      BY <1>4, <3>2 DEF Timeout, TimesOut
    <3>4. Matched' /\ Unhandled' = Unhandled
      BY <1>0, <2>1, <2>4, <3>3 DEF Matched, Unhandled
    <3> QED
      BY <2>3, <3>2, <3>4, FlatType, InStepIs
  <2>5. CASE ~clean
    <3>1. sent = <<>> /\ handled = <<>>
      BY <2>5 DEF Sound
    <3>2. sent' = <<>> /\ handled' = <<>>
      BY <1>4, <2>5, <3>1 DEF Timeout, TimesOut, Handle
    <3>3. Matched'
      BY <3>2 DEF Matched
    <3>4. Unhandled' = <<>>
      BY <3>2, SubSeqEmpty DEF Unhandled
    <3> QED
      BY <2>3, <3>3, <3>4, FlatType, InStepIs
  <2> QED
    BY <2>4, <2>5
<1>5. CASE Answer
  BY <1>5, <1>b DEF Answer
<1>6. ASSUME NEW p \in HostPackets, Begin(p) PROVE InStep'
  <2>1. CASE clean /\ WellFormed(p)
    <3>1. /\ unsent = <<>> /\ unsent' = p /\ sent' = Append(sent, p)
          /\ UNCHANGED <<clean, handled, ring, buf>>
      BY <1>6, <2>1 DEF Begin
    <3>2. sent \in Packets /\ p \in Seq(Byte) /\ handled \in Seq(Results)
      BY Params DEF IInv, TypeOK, Packets
    <3> DEFINE n == Len(handled)
               L == Len(sent)
    <3>3. /\ L \in Nat /\ n \in Nat /\ n <= L
          /\ Append(sent, p) \in Packets /\ Len(Append(sent, p)) = L + 1
          /\ \A i \in 1 .. L : Append(sent, p)[i] = sent[i]
          /\ Append(sent, p)[L + 1] = p
      BY <1>0, <2>1, <3>2, AppendProperties DEF Matched, Packets
    <3>4. Matched'
      <4>1. Len(handled') <= Len(sent')
        BY <3>1, <3>3
      <4>2. ASSUME NEW i \in 1 .. Len(handled') PROVE handled'[i] = Result(sent'[i])
        <5>1. i \in 1 .. n /\ i \in 1 .. L
          BY <3>1, <3>3
        <5> QED
          BY <1>0, <2>1, <3>1, <3>3, <5>1 DEF Matched
      <4>3. (\A i \in 1 .. Len(handled) : handled[i] = Result(sent[i]))'
        BY <4>2 DEF Result, Malformed, HasLength, LengthOk, Kind, PacketLen, IdOf
      <4> QED
        BY <4>1, <4>3 DEF Matched
    <3>5. Unhandled \in Packets
      BY <1>0, <2>1, UnhandledType DEF Matched
    <3>6. Unhandled' = Append(Unhandled, p)
      <4>1. Unhandled' = SubSeq(Append(sent, p), n + 1, L + 1)
        BY <3>1, <3>3 DEF Unhandled
      <4>2. SubSeq(Append(sent, p), n + 1, L + 1)
              = Append(SubSeq(sent, n + 1, L), p)
        <5>1. sent \in Seq(Seq(Byte)) /\ n \in 0 .. L
          BY <3>2, <3>3 DEF Packets
        <5> QED
          BY <3>2, <5>1, MoreBehind
      <4> QED
        BY <4>1, <4>2 DEF Unhandled
    <3>7. Flat(Unhandled') = Flat(Unhandled) \o p
      BY <3>2, <3>5, <3>6, FlatAppend
    <3>8. Whole = buf \o ring
      BY <1>0, <3>1, ConcatEmptySeq, ConcatProperties
    <3> QED
      BY <1>0, <2>1, <3>1, <3>4, <3>7, <3>8, InStepIs
  <2>2. CASE ~(clean /\ WellFormed(p))
    BY <1>6, <1>c, <2>2 DEF Begin
  <2> QED
    BY <2>1, <2>2
<1>7. CASE Send
  <2>1. CASE Len(ring) < RingBytes
    <3>1. /\ unsent # <<>> /\ unsent' = Tail(unsent) /\ ring' = Append(ring, Head(unsent))
          /\ UNCHANGED <<clean, sent, handled, buf>>
      BY <1>7, <2>1 DEF Send
    <3>2. (buf' \o ring') \o unsent' = Whole
      <4>1. unsent \in Seq(Byte) /\ unsent # <<>>
        BY <1>0, <3>1
      <4>2. (buf \o ring') \o unsent' = (buf \o ring) \o unsent
        <5> DEFINE h == <<Head(unsent)>>
        <5>1. h \in Seq(Byte) /\ unsent' \in Seq(Byte) /\ unsent = h \o unsent'
          <6>1. Head(unsent) \in Byte /\ unsent' \in Seq(Byte)
            BY <3>1, <4>1, TailType
          <6> QED
            BY <3>1, <4>1, <6>1, HeadTail
        <5>2. ring' = ring \o h
          <6>1. Head(unsent) \in Byte
            BY <4>1, TailType
          <6> QED
            BY <1>0, <3>1, <6>1, AppendIsConcat
        <5> HIDE DEF h
        <5>3. buf \o ring \in Seq(Byte)
          BY <1>0, ConcatProperties
        <5>4. buf \o (ring \o h) = (buf \o ring) \o h
          BY <1>0, <5>1, Regroup, ZenonT(60)
        <5>5. ((buf \o ring) \o h) \o unsent' = (buf \o ring) \o (h \o unsent')
          BY <5>1, <5>3, Regroup, Zenon
        <5>6. (buf \o ring') \o unsent' = (buf \o ring) \o (h \o unsent')
          BY <3>1, <5>2, <5>4, <5>5
        <5> QED
          BY <5>1, <5>6
      <4> QED
        BY <3>1, <4>2
    <3>3. Unhandled' = Unhandled /\ (clean => Matched')
      BY <1>0, <3>1 DEF Unhandled, Matched
    <3> QED
      BY <1>0, <3>1, <3>2, <3>3, InStepIs
  <2>2. CASE ~(Len(ring) < RingBytes)
    BY <1>7, <1>c, <2>2 DEF Send
  <2> QED
    BY <2>1, <2>2
<1>8. CASE Lose
  BY <1>8, <1>c DEF Lose, Flaw
<1>9. CASE HostStalls
  BY <1>9, <1>c DEF HostStalls, Flaw
<1>10. CASE HostResumes
  BY <1>10, <1>b DEF HostResumes
<1>11. CASE BreakOff
  BY <1>11, <1>c DEF BreakOff, Flaw
<1> QED
  BY <1>1, <1>2, <1>3, <1>4, <1>5, <1>6, <1>7, <1>8, <1>9, <1>10, <1>11
  DEF Next, Task, Host

(* However the reads cut the stream, while all goes well since the last    *)
(* silence of the line each packet is answered once, in order and with its *)
(* own id, and what has not been answered is still on its way: for every   *)
(* buffer and ring, every set of packets, and any number of them.          *)
THEOREM InStepAlways == Spec => []InStep
<1> DEFINE All == IInv /\ Sound /\ InStep
<1>1. Init => Sound /\ InStep
  <2> SUFFICES ASSUME Init PROVE Sound /\ InStep
    OBVIOUS
  <2>1. /\ unsent = <<>> /\ ring = <<>> /\ buf = <<>> /\ sent = <<>> /\ handled = <<>>
        /\ stalled = FALSE /\ clean = TRUE
    BY DEF Init
  <2>2. Sound
    BY <2>1 DEF Sound
  <2>3. Matched
    BY <2>1 DEF Matched
  <2>4. Unhandled = <<>>
    BY <2>1, SubSeqEmpty DEF Unhandled
  <2>5. (buf \o ring) \o unsent = <<>>
    BY <2>1
  <2> QED
    BY <2>2, <2>3, <2>4, <2>5, FlatType, InStepIs
<1>2. IInv /\ Sound /\ InStep /\ [Next]_vars => Sound' /\ InStep'
  <2> SUFFICES ASSUME IInv, Sound, InStep, [Next]_vars PROVE Sound' /\ InStep'
    OBVIOUS
  <2>1. CASE Next
    BY <2>1, SoundStep, InStepStep DEF IInv
  <2>2. CASE UNCHANGED vars
    <3>1. Sound'
      BY <2>2 DEF vars, Sound, WellFormed, HasLength, LengthOk, PacketLen
    <3>2. InStep'
      BY <2>2, SameStep DEF vars
    <3> QED
      BY <3>1, <3>2
  <2> QED
    BY <2>1, <2>2
<1> QED
  BY <1>1, <1>2, Invariance, PTL DEF Spec
=============================================================================
