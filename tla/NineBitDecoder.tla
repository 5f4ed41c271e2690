--------------------------- MODULE NineBitDecoder ---------------------------
(***************************************************************************)
(* The ESP to ASIC path: NineBitPairDecoder of src/uart_codec.rs and       *)
(* esp_to_asic_task of src/uart.rs.                                        *)
(*                                                                         *)
(* The host sends a nine-bit word as two bytes, its low byte and its bit   *)
(* 8.  Reads cut the stream anywhere, and bytes may be lost.  A byte is    *)
(* known with its place in a word and whether one was lost before it; the  *)
(* task sees its value only.                                               *)
(***************************************************************************)
EXTENDS Integers, Sequences

CONSTANTS
  ByteBase,    \* 2^8, the number of values of a byte
  InBytes,     \* 64, the length of serial_buf
  OutWords,    \* 32, the length of words
  RingBytes,   \* the length of the receive ring of the UART
  HostBytes,   \* bound: bytes that the host sends
  LossCap      \* bound: bytes that are lost

ASSUME DecoderAssumption ==
  /\ {ByteBase, InBytes, OutWords, RingBytes} \subseteq Nat \ {0}
  /\ ByteBase >= 2
  /\ InBytes <= 2 * OutWords
  /\ {HostBytes, LossCap} \subseteq Nat

VARIABLES
  count,     \* bytes sent by the host
  gap,       \* the byte before the next one was lost
  losses,    \* bound: bytes lost
  ring,      \* the receive ring of the UART
  pending,   \* pending_low_byte, a sequence of at most one value
  words,     \* decoded words that are still to be written
  out,       \* history: words given to the TX state machine
  heard      \* history: bytes read

vars == <<count, gap, losses, ring, pending, words, out, heard>>

Values == 0 .. ByteBase - 1
HostByte == [v : Values, low : BOOLEAN, gap : BOOLEAN]
Word == 0 .. 2 * ByteBase - 1

TypeOK ==
  /\ count \in 0 .. HostBytes /\ gap \in BOOLEAN /\ losses \in 0 .. LossCap
  /\ ring \in Seq(HostByte) /\ Len(ring) <= RingBytes
  /\ pending \in Seq(Values) /\ Len(pending) <= 1
  /\ words \in Seq(Word) /\ Len(words) <= OutWords
  /\ out \in Seq(Word)
  /\ heard \in Seq(HostByte)

Init ==
  /\ count = 0 /\ gap = FALSE /\ losses = 0 /\ ring = <<>>
  /\ pending = <<>> /\ words = <<>> /\ out = <<>> /\ heard = <<>>

-----------------------------------------------------------------------------
(* NineBitPairDecoder::decode() on a sequence of values.  A state of it    *)
(* has the input that is left, the pending byte and the output so far.     *)

BugNineBit(low, bit8) == low + 2 * ByteBase * bit8   \* shifts by 9

NineBit(low, bit8) == low + ByteBase * bit8

BugPair(d, low, bit8, rest) ==   \* throws a byte away that is no bit 8
  IF bit8 <= 1
  THEN [input |-> rest, pending |-> <<>>, output |-> Append(d.output, NineBit(low, bit8))]
  ELSE [input |-> rest, pending |-> <<>>, output |-> d.output]

(* A low byte has met what should be its bit 8, and is not pending any     *)
(* more; what cannot be a bit 8 is taken for a low byte.                   *)
Pair(d, low, bit8, rest) ==
  IF bit8 <= 1
  THEN [input |-> rest, pending |-> <<>>, output |-> Append(d.output, NineBit(low, bit8))]
  ELSE [input |-> rest, pending |-> <<bit8>>, output |-> d.output]

Full(d) == Len(d.output) >= OutWords

(* A turn of the loop over the input; where the loop ends, nothing changes. *)
Turn(d) ==
  LET in == d.input
  IN  IF in = <<>> \/ Full(d) THEN d
      ELSE IF d.pending # <<>> THEN Pair(d, d.pending[1], in[1], Tail(in))
      ELSE IF Len(in) = 1 THEN [input |-> <<>>, pending |-> in, output |-> d.output]
      ELSE Pair(d, in[1], in[2], SubSeq(in, 3, Len(in)))

(* The loop: a turn for each byte is enough. *)
Decoded(d) ==
  LET f[n \in 0 .. Len(d.input)] == IF n = 0 THEN d ELSE Turn(f[n - 1])
  IN  f[Len(d.input)]

BugDecode(before, input) ==   \* drops what the full output leaves over
  LET d == Decoded([input |-> input, pending |-> before, output |-> <<>>])
  IN  [pending |-> d.pending, output |-> d.output]

(* With the output full, a single byte that is left becomes pending; more  *)
(* than one would be dropped.                                              *)
Decode(before, input) ==
  LET d == Decoded([input |-> input, pending |-> before, output |-> <<>>])
  IN  [pending |-> IF Len(d.input) = 1 THEN d.input ELSE d.pending, output |-> d.output]

-----------------------------------------------------------------------------
(* esp_to_asic_task. *)

ValuesOf(s) == [i \in DOMAIN s |-> s[i].v]

(* A read takes what there is, up to the length of the buffer. *)
Read ==
  /\ words = <<>> /\ ring # <<>>
  /\ \E n \in 1 .. Len(ring) :
       /\ n <= InBytes
       /\ LET taken == SubSeq(ring, 1, n)
              d == Decode(pending, ValuesOf(taken))
          IN  /\ pending' = d.pending /\ words' = d.output
              /\ heard' = heard \o taken
       /\ ring' = SubSeq(ring, n + 1, Len(ring))
  /\ UNCHANGED <<count, gap, losses, out>>

(* write_u16(): one word into the TX FIFO, as soon as there is room. *)
WriteWord ==
  /\ words # <<>>
  /\ out' = Append(out, Head(words)) /\ words' = Tail(words)
  /\ UNCHANGED <<count, gap, losses, ring, pending, heard>>

-----------------------------------------------------------------------------
(* The host and the line: the bytes of words in turn, each there or lost.  *)

(* A low byte is anything, a bit 8 is 0 or 1. *)
Send(v) ==
  /\ count < HostBytes /\ Len(ring) < RingBytes
  /\ count % 2 = 1 => v <= 1
  /\ count' = count + 1
  /\ ring' = Append(ring, [v |-> v, low |-> count % 2 = 0, gap |-> gap])
  /\ gap' = FALSE
  /\ UNCHANGED <<losses, pending, words, out, heard>>

(* On the line, in a full ring, or because the ESP was reset. *)
Lose ==
  /\ count < HostBytes /\ losses < LossCap
  /\ count' = count + 1 /\ losses' = losses + 1 /\ gap' = TRUE
  /\ UNCHANGED <<ring, pending, words, out, heard>>

Next == Read \/ WriteWord \/ (\E v \in Values : Send(v)) \/ Lose

Spec == Init /\ [][Next]_vars

-----------------------------------------------------------------------------
(* The reference: one byte after the other, without chunks and limits. *)
Add(d, v) ==
  IF d.pending = <<>> \/ v > 1
  THEN [pending |-> <<v>>, output |-> d.output]
  ELSE [pending |-> <<>>, output |-> Append(d.output, NineBit(d.pending[1], v))]

Paired(s) ==
  LET f[n \in 0 .. Len(s)] == IF n = 0 THEN [pending |-> <<>>, output |-> <<>>]
                              ELSE Add(f[n - 1], s[n])
  IN  f[Len(s)]

(* Wherever the reads cut the stream, nothing is dropped for want of       *)
(* output space, repeated, or paired otherwise than in the stream as a     *)
(* whole.                                                                  *)
ChunksInvisible ==
  LET all == Paired(ValuesOf(heard))
  IN  pending = all.pending /\ out \o words = all.output

(* What the comment on decode() promises: from a low byte on that cannot   *)
(* be a bit 8, and until a byte is lost, the words that come out are the   *)
(* words that the host sends, and the decoder waits for the byte that the  *)
(* host sends next; whatever was lost before.                              *)
Realigned ==
  \A i \in DOMAIN heard :
    heard[i].low /\ heard[i].v > 1 /\ (\A j \in i + 1 .. Len(heard) : ~heard[j].gap) =>
      LET n == (Len(heard) - i + 1) \div 2
          all == out \o words
      IN  /\ pending = IF heard[Len(heard)].low THEN <<heard[Len(heard)].v>> ELSE <<>>
          /\ n <= Len(all)
          /\ \A k \in 1 .. n : all[Len(all) - n + k]
                                 = NineBit(heard[i + 2 * k - 2].v, heard[i + 2 * k - 1].v)
=============================================================================
