--------------------------- MODULE ControlFraming ---------------------------
(***************************************************************************)
(* Control packets cut out of a stream of bytes: read_packet() and         *)
(* try_extract_packet() of src/control/mod.rs, in the loop of uart_task.   *)
(*                                                                         *)
(* A packet begins with its length in two bytes and its id.  Nothing marks *)
(* the beginning of a packet: a byte that is missing puts the reader out   *)
(* of step with the host, and only a line that is silent for the 4 ms of   *)
(* the read timeout brings the two together again.                         *)
(*                                                                         *)
(* The host sends packets whole, breaks off, hesitates; bytes are lost on  *)
(* the line or because nobody takes them out of the receive ring of the    *)
(* UART in time.                                                           *)
(***************************************************************************)
EXTENDS Integers, Sequences

CONSTANTS
  ByteBase,      \* 2^8, the number of values of a byte
  MinPacket,     \* 6, the shortest packet
  BufSize,       \* 4098, the length of frame_buf
  RingBytes,     \* 256, the length of the receive ring
  Commands,      \* what Command::from_bytes() knows: page, command and data
  HostPackets,   \* bound: what the host sends
  PacketCap,     \* bound: packets of a behaviour
  FlawCap        \* bound: losses, hesitations and broken-off packets

Byte == 0 .. ByteBase - 1

ASSUME FramingAssumption ==
  /\ {ByteBase, MinPacket, BufSize, RingBytes} \subseteq Nat \ {0}
  /\ MinPacket >= 6 /\ MinPacket <= BufSize
  /\ HostPackets \subseteq Seq(Byte) /\ <<>> \notin HostPackets
  /\ {PacketCap, FlawCap} \subseteq Nat

VARIABLES
  unsent,    \* what the host has yet to send of its packet
  stalled,   \* the host has stopped in the middle of it
  ring,      \* the receive ring of the UART
  error,     \* an error that the UART has yet to report
  pc,        \* where uart_task is
  buf,       \* frame_buf[..frame_len]
  begun,     \* bound: packets so far
  flaws,     \* bound: flaws so far
  clean,     \* history: since the line was last silent all went well
  sent,      \* history: packets since then, while all goes well
  handled    \* history: answers since then, while all goes well

hostVars == <<unsent, stalled, begun, flaws, sent>>
taskVars == <<pc, buf>>
vars == <<unsent, stalled, ring, error, pc, buf, begun, flaws, clean, sent, handled>>

Results == [id : Byte, kind : {"command", "invalid", "timeout"}]

NoId == ByteBase - 1   \* 0xff

TypeOK ==
  /\ unsent \in Seq(Byte) /\ stalled \in BOOLEAN
  /\ ring \in Seq(Byte) /\ Len(ring) <= RingBytes
  /\ error \in BOOLEAN
  /\ pc \in {"loop", "read", "answer"}
  /\ buf \in Seq(Byte) /\ Len(buf) <= BufSize
  /\ begun \in Nat /\ flaws \in Nat /\ clean \in BOOLEAN
  /\ sent \in Seq(Seq(Byte)) /\ handled \in Seq(Results)

Init ==
  /\ unsent = <<>> /\ stalled = FALSE /\ ring = <<>> /\ error = FALSE
  /\ pc = "loop" /\ buf = <<>>
  /\ begun = 0 /\ flaws = 0
  /\ clean = TRUE /\ sent = <<>> /\ handled = <<>>

-----------------------------------------------------------------------------
(* The packet at the head of a buffer. *)

HasLength(b) == Len(b) >= 2
PacketLen(b) == b[1] + ByteBase * b[2]
IdOf(b) == IF Len(b) >= 3 THEN b[3] ELSE NoId

BugLengthOk(b) == PacketLen(b) \in MinPacket .. BufSize + 1   \* one byte too many

LengthOk(b) == PacketLen(b) \in MinPacket .. BufSize

(* Command::from_bytes(): id and bus are anything. *)
Kind(b) == IF SubSeq(b, 5, PacketLen(b)) \in Commands THEN "command" ELSE "invalid"

Malformed(b) == HasLength(b) /\ ~LengthOk(b)
Complete(b) == HasLength(b) /\ LengthOk(b) /\ Len(b) >= PacketLen(b)

Result(b) == [id |-> IdOf(b), kind |-> IF Malformed(b) THEN "invalid" ELSE Kind(b)]

BugRest(b) == <<>>   \* frame_len becomes 0 after every packet

(* What is behind a packet stays; nothing is known to be behind a length   *)
(* that cannot be one.                                                     *)
Rest(b) == IF Malformed(b) THEN <<>> ELSE SubSeq(b, PacketLen(b) + 1, Len(b))

Handle(r) == handled' = IF clean THEN Append(handled, r) ELSE handled

(* try_extract_packet(); with nothing to extract the task goes on to next. *)
TryExtract(b, next) ==
  IF Malformed(b) \/ Complete(b)
  THEN buf' = Rest(b) /\ pc' = "answer" /\ Handle(Result(b))
  ELSE buf' = b /\ pc' = next /\ UNCHANGED handled

-----------------------------------------------------------------------------
(* The control task. *)

(* read_packet() looks first at what it has. *)
Extract ==
  /\ pc = "loop"
  /\ TryExtract(buf, "read")
  /\ UNCHANGED <<hostVars, ring, error, clean>>

(* The read takes what is there and fits. *)
Read ==
  /\ pc = "read" /\ ring # <<>>
  /\ \E n \in 1 .. Len(ring) :
       /\ Len(buf) + n <= BufSize
       /\ TryExtract(buf \o SubSeq(ring, 1, n), "loop")
       /\ ring' = SubSeq(ring, n + 1, Len(ring))
  /\ UNCHANGED <<hostVars, error, clean>>

(* The error is logged; a partial packet stays. *)
ReadError ==
  /\ pc = "read" /\ error
  /\ error' = FALSE /\ pc' = "loop"
  /\ UNCHANGED <<hostVars, ring, buf, clean, handled>>

Silent == unsent = <<>> \/ stalled

TimesOut(rest) ==
  /\ pc = "read" /\ Silent /\ ring = <<>> /\ ~error
  /\ IF buf = <<>>
     THEN pc' = "loop" /\ UNCHANGED handled
     ELSE pc' = "answer" /\ Handle([id |-> IdOf(buf), kind |-> "timeout"])
  /\ buf' = rest
  /\ clean' = (clean \/ unsent = <<>>)
  /\ UNCHANGED <<hostVars, ring, error>>

BugTimeout == TimesOut(buf)   \* keeps the partial packet

(* Nothing has come for 4 ms: a partial packet is dropped.                 *)
Timeout == TimesOut(<<>>)

(* handle_command() and write_response(); bytes keep coming meanwhile.     *)
Answer ==
  /\ pc = "answer" /\ pc' = "loop"
  /\ UNCHANGED <<hostVars, ring, error, buf, clean, handled>>

-----------------------------------------------------------------------------
(* The host and the line. *)

Damage == clean' = FALSE /\ sent' = <<>> /\ handled' = <<>>

WellFormed(p) == HasLength(p) /\ LengthOk(p) /\ Len(p) = PacketLen(p)

(* A packet with a wrong length puts the two out of step. *)
Begin(p) ==
  /\ unsent = <<>> /\ begun < PacketCap
  /\ unsent' = p /\ begun' = begun + 1
  /\ IF clean /\ WellFormed(p)
     THEN sent' = Append(sent, p) /\ UNCHANGED <<clean, handled>>
     ELSE Damage
  /\ UNCHANGED <<stalled, flaws, ring, error, taskVars>>

(* A byte arrives, or is lost for want of room. *)
Send ==
  /\ unsent # <<>> /\ ~stalled
  /\ unsent' = Tail(unsent)
  /\ IF Len(ring) < RingBytes
     THEN ring' = Append(ring, Head(unsent)) /\ UNCHANGED <<error, clean, sent, handled>>
     ELSE error' = TRUE /\ Damage /\ UNCHANGED ring
  /\ UNCHANGED <<stalled, begun, flaws, taskVars>>

Flaw == flaws < FlawCap /\ flaws' = flaws + 1 /\ Damage

Lose ==
  /\ unsent # <<>> /\ ~stalled /\ Flaw
  /\ unsent' = Tail(unsent) /\ error' = TRUE
  /\ UNCHANGED <<stalled, begun, ring, taskVars>>

(* For 4 ms or longer. *)
HostStalls ==
  /\ unsent # <<>> /\ ~stalled /\ Flaw
  /\ stalled' = TRUE
  /\ UNCHANGED <<unsent, begun, ring, error, taskVars>>

HostResumes ==
  /\ stalled /\ stalled' = FALSE
  /\ UNCHANGED <<unsent, begun, flaws, ring, error, clean, sent, handled, taskVars>>

BreakOff ==
  /\ unsent # <<>> /\ Flaw
  /\ unsent' = <<>> /\ stalled' = FALSE
  /\ UNCHANGED <<begun, ring, error, taskVars>>

Task == Extract \/ Read \/ ReadError \/ Timeout \/ Answer
Host == (\E p \in HostPackets : Begin(p)) \/ Send \/ Lose \/ HostStalls \/ HostResumes \/ BreakOff

Next == Task \/ Host

Spec == Init /\ [][Next]_vars

-----------------------------------------------------------------------------
(* Safety. *)

(* The task never waits for bytes without room for one: a read into the    *)
(* empty rest of frame_buf would return at once, for ever.                 *)
RoomToRead == pc = "read" => Len(buf) < BufSize

Flat(s) == LET f[n \in 0 .. Len(s)] == IF n = 0 THEN <<>> ELSE f[n - 1] \o s[n]
           IN  f[Len(s)]

(* While all goes well, from the boot or from any silence of the line on,  *)
(* the packets are handled as they were sent: in order, each once, with    *)
(* its own id and its own bytes, however the reads cut the stream and      *)
(* whatever the line was like before that silence; and what has not been   *)
(* handled is still on its way.                                            *)
InStep ==
  clean =>
    LET n == Len(handled)
    IN  /\ n <= Len(sent)
        /\ \A i \in 1 .. n : handled[i] = Result(sent[i])
        /\ buf \o ring \o unsent = Flat(SubSeq(sent, n + 1, Len(sent)))

-----------------------------------------------------------------------------
(* Liveness.  The executor polls a task that is ready, timers expire, and  *)
(* a byte that is being sent arrives.                                      *)

LiveSpec == Spec /\ WF_vars(Task) /\ WF_vars(Send)

(* When the host is done, whatever was lost before, the task ends in step  *)
(* with it, with every packet since the last silence handled; when it has  *)
(* stopped inside a packet, the part that has come is dropped.             *)
Recovers ==
  /\ <>[](unsent = <<>>) => <>[](clean /\ buf = <<>> /\ ring = <<>> /\ Len(handled) = Len(sent))
  /\ <>[]stalled => <>[](buf = <<>> /\ ring = <<>>)
=============================================================================
