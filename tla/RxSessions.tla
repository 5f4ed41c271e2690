----------------------------- MODULE RxSessions -----------------------------
(***************************************************************************)
(* What the ASIC receive path promises about sessions, without the         *)
(* hardware and the task that keep the promise: words reach the ESP in     *)
(* chunks, a chunk is taken while the gate is open and holds words of the  *)
(* open session only, and after the gate has closed no more than the rest  *)
(* of one chunk follows.                                                   *)
(***************************************************************************)
EXTENDS Integers, Sequences

CONSTANT ChunkBytes   \* the longest chunk

VARIABLES
  session,   \* number of the current or last session, 0 before the first
  open,      \* whether the gate is open
  chunk      \* the sessions of the bytes that are still to be handed over

vars == <<session, open, chunk>>

Init == session = 0 /\ open = FALSE /\ chunk = <<>>

Open == ~open /\ open' = TRUE /\ session' = session + 1 /\ UNCHANGED chunk

Close == open /\ open' = FALSE /\ UNCHANGED <<session, chunk>>

Take ==
  /\ open /\ chunk = <<>>
  /\ \E n \in 1 .. ChunkBytes : chunk' = [i \in 1 .. n |-> session]
  /\ UNCHANGED <<session, open>>

Hand == chunk # <<>> /\ chunk' = Tail(chunk) /\ UNCHANGED <<session, open>>

(* The rest of a chunk may be given up. *)
Abandon == chunk # <<>> /\ chunk' = <<>> /\ UNCHANGED <<session, open>>

Next == Open \/ Close \/ Take \/ Hand \/ Abandon

Spec == Init /\ [][Next]_vars
=============================================================================
