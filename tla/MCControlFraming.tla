-------------------------- MODULE MCControlFraming --------------------------
(***************************************************************************)
(* An instance of ControlFraming for TLC.  Bytes have eight values, so     *)
(* that the longest packet, of 8 bytes, has both bytes of its length in    *)
(* use; the ring is shorter than any packet.                               *)
(***************************************************************************)
EXTENDS ControlFraming

MCCommands == {<<1, 2>>, <<1, 2, 6, 0>>}

MCHostPackets ==
  { <<6, 0, 1, 0, 1, 2>>,         \* the shortest command
    <<0, 1, 2, 0, 1, 2, 6, 0>>,   \* the longest, its data a length
    <<6, 0, 3, 0, 7, 7>>,         \* an unknown page
    <<5, 0, 4, 0, 1>>,            \* too short
    <<1, 1, 6, 0, 1, 2, 6, 0>> }  \* too long, and broken off
=============================================================================
