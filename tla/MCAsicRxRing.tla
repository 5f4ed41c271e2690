---------------------------- MODULE MCAsicRxRing ----------------------------
(***************************************************************************)
(* Instances of AsicRxRing for TLC: a ring of a few words that is lapped   *)
(* several times, a chunk shorter than the ring, a channel that runs to    *)
(* its end, and a second session after the first.                          *)
(***************************************************************************)
EXTENDS AsicRxRing
=============================================================================
