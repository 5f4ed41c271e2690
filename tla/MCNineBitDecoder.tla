-------------------------- MODULE MCNineBitDecoder --------------------------
(***************************************************************************)
(* An instance of NineBitDecoder for TLC: byte values that can be a bit 8  *)
(* and one that cannot, reads that fill the output to its last word.       *)
(***************************************************************************)
EXTENDS NineBitDecoder
=============================================================================
