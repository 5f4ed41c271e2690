----------------------------- MODULE MCPioUart -----------------------------
(***************************************************************************)
(* PioUart for TLC with the firmware's own ratio of clocks, 125 MHz to     *)
(* 5 Mbaud, and a sender that is as fast, or 3 percent faster or slower.   *)
(***************************************************************************)
EXTENDS PioUart

MCSenderDividers == {776, 800, 824}
MCPhases == {32 * i : i \in 0 .. 7}
MCWords == {<<1, 0, 1, 0, 0, 1, 0, 1, 1>>, <<0, 1, 1, 1, 0, 0, 1, 0, 0>>}

(* The three senders are ones for which WordsArrive is a theorem.          *)
ASSUME MCTolerated == Tolerated
=============================================================================
