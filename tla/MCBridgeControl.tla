-------------------------- MODULE MCBridgeControl --------------------------
(***************************************************************************)
(* Instances of BridgeControl for TLC.  The durations are a few            *)
(* milliseconds each, in the order of the real ones: read < service        *)
(* interval < write < tachometer, all gaps shorter than the watchdog.      *)
(***************************************************************************)
EXTENDS BridgeControl

MCFanPercents == {40, 100}
=============================================================================
