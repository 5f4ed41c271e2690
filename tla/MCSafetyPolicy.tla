--------------------------- MODULE MCSafetyPolicy ---------------------------
(***************************************************************************)
(* Instances of SafetyPolicy for TLC: a lease of 2 ms, a clock of 5 ms     *)
(* that saturates, and fan requests below, at and above 100 percent.       *)
(***************************************************************************)
EXTENDS SafetyPolicy

MCFanPercents == {40, 60, 100, 101}
AllStages     == Stages
LeaseStages   == {"Lease", "TripLatch"}
FirmwareStage == {"TripLatch"}
=============================================================================
