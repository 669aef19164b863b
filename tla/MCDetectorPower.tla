-------------------------- MODULE MCDetectorPower --------------------------
(* The small instances of the detector on a machine that can lose power.     *)
EXTENDS MCDetector, DetectorPower
=============================================================================
