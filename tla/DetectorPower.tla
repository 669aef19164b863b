--------------------------- MODULE DetectorPower ---------------------------
(* The detector on a machine that can lose power.  The database runs in WAL  *)
(* mode with synchronous = NORMAL: what was committed after the last         *)
(* checkpoint of the log may be lost, always as a whole tail, and with it    *)
(* the file itself if nothing was ever checkpointed.  Directories are        *)
(* fsynced at best, and never the ones above: any file may be gone.          *)
EXTENDS Detector

CONSTANT MaxPowerLosses   \* bound: how often the machine loses power

VARIABLES
  saved,        \* the tables as of the last checkpoint of the log
  powerLosses

powerVars == <<vars, saved, powerLosses>>

ASSUME PowerAssumption == MaxPowerLosses \in Nat

PowerInit == Init /\ saved = db /\ powerLosses = 0

SaveTables ==
  /\ saved # db /\ powerLosses < MaxPowerLosses
  /\ saved' = db
  /\ UNCHANGED <<vars, powerLosses>>

LosePower ==
  /\ powerLosses < MaxPowerLosses
  /\ db' \in {saved, db}
  /\ saved' = db'
  /\ made' \in {made} \cup (IF db' = NoTables THEN {FALSE} ELSE {})
  /\ \E kept \in SUBSET DOMAIN files : files' = [b \in kept |-> files[b]]
  /\ run' = [r \in Runner |-> Idle]
  /\ powerLosses' = powerLosses + 1
  /\ UNCHANGED <<status, evidence, crashes, alterations>>

PowerNext == (Next /\ UNCHANGED <<saved, powerLosses>>) \/ SaveTables \/ LosePower

PowerSpec == PowerInit /\ [][PowerNext]_powerVars

(* The operator starts the detector again after a power loss, too.           *)
FairPowerSpec == PowerSpec /\ Fairness
=============================================================================
