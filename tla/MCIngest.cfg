SPECIFICATION FairSpec
CONSTANTS
  Kinds = {"NATIVE_CDC", "WEBHOOK"}
  Execs = {e1, e2}
  S = 1
  MaxBatches = 2
  MaxWorkers = 6
  MaxFaults = 1
  Hazards <- AllHazards
INVARIANTS CountsExact OneWorker DriveOnce
PROPERTIES Delivered Settles
CHECK_DEADLOCK FALSE
