SPECIFICATION FairSpec
CONSTANTS
  Execs = {e1, e2}
  S = 2
  M = 2
  MaxPolls = 2
  MaxExports = 2
  MaxFaults = 2
  Hazards <- AllHazards
INVARIANTS TypeOK OneWriter OneLateChange BackupAfterAllSheets LastSheetWhole
PROPERTIES NewerWorkerKept WaitEnds
CHECK_DEADLOCK FALSE
