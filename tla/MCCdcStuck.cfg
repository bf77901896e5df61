SPECIFICATION FairSpec
CONSTANTS
  Execs = {e1, e2}
  N = 1
  Wave = 1
  Overlap = 0
  MaxAttempts = 2
  MaxCycles = 1
  MaxWorkers = 3
  MaxFaults = 1
  Hazards <- CrashOnly
PROPERTIES CycleEnds
CHECK_DEADLOCK FALSE
