SPECIFICATION FairSpec
CONSTANTS
  Execs = {e1, e2}
  N = 1
  Wave = 1
  Overlap = 0
  MaxAttempts = 2
  MaxCycles = 1
  MaxWorkers = 6
  MaxFaults = 3
  Hazards <- InTime
PROPERTIES CycleEnds 
CHECK_DEADLOCK FALSE
