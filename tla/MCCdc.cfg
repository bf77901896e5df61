SPECIFICATION Spec
CONSTANTS
  Execs = {e1, e2}
  N = 2
  Wave = 2
  Overlap = 0
  MaxAttempts = 2
  MaxCycles = 3
  MaxWorkers = 3
  MaxFaults = 1
  Hazards <- AllHazards
SYMMETRY Interchangeable
INVARIANTS TypeOK NoGap HandoffRegistrable EvidenceOnce
PROPERTIES Acquired 
CHECK_DEADLOCK FALSE
