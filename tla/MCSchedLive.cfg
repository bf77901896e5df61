SPECIFICATION FairSpec
CONSTANTS
  Execs = {e1, e2}
  N = 2
  MaxRuns = 1
  MaxClaims = 4
  MaxFaults = 2
  Hazards <- AutoHazards
  Resumable = FALSE
INVARIANTS OneExporterAtATime CompleteNotRerun
 
CHECK_DEADLOCK FALSE
