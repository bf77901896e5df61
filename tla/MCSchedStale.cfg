SPECIFICATION Spec
CONSTANTS
  Execs = {e1, e2}
  N = 2
  MaxRuns = 1
  MaxClaims = 6
  MaxFaults = 1
  Hazards <- NoHazard
  Resumable = TRUE
PROPERTIES RecoveryFresh
CHECK_DEADLOCK FALSE
