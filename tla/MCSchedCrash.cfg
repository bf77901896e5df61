SPECIFICATION FairSpec
CONSTANTS
  Execs = {e1, e2}
  N = 2
  MaxRuns = 1
  MaxClaims = 4
  MaxFaults = 1
  Hazards <- CrashHazard
  Resumable = FALSE
PROPERTIES ClaimReleased
CHECK_DEADLOCK FALSE
