SPECIFICATION Spec
CONSTANTS
  Execs = {e1, e2}
  N = 2
  MaxRuns = 2
  MaxClaims = 4
  MaxFaults = 1
  Hazards <- AllHazards
  Resumable = TRUE
SYMMETRY Interchangeable
INVARIANTS TypeOK ProgressBacked CompleteRunBacked CompleteRowBacked ClaimTracksQueue
PROPERTIES AdvanceProved QueueKept
CHECK_DEADLOCK FALSE
