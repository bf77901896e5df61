SPECIFICATION FairSpec
CONSTANTS
  Execs = {e1, e2}
  Exports = 1
  Sources = 3
  Entities = {1, 2}
  Values = {1, 2}
  Histories <- Returning
  FirstKnown <- TwoFirst
  Batch = 1
  MaxWorkers = 3
  MaxEvents = 3
  Hazards <- Failures
INVARIANTS OneWriter RowsBacked RowsFaithful
PROPERTIES CursorMoves 
CHECK_DEADLOCK FALSE
