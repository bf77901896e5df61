SPECIFICATION FairSpec
CONSTANTS
  Execs = {e1, e2}
  Months = 2
  Reports <- HistoryReports
  Stored <- AnyStored
  MaxRows = 5
  MaxStarts = 1
  MaxCalls = 2
  MaxFaults = 1
  Hazards <- AllHazards
INVARIANTS TypeOK MonthsProved EvidenceExact
PROPERTIES PeriodReplaced BackfillEnds
CHECK_DEADLOCK FALSE
