SPECIFICATION Spec
CONSTANTS
  Requests <- FullMode
  Faults = {}
  TickMs = 10000
  MaxNow = 40000
CHECK_DEADLOCK FALSE
INVARIANTS FinishedMeansShared
