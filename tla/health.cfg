SPECIFICATION Spec
CONSTANTS
  WedgeAfter = 3
  staleGap = 2
  DropWindow = 2
  DropClearWindow = 3
  QueueCap = 1
  MaxTime = 6
  MaxReports = 4
  MaxQueued = 2
  Results = {"ok", "failed"}
  Levels = {"low", "between", "high"}
INVARIANTS BrokerInSync StartClearsProblem
PROPERTIES FlagsAreSustained
CHECK_DEADLOCK FALSE
