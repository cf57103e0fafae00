\* Retention windows that do not fit a duration.
SPECIFICATION Spec
CONSTANTS
  Inputs <- WideWindows
  NVersions = 2
  W = 6
  Day = 4
  MaxAge = 12
  MaxConns = 2
  MaxFaults = 0
INVARIANTS
  HistoryKeptAlways
\* The process ends.
CHECK_DEADLOCK FALSE
