\* Every section of the configuration in turn, two migrations, two sessions, one failure.
SPECIFICATION Spec
CONSTANTS
  Inputs <- Everything
  NVersions = 2
  W = 6
  Day = 4
  MaxAge = 12
  MaxConns = 2
  MaxFaults = 1
INVARIANTS
  TypeOK
  Precedence
  AcceptedStarts
  MigratesOn
  AtMostOneCut
  HistoryKept
PROPERTIES
  StopsWhenTold
\* The process ends.
CHECK_DEADLOCK FALSE
