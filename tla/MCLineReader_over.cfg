\* Messages around the limit.
SPECIFICATION Spec
CONSTANTS
  BufSize = 3
  MaxLine = 6
  Limit = 6
  LineLen = 3
  TextLen = 2
  CommandLen = 8
INVARIANTS
  TerminatorEnds
\* A line or a message that has been read is the end.
CHECK_DEADLOCK FALSE
