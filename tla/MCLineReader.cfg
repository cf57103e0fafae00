\* A buffer of three bytes: lines of up to four fragments, around both limits.
SPECIFICATION Spec
CONSTANTS
  BufSize = 3
  MaxLine = 6
  Limit = 6
  LineLen = 3
  TextLen = 3
  CommandLen = 8
INVARIANTS
  FaithfulData
  MessageFits
  CommandWhole
\* A line or a message that has been read is the end.
CHECK_DEADLOCK FALSE
