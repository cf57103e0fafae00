\* Three RCPT commands, seven attempts, 6-bit durations that overflow.
SPECIFICATION Spec
CONSTANTS
  To <- Envelope
  MaxAttempts = 7
  RetryBase = 5
  RetryMax = 20
  W = 6
  MaxAddrs = 2
  MaxLost = 2
INVARIANTS
  TypeOK
  CopiesBounded
  OneConnection
  PlainOnlyIfNeeded
  DelaySound
PROPERTIES
  ImplementsGroupDelivery
  Ends
\* A delivery ends.
CHECK_DEADLOCK FALSE
