\* Two instances on one database, one message to two domains, one stop.
SPECIFICATION Spec
CONSTANTS
  a = a
  b = b
  c = c
  Rcpt = {a, c}
  NMsg = 1
  Envelope <- ToAll
  DomainOf <- TwoDomains
  Inst = {i1, i2}
  MaxAttempts = 2
  Concurrency = 1
  DeadMax = 1
  HistoryDays = 0
  MaxCrashes = 1
  MaxFaults = 0
  MaxRequeues = 0
INVARIANTS
  NoLoss
  ClaimNotOrphaned
PROPERTIES
  ImplementsMailQueue
