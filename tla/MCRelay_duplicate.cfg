\* Two instances, nothing stops or fails.
SPECIFICATION Spec
CONSTANTS
  a = a
  b = b
  c = c
  Rcpt = {a, c}
  NMsg = 1
  Envelope <- ToAll
  DomainOf <- TwoDomains
  Inst = {i1, i2}
  MaxAttempts = 2
  Concurrency = 1
  DeadMax = 0
  HistoryDays = 0
  MaxCrashes = 0
  MaxFaults = 0
  MaxRequeues = 0
INVARIANTS
  DuplicateWindow
