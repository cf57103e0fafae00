\* Three messages that may die at the same time, a cap of one, one retry request.
SPECIFICATION Spec
CONSTANTS
  a = a
  b = b
  c = c
  Rcpt = {a}
  NMsg = 3
  Envelope <- ToAll
  DomainOf <- TwoDomains
  Inst = {i1}
  MaxAttempts = 1
  Concurrency = 3
  DeadMax = 1
  HistoryDays = 0
  MaxCrashes = 0
  MaxFaults = 0
  MaxRequeues = 1
INVARIANTS
  DeadCapped
