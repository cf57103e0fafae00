\* Fair deliverer, two messages, one stop, one failed statement.
SPECIFICATION FairSpec
CONSTANTS
  a = a
  b = b
  c = c
  Rcpt = {a}
  NMsg = 2
  Envelope <- ToAll
  DomainOf <- TwoDomains
  Inst = {i1}
  MaxAttempts = 2
  Concurrency = 1
  DeadMax = 0
  HistoryDays = 0
  MaxCrashes = 1
  MaxFaults = 1
  MaxRequeues = 0
PROPERTIES
  Drains
