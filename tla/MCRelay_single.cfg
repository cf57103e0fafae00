\* One instance, one message to three recipients of two domains, one stop, one failed statement, one retry request, a history that is pruned.
SPECIFICATION Spec
CONSTANTS
  a = a
  b = b
  c = c
  Rcpt = {a, b, c}
  NMsg = 1
  Envelope <- ToAll
  DomainOf <- TwoDomains
  Inst = {i1}
  MaxAttempts = 2
  Concurrency = 1
  DeadMax = 1
  HistoryDays = 30
  MaxCrashes = 1
  MaxFaults = 1
  MaxRequeues = 1
INVARIANTS
  TypeOK
  Accounted
  DuplicateWindow
  RejectedWereRefused
  AttemptsRecorded
  RecordedFirst
  HistoryInSync
