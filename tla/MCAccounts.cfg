\* Two handlers and a restart, one account, one domain, one failing statement.
SPECIFICATION Spec
CONSTANTS
  Email = {"a"}
  Sender = {"m", "n"}
  Password = {"p", "q"}
  Domain = {"d"}
  Key = {"k", "l"}
  Handler = {h1, h2}
  Seeds <- OneOfEach
  MaxRequests = 3
  MaxStops = 1
  MaxFaults = 1
INVARIANTS
  PasswordsAsMeant
  ExactUnlessRaced
  AccountsSound
PROPERTIES
  ServesSeeded
\* The bound on the requests is reached.
CHECK_DEADLOCK FALSE
