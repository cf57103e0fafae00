\* TLS required, every TLS mode, two addresses, two changes of accounts.
SPECIFICATION DSpec
CONSTANTS
  Addr = {"u", "v"}
  RequireTLS = TRUE
  Loopback = FALSE
  MaxRecipients = 2
  MaxCommands = 9
  MaxChanges = 2
INVARIANTS
  EnvelopeChecked
  AuthOverTLS
  StoredWasAllowed
  RevocationIsQuick
  SessionSound
PROPERTIES
  SilentIsClosed
  StoredIsAnswered
\* A closed connection is the end.
CHECK_DEADLOCK FALSE
