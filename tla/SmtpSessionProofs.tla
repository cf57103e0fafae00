------------------------- MODULE SmtpSessionProofs -------------------------
(***************************************************************************)
(* SmtpSession, for every set of addresses, every limit on recipients and  *)
(* any number of commands and changes of the accounts: the envelope is     *)
(* always checked, TLS comes before AUTH where it is required, no message  *)
(* goes out without its own authentication, and a revoked right lets at    *)
(* most one message through.  The session with its deadlines               *)
(* implements it, and is never silent about a message it has stored.       *)
(***************************************************************************)
EXTENDS SessionDeadlines, FiniteSetTheorems, TLAPS

\* A step that stores nothing, authenticates nobody and changes no account.
LEMMA QuietStep ==
  ASSUME SessionSound, UNCHANGED <<seen, world>>, user' \in {user, NoUser}
  PROVE  /\ RightsWereGranted' /\ StoredWasAllowed' /\ Paid' /\ LatePaid'
<1>1. /\ stored' = stored /\ auths' = auths
      /\ accounts' = accounts /\ granted' = granted /\ changes' = changes
  BY DEF seen, world
<1>2. auths \in Nat /\ changes \in Nat
  BY SessionAssumption DEF SessionSound, TypeOK
<1>3. RightsWereGranted' /\ StoredWasAllowed'
  BY <1>1 DEF SessionSound, RightsWereGranted, StoredWasAllowed
<1>4. IsFiniteSet(stored) /\ Cardinality(stored) \in Nat
  BY FS_CardinalityType DEF SessionSound, Paid
<1>5. Paid'
  BY <1>1, <1>2, <1>4 DEF SessionSound, Paid
<1>6. Late' = Late
  BY <1>1 DEF Late
<1>7. IsFiniteSet(Late) /\ Cardinality(Late) \in Nat
  BY <1>4, FS_Subset, FS_CardinalityType DEF Late
<1>8. Revoked' => Revoked
  BY <1>1 DEF Revoked
<1>9. LatePaid'
  BY <1>1, <1>2, <1>6, <1>7, <1>8 DEF SessionSound, LatePaid
<1> QED
  BY <1>3, <1>5, <1>9

\* The session starts sound.
LEMMA SessionInit == Init => SessionSound
<1> SUFFICES ASSUME Init PROVE SessionSound
  OBVIOUS
<1>0. /\ pc = "greet" /\ tlsOn = FALSE /\ user = NoUser /\ from = NoAddr
      /\ rcpts = 0 /\ stored = {} /\ auths = 0 /\ granted = accounts
      /\ commands = 0 /\ changes = 0 /\ accounts \in [Addr -> SUBSET Addr]
  BY DEF Init
<1>1. TypeOK
  <2>1. user \in User /\ tlsOn \in BOOLEAN
    BY <1>0 DEF User
  <2>2. stored \in SUBSET Stored /\ auths \in Nat
    BY <1>0
  <2>3. /\ rcpts \in 0..MaxRecipients /\ commands \in 0..MaxCommands
        /\ changes \in 0..MaxChanges
    BY <1>0, SessionAssumption
  <2>4. tlsMode \in {"off", "starttls", "implicit"}
    BY DEF Init
  <2> QED
    BY <1>0, <2>1, <2>2, <2>3, <2>4 DEF TypeOK
<1>2. Place /\ AuthOverTLS
  BY <1>0 DEF Place, AuthOverTLS
<1>3. IsFiniteSet({}) /\ Cardinality({}) = 0
  BY FS_EmptySet
<1>4. StoredWasAllowed /\ Paid
  BY <1>3 DEF Init, StoredWasAllowed, Paid
<1>5. Late = {} /\ ~Revoked
  BY DEF Init, Late, Revoked
<1>6. LatePaid
  BY <1>3, <1>5 DEF Init, LatePaid
<1>7. EnvelopeChecked /\ RightsWereGranted
  BY <1>0 DEF EnvelopeChecked, RightsWereGranted
<1> QED
  BY <1>1, <1>2, <1>4, <1>6, <1>7 DEF SessionSound

\* GetAccount and VerifyPassword, or failAuth: the start of an authentication
\* (inline) and its dialogue end the same way.
LEMMA AuthEnds ==
  ASSUME SessionSound, user = NoUser, AuthAllowed, pc' = "cmd",
         UNCHANGED <<tlsOn, stored, world>>, Authenticated
  PROVE  /\ user' \in User /\ from' = NoAddr /\ rcpts' = 0 /\ auths' \in Nat
         /\ EnvelopeChecked' /\ AuthOverTLS' /\ RightsWereGranted'
         /\ StoredWasAllowed' /\ Paid' /\ LatePaid'
<1>1. PICK l \in Addr :
        /\ user' = [email |-> l, allowed |-> accounts[l]]
        /\ from' = NoAddr /\ rcpts' = 0
        /\ auths' = auths + 1
  BY DEF Authenticated
<1>2. /\ stored' = stored /\ accounts' = accounts /\ granted' = granted
      /\ changes' = changes /\ tlsOn' = tlsOn
  BY DEF world
<1>3. /\ auths \in Nat /\ changes \in Nat
      /\ accounts[l] \in SUBSET Addr
  BY SessionAssumption DEF SessionSound, TypeOK
<1>4. user' \in User /\ user'.email = l /\ user'.allowed = accounts[l]
  BY <1>1, <1>3 DEF User
<1>5. EnvelopeChecked' /\ AuthOverTLS'
  BY <1>1, <1>2 DEF EnvelopeChecked, AuthOverTLS, AuthAllowed
<1>6. RightsWereGranted'
  BY <1>1, <1>2, <1>4 DEF SessionSound, RightsWereGranted
<1>7. IsFiniteSet(stored) /\ Cardinality(stored) \in Nat
  BY FS_CardinalityType DEF SessionSound, Paid
<1>8. StoredWasAllowed' /\ Paid'
  BY <1>1, <1>2, <1>3, <1>7 DEF SessionSound, StoredWasAllowed, Paid
<1>9. Late' = Late
  BY <1>2 DEF Late
<1>10. IsFiniteSet(Late) /\ Cardinality(Late) \in Nat
  BY <1>7, FS_Subset, FS_CardinalityType DEF Late
<1>11. ~Revoked'
  BY <1>2, <1>4 DEF Revoked
<1>12. LatePaid'
  BY <1>2, <1>3, <1>9, <1>10, <1>11 DEF SessionSound, LatePaid
<1> QED
  BY <1>1, <1>3, <1>4, <1>5, <1>6, <1>8, <1>12

\* The end of a message: one more row, one user less.
LEMMA DataEndSound ==
  ASSUME SessionSound, DataEnd
  PROVE  SessionSound'
<1>1. /\ pc = "data" /\ pc' = "cmd" /\ from' = NoAddr /\ rcpts' = 0
      /\ user' = NoUser /\ tlsOn' = tlsOn /\ auths' = auths
      /\ stored' \in {stored, stored \cup {Message}}
      /\ tlsMode' = tlsMode /\ accounts' = accounts /\ granted' = granted
      /\ changes' = changes /\ commands' = commands
  BY DEF DataEnd, Reset, world
<1>2. /\ auths \in Nat /\ changes \in Nat /\ MaxRecipients \in Nat
      /\ user # NoUser /\ from # NoAddr /\ rcpts > 0
      /\ rcpts \in 0..MaxRecipients /\ from \in Addr
      /\ user \in [email : Addr, allowed : SUBSET Addr]
      /\ from \in user.allowed
  BY <1>1, SessionAssumption
     DEF SessionSound, TypeOK, Place, User, EnvelopeChecked
<1>3. IsFiniteSet(stored) /\ Cardinality(stored) \in Nat
  BY FS_CardinalityType DEF SessionSound, Paid
<1>4. Message \in Stored
  BY <1>2, <1>3 DEF Message, Stored
<1>5. TypeOK'
  BY <1>1, <1>2, <1>4, SessionAssumption DEF SessionSound, TypeOK, User
<1>6. /\ IsFiniteSet(stored')
      /\ Cardinality(stored') \in Nat
      /\ Cardinality(stored') <= Cardinality(stored) + 1
  BY <1>1, <1>3, FS_AddElement, FS_CardinalityType
<1>7. Paid'
  BY <1>1, <1>2, <1>3, <1>6 DEF SessionSound, Paid
<1>8. Message.from \in granted[Message.by]
  BY <1>2 DEF SessionSound, RightsWereGranted, Message
<1>9. StoredWasAllowed'
  BY <1>1, <1>2, <1>3, <1>6, <1>7, <1>8
     DEF SessionSound, StoredWasAllowed, Paid
<1>10. Place' /\ EnvelopeChecked' /\ AuthOverTLS' /\ RightsWereGranted'
  BY <1>1 DEF SessionSound, Place, EnvelopeChecked, AuthOverTLS,
              RightsWereGranted
<1>11. IsFiniteSet(Late) /\ Cardinality(Late) \in Nat
  BY <1>3, FS_Subset, FS_CardinalityType DEF Late
<1>12. Late' = Late \/ (Message.late /\ Late' = Late \cup {Message})
  BY <1>1 DEF Late
<1>13. Message.late => Revoked
  BY <1>2 DEF Message, Revoked
<1>14. ~Revoked'
  BY <1>1 DEF Revoked
<1>15. /\ Cardinality(Late \cup {Message}) \in Nat
       /\ Cardinality(Late \cup {Message}) <= Cardinality(Late) + 1
  BY <1>11, FS_AddElement, FS_CardinalityType
<1>16. LatePaid'
  <2>1. CASE Late' = Late
    BY <1>1, <1>2, <1>11, <1>14, <2>1 DEF SessionSound, LatePaid
  <2>2. CASE Message.late /\ Late' = Late \cup {Message}
    BY <1>1, <1>2, <1>11, <1>13, <1>14, <1>15, <2>2 DEF SessionSound, LatePaid
  <2> QED
    BY <1>12, <2>1, <2>2
<1> QED
  BY <1>5, <1>7, <1>9, <1>10, <1>16 DEF SessionSound

\* UpsertAccounts, UpdateAccount, DeleteAccount while the session is open.
LEMMA AccountChangesSound ==
  ASSUME SessionSound, AccountChanges
  PROVE  SessionSound'
<1>1. PICK l \in Addr, S \in SUBSET Addr :
        LET allowed == IF S = {} THEN {} ELSE S \cup {l} IN
        /\ accounts' = [accounts EXCEPT ![l] = allowed]
        /\ granted' = [granted EXCEPT ![l] = @ \cup allowed]
  BY DEF AccountChanges
<1>2. /\ changes < MaxChanges /\ changes' = changes + 1
      /\ pc' = pc /\ tlsOn' = tlsOn /\ user' = user /\ from' = from
      /\ rcpts' = rcpts /\ stored' = stored /\ auths' = auths
      /\ commands' = commands /\ tlsMode' = tlsMode
  BY DEF AccountChanges, session, seen
<1>3. changes \in 0..MaxChanges /\ MaxChanges \in Nat
  BY SessionAssumption DEF SessionSound, TypeOK
<1>4. TypeOK'
  BY <1>1, <1>2, <1>3 DEF SessionSound, TypeOK
<1>5. /\ \A k \in Addr : granted[k] \subseteq granted'[k]
      /\ \A k \in Addr : accounts'[k] \subseteq granted'[k]
  BY <1>1 DEF SessionSound, TypeOK, RightsWereGranted
<1>6. user # NoUser => user.email \in Addr
  BY DEF SessionSound, TypeOK, User
<1>7. RightsWereGranted'
  BY <1>2, <1>5, <1>6 DEF SessionSound, RightsWereGranted
<1>8. \A m \in stored : m.by \in Addr
  BY DEF SessionSound, TypeOK, Stored
<1>9. StoredWasAllowed' /\ Paid'
  BY <1>2, <1>5, <1>8 DEF SessionSound, StoredWasAllowed, Paid
<1>10. Place' /\ EnvelopeChecked' /\ AuthOverTLS'
  BY <1>2 DEF SessionSound, Place, EnvelopeChecked, AuthOverTLS, AuthAllowed
<1>11. Late' = Late
  BY <1>2 DEF Late
<1>12. IsFiniteSet(Late) /\ Cardinality(Late) \in Nat
  BY FS_Subset, FS_CardinalityType DEF SessionSound, Paid, Late
<1>13. LatePaid'
  BY <1>2, <1>3, <1>11, <1>12 DEF SessionSound, LatePaid
<1> QED
  BY <1>4, <1>7, <1>9, <1>10, <1>13 DEF SessionSound

\* A quiet step is sound when it keeps types, place, envelope and TLS right.
LEMMA QuietSound ==
  ASSUME SessionSound, UNCHANGED <<seen, world>>, user' \in {user, NoUser},
         pc' \in {"greet", "cmd", "auth", "data", "closed"}, tlsOn' \in BOOLEAN,
         from' \in Addr \cup {NoAddr}, rcpts' \in 0..MaxRecipients,
         commands' \in 0..MaxCommands,
         Place', EnvelopeChecked', AuthOverTLS'
  PROVE  SessionSound'
<1>1. RightsWereGranted' /\ StoredWasAllowed' /\ Paid' /\ LatePaid'
  BY QuietStep
<1>2. user' \in User
  BY DEF SessionSound, TypeOK, User
<1>3. TypeOK'
  BY <1>2 DEF SessionSound, TypeOK, seen, world
<1> QED
  BY <1>1, <1>3 DEF SessionSound

\* AUTH and its dialogue, when they end.
LEMMA AuthEndsSound ==
  ASSUME SessionSound, user = NoUser, AuthAllowed, pc' = "cmd",
         UNCHANGED <<tlsOn, stored, world>>, commands' \in 0..MaxCommands,
         Authenticated \/ AuthFailed
  PROVE  SessionSound'
<1>0. MaxRecipients \in Nat
  BY SessionAssumption
<1>1. CASE Authenticated
  <2>1. /\ user' \in User /\ from' = NoAddr /\ rcpts' = 0 /\ auths' \in Nat
        /\ EnvelopeChecked' /\ AuthOverTLS' /\ RightsWereGranted'
        /\ StoredWasAllowed' /\ Paid' /\ LatePaid'
    BY <1>1, AuthEnds
  <2>2. TypeOK'
    BY <1>0, <2>1 DEF SessionSound, TypeOK, world
  <2>3. Place'
    BY DEF Place
  <2> QED
    BY <2>1, <2>2, <2>3 DEF SessionSound
<1>2. CASE AuthFailed
  <2>1. user' = NoUser /\ from' = NoAddr /\ rcpts' = 0 /\ auths' = auths
    BY <1>2 DEF AuthFailed, Reset
  <2>2. Place' /\ EnvelopeChecked' /\ AuthOverTLS'
    BY <2>1 DEF Place, EnvelopeChecked, AuthOverTLS
  <2>3. UNCHANGED <<seen, world>> /\ tlsOn' \in BOOLEAN
    BY <2>1 DEF seen, SessionSound, TypeOK
  <2> QED
    BY <1>0, <2>1, <2>2, <2>3, QuietSound
<1> QED
  BY <1>1, <1>2

\* Every step keeps the session sound.
LEMMA SessionStep == SessionSound /\ [Next]_vars => SessionSound'
<1> SUFFICES ASSUME SessionSound, [Next]_vars PROVE SessionSound'
  OBVIOUS
<1>0. /\ MaxRecipients \in Nat /\ MaxCommands \in Nat
      /\ commands \in 0..MaxCommands /\ rcpts \in 0..MaxRecipients
      /\ tlsOn \in BOOLEAN /\ from \in Addr \cup {NoAddr}
      /\ NoAddr \notin Addr /\ user \in User
      /\ pc \in {"greet", "cmd", "auth", "data", "closed"}
      /\ Place /\ EnvelopeChecked /\ AuthOverTLS
  BY SessionAssumption DEF SessionSound, TypeOK, NoAddr
<1>c. Command => pc = "cmd" /\ commands' \in 0..MaxCommands
  BY <1>0 DEF Command
<1>1. CASE Greet
  <2>1. /\ pc = "greet" /\ pc' \in {"cmd", "closed"} /\ tlsOn' \in BOOLEAN
        /\ user' = user /\ from' = from /\ rcpts' = rcpts
        /\ UNCHANGED <<seen, world>> /\ commands' = commands
    BY <1>0, <1>1 DEF Greet
  <2>2. Place' /\ EnvelopeChecked' /\ AuthOverTLS'
    BY <1>0, <2>1 DEF Place, EnvelopeChecked, AuthOverTLS
  <2> QED
    BY <1>0, <2>1, <2>2, QuietSound
<1>2. CASE Hello \/ Rset
  <2>1. /\ pc = "cmd" /\ pc' = pc /\ tlsOn' = tlsOn /\ user' \in {user, NoUser}
        /\ from' = NoAddr /\ rcpts' = 0 /\ commands' \in 0..MaxCommands
        /\ UNCHANGED <<seen, world>>
    BY <1>2, <1>c DEF Hello, Rset, Reset
  <2>2. Place' /\ EnvelopeChecked' /\ AuthOverTLS'
    BY <1>0, <2>1 DEF Place, EnvelopeChecked, AuthOverTLS
  <2> QED
    BY <1>0, <2>1, <2>2, QuietSound
<1>3. CASE NoEffect \/ Quit \/ DataFails \/ ReadFails
  <2>1. /\ pc' \in {"cmd", "closed"} /\ tlsOn' = tlsOn /\ user' = user
        /\ from' = from /\ rcpts' = rcpts /\ commands' \in 0..MaxCommands
        /\ UNCHANGED <<seen, world>>
    BY <1>0, <1>3, <1>c DEF NoEffect, Quit, DataFails, ReadFails, session
  <2>2. Place' /\ EnvelopeChecked' /\ AuthOverTLS'
    BY <1>0, <2>1 DEF Place, EnvelopeChecked, AuthOverTLS
  <2> QED
    BY <1>0, <2>1, <2>2, QuietSound
<1>4. CASE StartTLS
  <2>1. /\ pc = "cmd" /\ pc' = pc /\ tlsOn' = TRUE /\ user' = user
        /\ from' = NoAddr /\ rcpts' = 0 /\ commands' \in 0..MaxCommands
        /\ UNCHANGED <<seen, world>>
    BY <1>4, <1>c DEF StartTLS, Reset
  <2>2. Place' /\ EnvelopeChecked' /\ AuthOverTLS'
    BY <1>0, <2>1 DEF Place, EnvelopeChecked, AuthOverTLS
  <2> QED
    BY <1>0, <2>1, <2>2, QuietSound
<1>5. CASE Auth
  <2>1. /\ pc = "cmd" /\ user = NoUser /\ AuthAllowed /\ tlsOn' = tlsOn
        /\ commands' \in 0..MaxCommands
        /\ UNCHANGED <<tlsOn, stored, world>>
    BY <1>5, <1>c DEF Auth
  <2>2. CASE pc' = "auth" /\ UNCHANGED <<user, from, rcpts, auths>>
    <3>1. AuthAllowed'
      BY <2>1 DEF AuthAllowed
    <3>2. Place' /\ EnvelopeChecked' /\ AuthOverTLS'
      BY <1>0, <2>1, <2>2, <3>1 DEF Place, EnvelopeChecked, AuthOverTLS
    <3>3. UNCHANGED <<seen, world>>
      BY <2>1, <2>2 DEF seen
    <3> QED
      BY <1>0, <2>1, <2>2, <3>2, <3>3, QuietSound
  <2>3. CASE pc' = "cmd" /\ (Authenticated \/ AuthFailed)
    BY <2>1, <2>3, AuthEndsSound
  <2> QED
    BY <1>5, <2>2, <2>3 DEF Auth
<1>6. CASE AuthLine
  <2>1. /\ pc = "auth" /\ pc' = "cmd" /\ tlsOn' = tlsOn
        /\ commands' \in 0..MaxCommands
        /\ UNCHANGED <<tlsOn, stored, world>>
    BY <1>0, <1>6 DEF AuthLine
  <2>2. user = NoUser /\ AuthAllowed
    BY <1>0, <2>1 DEF Place
  <2>3. CASE Authenticated \/ AuthFailed
    BY <2>1, <2>2, <2>3, AuthEndsSound
  <2>4. CASE UNCHANGED <<user, from, rcpts, auths>>
    <3>1. Place' /\ EnvelopeChecked' /\ AuthOverTLS'
      BY <1>0, <2>1, <2>4 DEF Place, EnvelopeChecked, AuthOverTLS
    <3>2. UNCHANGED <<seen, world>>
      BY <2>1, <2>4 DEF seen
    <3> QED
      BY <1>0, <2>1, <2>4, <3>1, <3>2, QuietSound
  <2> QED
    BY <1>6, <2>3, <2>4 DEF AuthLine
<1>7. CASE Mail
  <2>1. /\ pc = "cmd" /\ pc' = pc /\ tlsOn' = tlsOn /\ user' = user
        /\ user # NoUser /\ from' \in user.allowed /\ rcpts' = 0
        /\ commands' \in 0..MaxCommands /\ UNCHANGED <<seen, world>>
    BY <1>7, <1>c DEF Mail
  <2>2. from' \in Addr
    BY <1>0, <2>1 DEF User
  <2>3. Place' /\ EnvelopeChecked' /\ AuthOverTLS'
    BY <1>0, <2>1 DEF Place, EnvelopeChecked, AuthOverTLS
  <2> QED
    BY <1>0, <2>1, <2>2, <2>3, QuietSound
<1>8. CASE Rcpt
  <2>1. /\ pc = "cmd" /\ pc' = pc /\ tlsOn' = tlsOn /\ user' = user
        /\ from # NoAddr /\ from' = from /\ rcpts' \in 0..MaxRecipients
        /\ commands' \in 0..MaxCommands /\ UNCHANGED <<seen, world>>
    BY <1>0, <1>8, <1>c DEF Rcpt
  <2>2. Place' /\ EnvelopeChecked' /\ AuthOverTLS'
    BY <1>0, <2>1 DEF Place, EnvelopeChecked, AuthOverTLS
  <2> QED
    BY <1>0, <2>1, <2>2, QuietSound
<1>9. CASE Data
  <2>1. /\ pc' = "data" /\ tlsOn' = tlsOn /\ user' = user /\ user # NoUser
        /\ from # NoAddr /\ from' = from /\ rcpts > 0 /\ rcpts' = rcpts
        /\ commands' \in 0..MaxCommands /\ UNCHANGED <<seen, world>>
    BY <1>9, <1>c DEF Data
  <2>2. Place' /\ EnvelopeChecked' /\ AuthOverTLS'
    BY <1>0, <2>1 DEF Place, EnvelopeChecked, AuthOverTLS
  <2> QED
    BY <1>0, <2>1, <2>2, QuietSound
<1>10. CASE DataEnd
  BY <1>10, DataEndSound
<1>11. CASE AccountChanges
  BY <1>11, AccountChangesSound
<1>12. CASE UNCHANGED vars
  <2>1. /\ pc' = pc /\ tlsOn' = tlsOn /\ user' = user /\ from' = from
        /\ rcpts' = rcpts /\ commands' = commands /\ UNCHANGED <<seen, world>>
    BY <1>12 DEF vars, session
  <2>2. Place' /\ EnvelopeChecked' /\ AuthOverTLS'
    BY <1>0, <2>1 DEF Place, EnvelopeChecked, AuthOverTLS, AuthAllowed
  <2> QED
    BY <1>0, <2>1, <2>2, QuietSound
<1> QED
  BY <1>1, <1>2, <1>3, <1>4, <1>5, <1>6, <1>7, <1>8, <1>9, <1>10, <1>11, <1>12
     DEF Next, Handle

----------------------------------------------------------------------------
\* Sender, user, TLS, accounts and stored messages fit together at every
\* command of a session, whatever the client sends and whoever changes the
\* accounts meanwhile.
THEOREM AlwaysSound == Spec => []SessionSound
<1>1. Init => SessionSound
  BY SessionInit
<1>2. SessionSound /\ [Next]_vars => SessionSound'
  BY SessionStep
<1> QED
  BY <1>1, <1>2, PTL DEF Spec

\* RCPT and DATA may trust what MAIL has checked.
THEOREM EnvelopeAlwaysChecked == Spec => []EnvelopeChecked
<1>1. SessionSound => EnvelopeChecked
  BY DEF SessionSound
<1> QED
  BY <1>1, AlwaysSound, PTL

\* Nobody is authenticated over plain text where TLS is required.
THEOREM NeverPlainAuth == Spec => []AuthOverTLS
<1>1. SessionSound => AuthOverTLS
  BY DEF SessionSound
<1> QED
  BY <1>1, AlwaysSound, PTL

\* No authentication, no sending, and only as an address that was granted.
THEOREM OnlyAllowedStored == Spec => []StoredWasAllowed
<1>1. SessionSound => StoredWasAllowed
  BY DEF SessionSound
<1> QED
  BY <1>1, AlwaysSound, PTL

\* A right that is taken away lets at most one more message through, although
\* the session never reads the account again.
THEOREM RevokedSoon == Spec => []RevocationIsQuick
<1>1. SessionSound => RevocationIsQuick
  <2> SUFFICES ASSUME SessionSound PROVE RevocationIsQuick
    OBVIOUS
  <2>1. IsFiniteSet(Late) /\ Cardinality(Late) \in Nat
    BY FS_Subset, FS_CardinalityType DEF SessionSound, Paid, Late
  <2>2. changes \in Nat
    BY SessionAssumption DEF SessionSound, TypeOK
  <2> QED
    BY <2>1, <2>2 DEF SessionSound, LatePaid, RevocationIsQuick, Late
<1> QED
  BY <1>1, AlwaysSound, PTL

----------------------------------------------------------------------------
(* The deadlines.                                                          *)

\* A step of the session with the deadline is one of the session, or none.
LEMMA DeadlineStep == [DNext]_dvars => [Next]_vars
<1> SUFFICES ASSUME [DNext]_dvars PROVE Next \/ UNCHANGED vars
  OBVIOUS
<1>1. CASE UNCHANGED dvars
  BY <1>1 DEF dvars
<1>2. CASE Plain \/ DAuth \/ DStartTLS \/ DData
  BY <1>2 DEF Plain, DAuth, DStartTLS, DData, Next, Handle
<1>3. CASE DAuthLine \/ DDataEnd \/ DDataFails \/ DReadFails
  BY <1>3 DEF DAuthLine, DDataEnd, DDataFails, DReadFails, Next
<1>4. CASE DeadlinePasses
  BY <1>4 DEF DeadlinePasses
<1>5. CASE DGreet \/ DAccountChanges
  BY <1>5 DEF DGreet, DAccountChanges, Next
<1> QED
  BY <1>1, <1>2, <1>3, <1>4, <1>5 DEF DNext, FromClient

\* Whatever AUTH, STARTTLS and DATA do to the deadline, the session does only
\* what SmtpSession allows, so that everything above holds of it.
THEOREM DeadlinesImplement == DSpec => Spec
<1>1. DInit => Init
  BY DEF DInit
<1> QED
  BY <1>1, DeadlineStep, PTL DEF DSpec, Spec

\* The session with the deadline keeps envelope, user, TLS, accounts and stored
\* messages together.
THEOREM DeadlinesAlwaysSound == DSpec => []SessionSound
BY DeadlinesImplement, AlwaysSound, PTL

\* A message is stored only by a session that can still answer it: no deadline
\* left behind by AUTH or STARTTLS is in force between the insert and its 250.
THEOREM StoredAlwaysAnswered == DSpec => StoredIsAnswered
<1>1. [DNext]_dvars => [stored' # stored => ~mute']_dvars
  <2> SUFFICES ASSUME DNext, stored' # stored PROVE ~mute'
    OBVIOUS
  <2>1. ASSUME Plain \/ DAuth \/ DStartTLS \/ DData PROVE FALSE
    BY <2>1 DEF Plain, DAuth, DStartTLS, DData, Hello, NoEffect, Rset, Quit, Mail,
       Rcpt, Auth, StartTLS, Data, seen
  <2>2. ASSUME DAuthLine \/ DDataFails \/ DReadFails PROVE FALSE
    BY <2>2 DEF DAuthLine, DDataFails, DReadFails, AuthLine, DataFails, ReadFails, seen
  <2>3. ASSUME DeadlinePasses \/ DGreet \/ DAccountChanges PROVE FALSE
    BY <2>3 DEF DeadlinePasses, DGreet, DAccountChanges, Greet, AccountChanges, vars, seen
  <2>4. ASSUME ~mute, DDataEnd PROVE ~mute'
    BY <2>4 DEF DDataEnd
  <2> QED
    BY <2>1, <2>2, <2>3, <2>4 DEF DNext, FromClient
<1> QED
  BY <1>1, PTL DEF DSpec, StoredIsAnswered
============================================================================
