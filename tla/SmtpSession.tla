---------------------------- MODULE SmtpSession ----------------------------
(***************************************************************************)
(* One connection to the submission server (internal/smtpd/session.go),    *)
(* from the greeting to the close, while the accounts it authenticates     *)
(* against are changed through the admin API.                              *)
(*                                                                         *)
(* A step is one command of the client with its reply, one line of an AUTH *)
(* dialogue, the end of the message text, or a read that fails because its *)
(* deadline passed or the client has gone.                                 *)
(*                                                                         *)
(* Left out: the wording and the codes of replies that change nothing (the *)
(* action is then a command without effect), helo, which only the Received *)
(* header uses.  Recipients are counted.  SessionDeadlines adds the        *)
(* deadlines.                                                              *)
(***************************************************************************)
EXTENDS Integers, FiniteSets

CONSTANTS
  Addr,            \* envelope addresses; a login is one of them
  RequireTLS,      \* cfg.RequireTLS
  Loopback,        \* is the client on a loopback address
  MaxRecipients,   \* cfg.MaxRecipients
  MaxCommands,     \* bound on the client's commands
  MaxChanges       \* bound on the changes of the accounts

ASSUME SessionAssumption ==
  /\ "none" \notin Addr
  /\ RequireTLS \in BOOLEAN /\ Loopback \in BOOLEAN
  /\ MaxRecipients \in Nat /\ MaxCommands \in Nat /\ MaxChanges \in Nat

VARIABLES
  tlsMode,     \* cfg.TLS.Mode ("off" without a certificate): never changes
  accounts,    \* accounts[l]: allowed_from of login l, {} if there is none
  pc,          \* what the connection's goroutine reads next
  tlsOn,       \* c.tlsOn
  user,        \* c.user: the account as read at AUTH
  from,        \* c.from
  rcpts,       \* len(c.rcpts)
  stored,      \* messages inserted: who sent them, as whom
  auths,       \* successful authentications
  granted,     \* granted[l]: what allowed_from of l has contained so far
  commands, changes

session == <<pc, tlsOn, user, from, rcpts>>
seen    == <<stored, auths>>
world   == <<tlsMode, accounts, granted, changes>>
vars    == <<session, seen, world, commands>>

NoAddr == "none"
NoUser == [email |-> NoAddr, allowed |-> {}]

User == [email : Addr, allowed : SUBSET Addr] \cup {NoUser}

\* A row of the queue, as far as the session decides it; n tells rows apart.
Stored == [n : Nat, by : Addr, from : Addr, rcpts : 1..MaxRecipients,
           late : BOOLEAN]

TypeOK ==
  /\ tlsMode \in {"off", "starttls", "implicit"}
  /\ accounts \in [Addr -> SUBSET Addr]
  /\ pc \in {"greet", "cmd", "auth", "data", "closed"}
  /\ tlsOn \in BOOLEAN
  /\ user \in User
  /\ from \in Addr \cup {NoAddr}
  /\ rcpts \in 0..MaxRecipients
  /\ stored \in SUBSET Stored
  /\ auths \in Nat
  /\ granted \in [Addr -> SUBSET Addr]
  /\ commands \in 0..MaxCommands
  /\ changes \in 0..MaxChanges

Init ==
  /\ tlsMode \in {"off", "starttls", "implicit"}
  /\ accounts \in [Addr -> SUBSET Addr]
  /\ \A l \in Addr : accounts[l] = {} \/ l \in accounts[l]
  /\ pc = "greet" /\ tlsOn = FALSE
  /\ user = NoUser /\ from = NoAddr /\ rcpts = 0
  /\ stored = {} /\ auths = 0
  /\ granted = accounts
  /\ commands = 0 /\ changes = 0

----------------------------------------------------------------------------
\* Mutant: reset forgets the sender.
ResetKeepsFrom(clearAuth) ==
  /\ from' = from /\ rcpts' = 0
  /\ user' = IF clearAuth THEN NoUser ELSE user

\* reset(clearAuth).
Reset(clearAuth) ==
  /\ from' = NoAddr /\ rcpts' = 0
  /\ user' = IF clearAuth THEN NoUser ELSE user

\* The next command line has been read.
Command ==
  /\ pc = "cmd"
  /\ commands < MaxCommands
  /\ commands' = commands + 1

AuthAllowed == ~RequireTLS \/ tlsOn \/ Loopback

----------------------------------------------------------------------------
\* serveConn up to the greeting; the implicit handshake may fail.
Greet ==
  /\ pc = "greet"
  /\ \/ /\ pc' = "cmd"
        /\ tlsOn' = (tlsMode = "implicit")
     \/ /\ tlsMode = "implicit"
        /\ pc' = "closed"
        /\ UNCHANGED tlsOn
  /\ UNCHANGED <<user, from, rcpts, seen, world, commands>>

\* HELO and EHLO with a domain.
Hello ==
  /\ Command
  /\ Reset(FALSE)
  /\ UNCHANGED <<pc, tlsOn, seen, world>>

\* NOOP, VRFY, EXPN, HELP, BDAT, an unknown verb, and every command that its
\* handler refuses: a reply and nothing else.
NoEffect ==
  /\ Command
  /\ UNCHANGED <<session, seen, world>>

Rset ==
  /\ Command
  /\ Reset(TRUE)
  /\ UNCHANGED <<pc, tlsOn, seen, world>>

Quit ==
  /\ Command
  /\ pc' = "closed"
  /\ UNCHANGED <<tlsOn, user, from, rcpts, seen, world>>

\* handleStartTLS, when the handshake succeeds: the user stays.  A failed one
\* changes nothing: the connection goes on in plain text.
StartTLS ==
  /\ Command
  /\ tlsMode = "starttls" /\ ~tlsOn
  /\ tlsOn' = TRUE
  /\ Reset(FALSE)
  /\ UNCHANGED <<pc, seen, world>>

----------------------------------------------------------------------------
(* handleAuth, authPlain, authLogin, tryAuthenticate.                      *)

\* GetAccount and VerifyPassword; reset(false).
Authenticated ==
  \E l \in Addr :
    /\ accounts[l] # {}
    /\ user' = [email |-> l, allowed |-> accounts[l]]
    /\ from' = NoAddr /\ rcpts' = 0
    /\ auths' = auths + 1

\* failAuth, for a failed lookup too.
AuthFailed == Reset(TRUE) /\ UNCHANGED auths

\* Mutant: authAllowed is not asked.
AuthAnywhere ==
  /\ Command
  /\ user = NoUser
  /\ \/ pc' = "auth" /\ UNCHANGED <<user, from, rcpts, auths>>
     \/ pc' = "cmd" /\ (Authenticated \/ AuthFailed)
  /\ UNCHANGED <<tlsOn, stored, world>>

\* AUTH with a mechanism: the credentials come inline, or after a prompt.
Auth ==
  /\ Command
  /\ user = NoUser /\ AuthAllowed
  /\ \/ pc' = "auth" /\ UNCHANGED <<user, from, rcpts, auths>>
     \/ pc' = "cmd" /\ (Authenticated \/ AuthFailed)
  /\ UNCHANGED <<tlsOn, stored, world>>

\* The lines of the dialogue: the credentials are checked, or do not parse.
AuthLine ==
  /\ pc = "auth"
  /\ pc' = "cmd"
  /\ \/ Authenticated
     \/ AuthFailed
     \/ UNCHANGED <<user, from, rcpts, auths>>
  /\ UNCHANGED <<tlsOn, stored, world, commands>>

----------------------------------------------------------------------------
\* Mutant: AllowsFrom is not asked.
MailFromAnyone ==
  /\ Command
  /\ user # NoUser
  /\ from' \in Addr
  /\ rcpts' = 0
  /\ UNCHANGED <<pc, tlsOn, user, seen, world>>

\* handleMail, when nothing is refused.
Mail ==
  /\ Command
  /\ user # NoUser
  /\ from' \in user.allowed
  /\ rcpts' = 0
  /\ UNCHANGED <<pc, tlsOn, user, seen, world>>

\* Mutant: the limit is tested with > instead of >=.
RcptOneMore ==
  /\ Command
  /\ from # NoAddr
  /\ rcpts <= MaxRecipients
  /\ rcpts' = rcpts + 1
  /\ UNCHANGED <<pc, tlsOn, user, from, seen, world>>

\* handleRcpt, when nothing is refused: it looks at from, not at user.
Rcpt ==
  /\ Command
  /\ from # NoAddr
  /\ rcpts < MaxRecipients
  /\ rcpts' = rcpts + 1
  /\ UNCHANGED <<pc, tlsOn, user, from, seen, world>>

\* handleData up to the 354 reply.
Data ==
  /\ Command
  /\ user # NoUser
  /\ from # NoAddr /\ rcpts > 0
  /\ pc' = "data"
  /\ UNCHANGED <<tlsOn, user, from, rcpts, seen, world>>

\* late: the account has lost the right it had at AUTH.
Message ==
  [n |-> Cardinality(stored), by |-> user.email, from |-> from, rcpts |-> rcpts,
   late |-> from \notin accounts[user.email]]

\* Mutant: the session stays authenticated after a message.
DataEndKeepsUser ==
  /\ pc = "data"
  /\ pc' = "cmd"
  /\ stored' \in {stored, stored \cup {Message}}
  /\ Reset(FALSE)
  /\ UNCHANGED <<tlsOn, auths, world, commands>>

\* The text has ended: queued (250), or refused as too large (552) or because
\* the database failed (451), which may have taken the row all the same.
DataEnd ==
  /\ pc = "data"
  /\ pc' = "cmd"
  /\ stored' \in {stored, stored \cup {Message}}
  /\ Reset(TRUE)
  /\ UNCHANGED <<tlsOn, auths, world, commands>>

\* The text does not end (dataTimeout, or the client goes): no reply and no
\* reset, and the loop reads the next command.
DataFails ==
  /\ pc = "data"
  /\ pc' = "cmd"
  /\ UNCHANGED <<tlsOn, user, from, rcpts, seen, world, commands>>

----------------------------------------------------------------------------
\* The next line does not come within idleTimeout, or the client has gone.
ReadFails ==
  /\ pc \in {"cmd", "auth"}
  /\ pc' = "closed"
  /\ UNCHANGED <<tlsOn, user, from, rcpts, seen, world, commands>>

\* UpsertAccounts, UpdateAccount and DeleteAccount on one account;
\* normalizeAllowed puts the login into its own list.
AccountChanges ==
  /\ changes < MaxChanges
  /\ changes' = changes + 1
  /\ \E l \in Addr, S \in SUBSET Addr :
       LET allowed == IF S = {} THEN {} ELSE S \cup {l} IN
       /\ accounts' = [accounts EXCEPT ![l] = allowed]
       /\ granted' = [granted EXCEPT ![l] = @ \cup allowed]
  /\ UNCHANGED <<tlsMode, session, seen, commands>>

Handle ==
  \/ Hello \/ NoEffect \/ Rset \/ Quit \/ StartTLS
  \/ Auth \/ Mail \/ Rcpt \/ Data

Next ==
  \/ Greet
  \/ Handle
  \/ AuthLine
  \/ DataEnd \/ DataFails
  \/ ReadFails
  \/ AccountChanges

Spec == Init /\ [][Next]_vars

----------------------------------------------------------------------------
\* RCPT and DATA trust what MAIL has checked: whenever there is a sender there
\* is a user who may use it, and recipients come only with a sender.  The two
\* are set and cleared by different commands.
EnvelopeChecked ==
  /\ from # NoAddr => user # NoUser /\ from \in user.allowed
  /\ rcpts > 0 => from # NoAddr

\* Where TLS is required, nobody is authenticated over plain text.
AuthOverTLS == RequireTLS /\ ~Loopback /\ user # NoUser => tlsOn

\* No authentication, no sending: every stored message comes from an account
\* that was allowed its sender address at some point, and each needed an
\* authentication of its own, since DATA ends by forgetting the user.
StoredWasAllowed ==
  /\ \A m \in stored : m.from \in granted[m.by]
  /\ Cardinality(stored) <= auths

\* The session works from the account as it was at AUTH.  Even so, taking a
\* right away lets at most one more message through this connection.
RevocationIsQuick == Cardinality({m \in stored : m.late}) <= changes

\* A client that stops talking is disconnected, wherever it stops: every read
\* of the session is made under a deadline (SessionDeadlines).
SilentIsClosed == <>(pc = "closed")
----------------------------------------------------------------------------
(* Why the invariants hold: the parts of an inductive one.                 *)

\* What the place in the dialogue says about the session.
Place ==
  /\ pc = "greet" => user = NoUser
  /\ pc = "auth" => user = NoUser /\ AuthAllowed
  /\ pc = "data" => user # NoUser /\ from # NoAddr /\ rcpts > 0

\* The rights the session works with were granted at some point.
RightsWereGranted ==
  /\ \A l \in Addr : accounts[l] \subseteq granted[l]
  /\ user # NoUser => user.allowed \subseteq granted[user.email]

\* An authentication pays for one message.
Paid ==
  /\ IsFiniteSet(stored)
  /\ Cardinality(stored) + (IF user = NoUser THEN 0 ELSE 1) <= auths

\* A change of the accounts pays for one late message: the one this session
\* may still send when the change took a right away from its user.
Late == {m \in stored : m.late}

Revoked == user # NoUser /\ ~(user.allowed \subseteq accounts[user.email])

LatePaid == Cardinality(Late) + (IF Revoked THEN 1 ELSE 0) <= changes

\* The inductive invariant: envelope, user, TLS, accounts and stored messages
\* fit together at every command.
SessionSound ==
  /\ TypeOK /\ Place /\ EnvelopeChecked /\ AuthOverTLS
  /\ RightsWereGranted /\ StoredWasAllowed /\ Paid /\ LatePaid
============================================================================
