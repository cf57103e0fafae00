----------------------------- MODULE MxExchange -----------------------------
(***************************************************************************)
(* The delivery of a message to the recipients of one domain, reply by     *)
(* reply, and its retries (internal/relay/deliver.go: prepareBody,         *)
(* deliverGroup, connect, resolveHost, hostAddrs, isPermanent, backoff).   *)
(*                                                                         *)
(* Relay takes what deliverGroup returns as one nondeterministic step; here*)
(* is where it comes from.  A step is one lookup, one connection attempt   *)
(* or one command with its answer.  The MX keeps the recipients it accepted*)
(* for the message it is about to get, and takes the message before it     *)
(* answers the final dot: an answer that is lost leaves it taken.          *)
(***************************************************************************)
EXTENDS Integers, SequencesExt, FiniteSetsExt

CONSTANTS
  To,            \* the group, in the order of the envelope
  MaxAttempts,   \* cfg.Delivery.MaxAttempts
  RetryBase,     \* cfg.Delivery.RetryBase
  RetryMax,      \* cfg.Delivery.RetryMax
  W,             \* the width of a time.Duration (64 in Go)
  MaxAddrs,      \* bound on the addresses of a host
  MaxLost        \* bound on how many final answers are lost

Group == ToSet(To)

ASSUME ExchangeAssumption ==
  /\ To \in Seq(Group) /\ To # <<>>
  /\ MaxAttempts \in Nat \ {0}
  /\ W \in Nat /\ W > 2
  /\ {RetryBase, RetryMax} \subseteq -(2^(W - 1))..2^(W - 1) - 1
  /\ MaxAddrs \in Nat \ {0} /\ MaxLost \in Nat

\* A fact of arithmetic that the provers do not know.
ASSUME PowersGrow ==
  \A a, b \in 0..W + MaxAttempts : a <= b => 2^a <= 2^b

VARIABLES
  pc,            \* the next step of the attempt, or how the message ended
  attempts,      \* m.Attempts
  delay,         \* the delay before the next attempt
  addrs,         \* addresses of the host connect has not tried
  open,          \* open connections to the MX
  tls,           \* "off", "on", or "failed": this attempt goes on in plain
  offered,       \* the MX offered STARTTLS in its last answer to EHLO
  sent,          \* RCPT commands sent
  delivered,     \* recipients the MX accepted, as deliverGroup knows
  perm,          \* recipients refused with 5xx
  copies,        \* how often the MX took the message for each recipient
  lost           \* final answers lost

attempt == <<addrs, open, tls, offered, sent, delivered, perm>>
vars    == <<pc, attempts, delay, attempt, copies, lost>>

Running == {"prepare", "resolve", "connect", "hello", "starttls", "mail",
            "rcpt", "data", "text", "wait"}
Ended   == {"delivered", "rejected", "exhausted"}

TypeOK ==
  /\ pc \in Running \cup Ended
  /\ attempts \in 0..MaxAttempts
  /\ delay \in Int
  /\ addrs \in 0..MaxAddrs
  /\ open \in Nat
  /\ tls \in {"off", "on", "failed"} /\ offered \in BOOLEAN
  /\ sent \in 0..Len(To)
  /\ delivered \subseteq Group /\ perm \subseteq Group
  /\ copies \in [Group -> Nat]
  /\ lost \in 0..MaxLost

Fresh ==
  /\ addrs = 0 /\ open = 0 /\ tls = "off" /\ offered = FALSE
  /\ sent = 0 /\ delivered = {} /\ perm = {}

Init ==
  /\ pc = "prepare" /\ attempts = 0 /\ delay = 0
  /\ Fresh
  /\ copies = [r \in Group |-> 0]
  /\ lost = 0

----------------------------------------------------------------------------
(* How an attempt ends.                                                    *)

\* A W-bit signed integer.
Signed(n) == ((n + 2^(W - 1)) % (2 * 2^(W - 1))) - 2^(W - 1)

Shifted(n) == Signed(RetryBase * 2^Min({n - 1, W - 2}))

\* Mutant: a delay that overflowed to zero or below is used.
BackoffUnchecked(n) == Min({Shifted(n), RetryMax})

Backoff(n) ==
  IF Shifted(n) <= 0 \/ Shifted(n) > RetryMax THEN RetryMax ELSE Shifted(n)

\* Mutant: one attempt too many.
FailOneMore ==
  /\ attempts' = attempts + 1
  /\ IF attempts' > MaxAttempts
     THEN pc' = "exhausted" /\ UNCHANGED delay
     ELSE pc' = "wait" /\ delay' = Backoff(attempts')
  /\ open' = 0
  /\ UNCHANGED <<addrs, tls, offered, sent, delivered>>

\* Mutant: the counter starts anew with every attempt.
FailUncounted ==
  /\ attempts' = 1
  /\ IF attempts' >= MaxAttempts
     THEN pc' = "exhausted" /\ UNCHANGED delay
     ELSE pc' = "wait" /\ delay' = Backoff(attempts')
  /\ open' = 0
  /\ UNCHANGED <<addrs, tls, offered, sent, delivered>>

\* deliverGroup returns an error, and deliver postpones or gives up.  The
\* deferred conn.Close closes the connection.
Fail ==
  /\ attempts' = attempts + 1
  /\ IF attempts' >= MaxAttempts
     THEN pc' = "exhausted" /\ UNCHANGED delay
     ELSE pc' = "wait" /\ delay' = Backoff(attempts')
  /\ open' = 0
  /\ UNCHANGED <<addrs, tls, offered, sent, delivered>>

\* deliverGroup returns without an error.
Return(taken, refused) ==
  /\ pc' = IF taken # {} THEN "delivered" ELSE "rejected"
  /\ delivered' = taken /\ perm' = refused
  /\ open' = 0
  /\ UNCHANGED <<attempts, delay, addrs, tls, offered, sent>>

\* The outcome of a command: 2xx, 4xx, 5xx (isPermanent), or none because the
\* connection broke or IOTimeout passed.
Reply == {"ok", "transient", "permanent", "none"}

Goto(next) == pc' = next /\ UNCHANGED <<attempts, delay>>

----------------------------------------------------------------------------
(* Finding and greeting the MX.                                            *)

\* prepareBody: whatever goes wrong with the signature, the message goes out.
PrepareBody ==
  /\ pc = "prepare"
  /\ Goto("resolve")
  /\ UNCHANGED <<attempt, copies, lost>>

\* resolveHost: MX records, or else addresses.  An error of the resolver is
\* never a textproto.Error, so isPermanent is false of it and it is retried.
ResolveHost ==
  /\ pc = "resolve"
  /\ \E dns \in {"mx", "address", "nothing", "error"} :
       IF dns \in {"mx", "address"}
       THEN /\ Goto("connect")
            /\ addrs' \in 1..MaxAddrs
            /\ UNCHANGED <<open, tls, offered, sent, delivered>>
       ELSE Fail
  /\ UNCHANGED <<perm, copies, lost>>

\* connect: the next address.  A greeting that is not one closes the
\* connection; after the last address deliverGroup returns the error.
Connect ==
  /\ pc = "connect"
  /\ \E r \in {"dial failed", "bad greeting", "ok"} :
       \/ /\ r = "ok" /\ Goto("hello")
          /\ open' = open + 1
          /\ UNCHANGED <<addrs, tls, offered, sent, delivered>>
       \/ /\ r # "ok" /\ addrs > 1 /\ Goto("connect")
          /\ addrs' = addrs - 1
          /\ UNCHANGED <<open, tls, offered, sent, delivered>>
       \/ r # "ok" /\ addrs <= 1 /\ Fail
  /\ UNCHANGED <<perm, copies, lost>>

\* EHLO.  Only the first connection of an attempt asks for STARTTLS.
Hello ==
  /\ pc = "hello"
  /\ \E r \in Reply, ext \in BOOLEAN :
       IF r = "ok"
       THEN /\ Goto(IF ext /\ tls = "off" THEN "starttls" ELSE "mail")
            /\ offered' = ext
            /\ UNCHANGED <<addrs, open, tls, sent, delivered>>
       ELSE Fail
  /\ UNCHANGED <<perm, copies, lost>>

\* Mutant: the connection stays open while the next one is made.
StartTLSKeepsConn ==
  /\ pc = "starttls"
  /\ \/ Goto("mail") /\ tls' = "on" /\ UNCHANGED addrs
     \/ Goto("connect") /\ tls' = "failed" /\ addrs' \in 1..MaxAddrs
  /\ UNCHANGED <<open, offered, sent, delivered, perm, copies, lost>>

\* Mutant: the handshake's error is logged and the connection used further.
StartTLSIgnored ==
  /\ pc = "starttls"
  /\ Goto("mail")
  /\ tls' \in {"on", "off"}
  /\ UNCHANGED <<addrs, open, offered, sent, delivered, perm, copies, lost>>

\* STARTTLS, the handshake and EHLO again; any failure means a new connection
\* to the same host, in plain text.
StartTLS ==
  /\ pc = "starttls"
  /\ \/ Goto("mail") /\ tls' = "on" /\ UNCHANGED <<addrs, open>>
     \/ Goto("connect") /\ tls' = "failed" /\ open' = 0 /\ addrs' \in 1..MaxAddrs
  /\ UNCHANGED <<offered, sent, delivered, perm, copies, lost>>

----------------------------------------------------------------------------
(* The transaction.                                                        *)

Mail(r) ==
  /\ pc = "mail"
  /\ \/ /\ r = "ok" /\ Goto("rcpt")
        /\ UNCHANGED attempt
     \/ r = "permanent" /\ Return({}, Group)
     \/ r \notin {"ok", "permanent"} /\ Fail /\ UNCHANGED perm
  /\ UNCHANGED <<copies, lost>>

\* Mutant: a transient refusal skips the recipient as a permanent one does.
RcptSkips(r) ==
  /\ pc = "rcpt" /\ sent < Len(To)
  /\ IF r = "none" THEN Fail /\ UNCHANGED perm
     ELSE LET rcp == To[sent + 1] IN
          /\ Goto("rcpt") /\ sent' = sent + 1
          /\ delivered' = IF r = "ok" THEN delivered \cup {rcp} ELSE delivered
          /\ perm' = IF r = "permanent" THEN perm \cup {rcp} ELSE perm
          /\ UNCHANGED <<addrs, open, tls, offered>>
  /\ UNCHANGED <<copies, lost>>

\* One recipient: 5xx sets it aside, any other failure ends the attempt.
Rcpt(r) ==
  /\ pc = "rcpt" /\ sent < Len(To)
  /\ IF r \in {"ok", "permanent"}
     THEN LET rcp == To[sent + 1] IN
          /\ Goto("rcpt") /\ sent' = sent + 1
          /\ delivered' = IF r = "ok" THEN delivered \cup {rcp} ELSE delivered
          /\ perm' = IF r = "ok" THEN perm ELSE perm \cup {rcp}
          /\ UNCHANGED <<addrs, open, tls, offered>>
     ELSE Fail /\ UNCHANGED perm
  /\ UNCHANGED <<copies, lost>>

RcptsDone ==
  /\ pc = "rcpt" /\ sent = Len(To)
  /\ IF delivered = {} THEN Return({}, perm)
     ELSE Goto("data") /\ UNCHANGED attempt
  /\ UNCHANGED <<copies, lost>>

\* The DATA command: every failure is retried, a 5xx too.
Data(r) ==
  /\ pc = "data"
  /\ IF r = "ok" THEN Goto("text") /\ UNCHANGED attempt
     ELSE Fail /\ UNCHANGED perm
  /\ UNCHANGED <<copies, lost>>

\* The MX takes the message or not.
Handed(takes) ==
  copies' = [r \in Group |->
               copies[r] + IF takes /\ r \in delivered THEN 1 ELSE 0]

\* Mutant: an error of QUIT is returned like the others.
TextQuitMatters(r, takes) ==
  /\ pc = "text"
  /\ Handed(takes)
  /\ \/ r = "ok" /\ takes /\ Return(delivered, perm)
     \/ Fail /\ UNCHANGED perm
  /\ UNCHANGED lost

\* The text and the final dot.  5xx refuses everybody that was accepted; an
\* answer that does not come says nothing about what the MX did.
Text(r, takes) ==
  /\ pc = "text"
  /\ Handed(takes)
  /\ \/ r = "ok" /\ takes /\ Return(delivered, perm) /\ UNCHANGED lost
     \/ r = "permanent" /\ ~takes /\ Return({}, perm \cup delivered) /\ UNCHANGED lost
     \/ r = "transient" /\ ~takes /\ Fail /\ UNCHANGED <<perm, lost>>
     \/ /\ r = "none"
        /\ lost' = IF takes THEN lost + 1 ELSE lost
        /\ lost' <= MaxLost
        /\ Fail /\ UNCHANGED perm

\* The backoff is over and the message is claimed again.
Wait ==
  /\ pc = "wait"
  /\ pc' = "prepare"
  /\ addrs' = 0 /\ open' = 0 /\ tls' = "off" /\ offered' = FALSE
  /\ sent' = 0 /\ delivered' = {} /\ perm' = {}
  /\ UNCHANGED <<attempts, delay, copies, lost>>

Next ==
  \/ PrepareBody \/ ResolveHost \/ Connect \/ Hello \/ StartTLS
  \/ \E r \in Reply : Mail(r) \/ Rcpt(r) \/ Data(r)
  \/ RcptsDone
  \/ \E r \in Reply, takes \in BOOLEAN : Text(r, takes)
  \/ Wait

\* ConnectTimeout and IOTimeout bound every step, and the queue hands a
\* postponed message out again.
Spec == Init /\ [][Next]_vars /\ WF_vars(Next)

----------------------------------------------------------------------------
\* The retries give a recipient no more copies than answers were lost, and one
\* for the success.
CopiesBounded ==
  \A r \in Group : copies[r] <= lost + (IF pc = "delivered" THEN 1 ELSE 0)

\* A connection that is refused or fails the handshake is closed before the
\* next one, and none outlives the attempt.
OneConnection ==
  /\ open <= 1
  /\ pc \in Ended \cup {"prepare", "wait", "resolve", "connect"} => open = 0

\* "Opportunistic TLS": the text is about to go out in plain only to an MX that
\* did not offer STARTTLS, or whose handshake failed in this attempt.
PlainOnlyIfNeeded ==
  pc \in {"mail", "rcpt", "data", "text"} /\ offered => tls \in {"on", "failed"}

\* The delay of a retry is at most RetryMax, and positive if RetryMax is, for
\* every number of attempts, although base << shift overflows and nobody
\* checks the two settings; for a positive base it is the documented
\* base * 2^(n-1), capped, as long as that product fits a time.Duration.
DelaySound ==
  pc = "wait" =>
    /\ delay <= RetryMax /\ (RetryMax > 0 => 0 < delay)
    /\ RetryBase > 0 /\ RetryBase * 2^(attempts - 1) < 2^(W - 1) =>
         delay = Min({RetryBase * 2^(attempts - 1), RetryMax})

\* What deliverGroup reports is what the MX did, attempt after attempt: it
\* implements what Relay takes it for.  A copy was reported when the attempt
\* that made it returned without an error.
Returned == pc \in {"delivered", "rejected"}
Has(n) == {r \in Group : copies[r] >= n}

GD == INSTANCE GroupDelivery WITH
  Once     <- IsInjective(To),
  stage    <- CASE Returned -> "answered" [] pc = "exhausted" -> "exhausted" [] OTHER -> "open",
  accepted <- Has(1),
  dup      <- Has(2),
  exposed  <- {r \in Has(1) : Returned /\ r \in delivered => r \in Has(2)},
  reported <- [delivered |-> IF Returned THEN delivered ELSE {},
               refused   |-> IF Returned THEN perm ELSE {}]

ImplementsGroupDelivery == GD!Spec

\* Every delivery ends, in spite of MX and resolvers that never answer well.
Ends == <>(pc \in Ended)
============================================================================
