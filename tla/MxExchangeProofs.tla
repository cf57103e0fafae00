-------------------------- MODULE MxExchangeProofs --------------------------
(***************************************************************************)
(* The conversation with an MX, for every group of recipients, every bound *)
(* and every width of a duration: what deliverGroup reports is what the MX *)
(* did, retries add no more copies than answers were lost, connections are *)
(* closed, plain text is a last resort, and the delay of a retry is sound  *)
(* although it is computed with an overflow.                               *)
(***************************************************************************)
EXTENDS MxExchange, SequenceTheorems, TLAPS

\* The places where a connection to the MX is open.
Talking == {"hello", "starttls", "mail", "rcpt", "data", "text"}

\* The places before the first RCPT of an attempt.
Before == {"prepare", "resolve", "connect", "hello", "starttls", "mail"}

\* The recipients of the first n RCPT commands.
Asked(n) == {To[k] : k \in 1..n}

(***************************************************************************)
(* The inductive invariant, part by part.                                  *)
(***************************************************************************)

\* There is an attempt left as long as the delivery runs.
Counted == pc \in Running => attempts < MaxAttempts

\* A connection is open while the MX is talked to and at no other time.
Connected == open = IF pc \in Talking THEN 1 ELSE 0

\* Every recipient that was asked for has its answer.
Answered ==
  /\ pc \in Before => sent = 0 /\ delivered = {} /\ perm = {}
  /\ pc \in {"rcpt", "data", "text"} => delivered \cup perm = Asked(sent)
  /\ pc \in {"data", "text"} => sent = Len(To)

\* What has been reported is what happened.
Reported ==
  pc \in {"delivered", "rejected"} =>
    /\ delivered \cup perm = Group
    /\ \A r \in Group : r \in delivered => copies[r] >= 1
    /\ \A r \in Group : copies[r] >= 1 => r \in delivered \/ lost > 0

\* The delay is the one of the attempt that failed.
Delayed == pc = "wait" => attempts >= 1 /\ delay = Backoff(attempts)

IInv == /\ TypeOK /\ Counted /\ Connected /\ Answered
        /\ PlainOnlyIfNeeded /\ CopiesBounded /\ Reported /\ Delayed

----------------------------------------------------------------------------
(* The envelope and the delays.                                            *)

\* The envelope's positions and its recipients.
LEMMA EnvelopeFacts ==
  /\ Len(To) \in Nat /\ Len(To) > 0
  /\ \A k \in 1..Len(To) : To[k] \in Group
  /\ Asked(0) = {}
  /\ \A n \in 0..Len(To) - 1 : Asked(n + 1) = Asked(n) \cup {To[n + 1]}
  /\ Asked(Len(To)) = Group
<1>1. To \in Seq(Group) /\ To # <<>>
  BY ExchangeAssumption
<1>2. Len(To) \in Nat /\ DOMAIN To = 1..Len(To) /\ Len(To) > 0
  BY <1>1
<1>3. \A k \in 1..Len(To) : To[k] \in Group
  BY <1>2 DEF Group, ToSet
<1>4. Asked(0) = {}
  BY DEF Asked
<1>5. \A n \in 0..Len(To) - 1 : Asked(n + 1) = Asked(n) \cup {To[n + 1]}
  BY <1>2 DEF Asked
<1>6. Asked(Len(To)) = Group
  BY <1>2 DEF Asked, Group, ToSet
<1> QED
  BY <1>2, <1>3, <1>4, <1>5, <1>6

\* What a W-bit integer holds is itself as long as it fits.
LEMMA SignedFits ==
  ASSUME NEW n \in Int
  PROVE  /\ Signed(n) \in Int
         /\ 0 <= n /\ n < 2^(W - 1) => Signed(n) = n
<1> DEFINE h == 2^(W - 1)
<1>1. h \in Int /\ h > 0
  BY ExchangeAssumption
<1>2. Signed(n) = ((n + h) % (2 * h)) - h
  BY DEF Signed
<1> HIDE DEF h
<1>3. (n + h) % (2 * h) \in Int
  BY <1>1
<1>4. ASSUME 0 <= n, n < h PROVE (n + h) % (2 * h) = n + h
  BY <1>1, <1>4
<1> QED
  BY <1>1, <1>2, <1>3, <1>4 DEF h

\* The delay of attempt n.
LEMMA BackoffSound ==
  ASSUME NEW n \in 1..MaxAttempts
  PROVE  /\ Backoff(n) \in Int
         /\ Backoff(n) <= RetryMax /\ (RetryMax > 0 => 0 < Backoff(n))
         /\ RetryBase > 0 /\ RetryBase * 2^(n - 1) < 2^(W - 1) =>
              Backoff(n) = Min({RetryBase * 2^(n - 1), RetryMax})
<1> DEFINE e == Min({n - 1, W - 2})
           p == RetryBase * 2^(n - 1)
<1>0. /\ W \in Nat /\ W > 2 /\ MaxAttempts \in Nat
      /\ RetryMax \in Int /\ RetryBase \in Int
  BY ExchangeAssumption
<1>1. ASSUME NEW a \in Int, NEW b \in Int
      PROVE  Min({a, b}) = IF a <= b THEN a ELSE b
  BY DEF Min
<1>2. e = IF n - 1 <= W - 2 THEN n - 1 ELSE W - 2
  BY <1>0, <1>1
<1>3. e \in Nat
  BY <1>0, <1>2
<1>4. 2^e \in Int /\ 2^(n - 1) \in Int /\ 2^(W - 1) \in Int
  BY <1>0, <1>3
<1>5. Shifted(n) \in Int /\ Shifted(n) = Signed(RetryBase * 2^e)
  <2>1. RetryBase * 2^e \in Int
    BY <1>0, <1>4
  <2> QED
    BY <2>1, SignedFits DEF Shifted
<1>6. Backoff(n) \in Int /\ Backoff(n) <= RetryMax /\ (RetryMax > 0 => 0 < Backoff(n))
  BY <1>0, <1>5 DEF Backoff
<1>7. ASSUME RetryBase > 0, p < 2^(W - 1) PROVE Backoff(n) = Min({p, RetryMax})
  <2>1. 1 <= 2^(n - 1)
    <3>1. 0 \in 0..W + MaxAttempts /\ n - 1 \in 0..W + MaxAttempts /\ 0 <= n - 1
      BY <1>0
    <3>2. 2^0 <= 2^(n - 1)
      BY <3>1, PowersGrow
    <3>3. 2^0 = 1
      OBVIOUS
    <3> QED
      BY <3>2, <3>3
  <2>2. p \in Int /\ p >= 2^(n - 1) /\ p > 0
    BY <1>0, <1>4, <1>7, <2>1
  <2>3. n - 1 <= W - 2
    <3> SUFFICES ASSUME n - 1 >= W - 1 PROVE FALSE
      BY <1>0
    <3>1. 2^(W - 1) <= 2^(n - 1)
      BY <1>0, PowersGrow
    <3> QED
      BY <1>4, <1>7, <2>2, <3>1
  <2>4. e = n - 1
    BY <1>2, <2>3
  <2>5. Shifted(n) = p
    <3> HIDE DEF p
    <3>1. Signed(p) = p
      BY <1>7, <2>2, SignedFits
    <3>2. Shifted(n) = Signed(p)
      BY <1>5, <2>4 DEF p
    <3> QED
      BY <3>1, <3>2
  <2> HIDE DEF p
  <2> QED
    BY <1>0, <1>1, <2>2, <2>5 DEF Backoff
<1> QED
  BY <1>6, <1>7

----------------------------------------------------------------------------
(* The steps.                                                              *)

\* An attempt that fails, whatever the MX did with the message.
LEMMA FailStep ==
  ASSUME IInv, Fail, pc \in Running, perm' \subseteq Group,
         copies' \in [Group -> Nat], lost' \in 0..MaxLost,
         \A r \in Group : copies'[r] <= lost'
  PROVE  IInv'
<1>0. /\ attempts \in Nat /\ attempts < MaxAttempts /\ MaxAttempts \in Nat
      /\ TypeOK
  BY ExchangeAssumption DEF IInv, TypeOK, Counted
<1>1. /\ attempts' = attempts + 1 /\ attempts' \in 1..MaxAttempts
      /\ \/ pc' = "exhausted" /\ delay' = delay
         \/ /\ pc' = "wait" /\ delay' = Backoff(attempts')
            /\ attempts' < MaxAttempts
  BY <1>0 DEF Fail
<1>2. delay' \in Int
  BY <1>0, <1>1, BackoffSound DEF TypeOK
<1>3. TypeOK'
  BY <1>0, <1>1, <1>2 DEF TypeOK, Fail, Running, Ended
<1>4. Counted' /\ Connected' /\ Answered' /\ PlainOnlyIfNeeded' /\ Reported'
  BY <1>1 DEF Counted, Connected, Answered, PlainOnlyIfNeeded, Reported, Fail,
              Running, Talking, Before
<1>5. Delayed'
  BY <1>1 DEF Delayed
<1>6. CopiesBounded'
  BY <1>1, <1>3 DEF CopiesBounded, TypeOK
<1> QED
  BY <1>3, <1>4, <1>5, <1>6 DEF IInv

\* An attempt that ends with a report.
LEMMA ReturnStep ==
  ASSUME IInv, NEW taken, NEW refused, Return(taken, refused),
         taken \subseteq Group, refused \subseteq Group,
         taken \cup refused = Group,
         copies' \in [Group -> Nat], lost' = lost,
         \A r \in Group :
           /\ copies'[r] <= lost + (IF taken # {} THEN 1 ELSE 0)
           /\ r \in taken => copies'[r] >= 1
           /\ copies'[r] >= 1 => r \in taken \/ lost > 0
  PROVE  IInv'
<1>0. TypeOK
  BY DEF IInv
<1>1. /\ taken # {} => pc' = "delivered"
      /\ taken = {} => pc' = "rejected"
      /\ delivered' = taken /\ perm' = refused /\ open' = 0
      /\ UNCHANGED <<attempts, delay, addrs, tls, offered, sent>>
  BY DEF Return
<1>2. pc' \in {"delivered", "rejected"}
  BY <1>1
<1>3. TypeOK'
  BY <1>0, <1>1, <1>2 DEF TypeOK, Ended
<1>4. Counted' /\ Connected' /\ Answered' /\ PlainOnlyIfNeeded' /\ Delayed'
  BY <1>1, <1>2 DEF Counted, Connected, Answered, PlainOnlyIfNeeded, Delayed,
                    Running, Talking, Before
<1>5. Reported'
  BY <1>1 DEF Reported
<1>6. CopiesBounded'
  BY <1>1 DEF CopiesBounded
<1> QED
  BY <1>3, <1>4, <1>5, <1>6 DEF IInv

\* A running delivery that goes on, as far as the copies are concerned.
LEMMA GotoStep ==
  ASSUME IInv, NEW next \in Running \ {"wait"}, pc' = next, pc \in Running,
         UNCHANGED <<attempts, delay, copies, lost>>
  PROVE  Counted' /\ CopiesBounded' /\ Reported' /\ Delayed'
<1>1. Counted'
  BY DEF IInv, Counted
<1>2. CopiesBounded'
  BY DEF IInv, CopiesBounded, Running
<1>3. Reported' /\ Delayed'
  BY DEF Reported, Delayed, Running
<1> QED
  BY <1>1, <1>2, <1>3

\* Nothing was taken that no lost answer accounts for.
LEMMA CopiesSoFar ==
  ASSUME IInv, pc \in Running
  PROVE  /\ copies \in [Group -> Nat] /\ lost \in 0..MaxLost
         /\ \A r \in Group : copies[r] <= lost
BY ExchangeAssumption DEF IInv, TypeOK, CopiesBounded, Running

\* Finding and greeting the MX.
LEMMA GreetStep ==
  ASSUME IInv, PrepareBody \/ ResolveHost \/ Connect \/ Hello \/ StartTLS
  PROVE  IInv'
<1>0. TypeOK /\ MaxAddrs \in Nat /\ MaxAddrs > 0
  BY ExchangeAssumption DEF IInv
<1>1. pc \in Running /\ UNCHANGED <<perm, copies, lost>>
  BY DEF PrepareBody, ResolveHost, Connect, Hello, StartTLS, Running, attempt
<1>2. CASE Fail
  BY <1>0, <1>1, <1>2, CopiesSoFar, FailStep DEF TypeOK
<1>3. ASSUME NEW next \in Running \ {"wait"}, Goto(next),
             TypeOK', Connected', Answered', PlainOnlyIfNeeded'
      PROVE  IInv'
  BY <1>1, <1>3, GotoStep DEF IInv, Goto
<1>4. CASE PrepareBody
  <2>1. Goto("resolve") /\ pc = "prepare" /\ UNCHANGED <<attempt, copies, lost>>
    BY <1>4 DEF PrepareBody
  <2>2. TypeOK'
    BY <1>0, <2>1 DEF TypeOK, attempt, Goto, Running
  <2>3. Connected' /\ Answered' /\ PlainOnlyIfNeeded'
    BY <2>1 DEF IInv, Connected, Answered, PlainOnlyIfNeeded, attempt, Goto,
                Talking, Before
  <2> QED
    BY <1>3, <2>1, <2>2, <2>3 DEF Running
<1>5. CASE ResolveHost /\ ~Fail
  <2>1. /\ Goto("connect") /\ pc = "resolve" /\ addrs' \in 1..MaxAddrs
        /\ UNCHANGED <<open, tls, offered, sent, delivered>>
    BY <1>5 DEF ResolveHost
  <2>2. TypeOK'
    BY <1>0, <1>1, <2>1 DEF TypeOK, Goto, Running
  <2>3. Connected' /\ Answered' /\ PlainOnlyIfNeeded'
    BY <1>1, <2>1 DEF IInv, Connected, Answered, PlainOnlyIfNeeded, Goto,
                Talking, Before
  <2> QED
    BY <1>3, <2>1, <2>2, <2>3 DEF Running
<1>6. CASE Connect /\ ~Fail
  <2>1. /\ pc = "connect" /\ UNCHANGED <<tls, offered, sent, delivered>>
        /\ \/ Goto("hello") /\ open' = open + 1 /\ addrs' = addrs
           \/ Goto("connect") /\ open' = open /\ addrs > 1 /\ addrs' = addrs - 1
    BY <1>6 DEF Connect
  <2>2. TypeOK'
    BY <1>0, <1>1, <2>1 DEF TypeOK, Goto, Running
  <2>3. Connected' /\ Answered' /\ PlainOnlyIfNeeded'
    BY <1>1, <2>1 DEF IInv, Connected, Answered, PlainOnlyIfNeeded, Goto,
                Talking, Before
  <2> QED
    BY <1>3, <2>1, <2>2, <2>3 DEF Running
<1>7. CASE Hello /\ ~Fail
  <2>1. PICK ext \in BOOLEAN :
          /\ pc = "hello" /\ UNCHANGED <<addrs, open, tls, sent, delivered>>
          /\ offered' = ext
          /\ \/ Goto("starttls") /\ tls = "off"
             \/ Goto("mail") /\ (ext => tls # "off")
    BY <1>7 DEF Hello
  <2>2. TypeOK'
    BY <1>0, <1>1, <2>1 DEF TypeOK, Goto, Running
  <2>3. Connected' /\ Answered'
    BY <1>1, <2>1 DEF IInv, Connected, Answered, Goto, Talking, Before
  <2>4. PlainOnlyIfNeeded'
    BY <1>0, <2>1 DEF PlainOnlyIfNeeded, TypeOK, Goto
  <2> QED
    BY <1>3, <2>1, <2>2, <2>3, <2>4 DEF Running
<1>8. CASE StartTLS
  <2>1. /\ pc = "starttls" /\ UNCHANGED <<offered, sent, delivered>>
        /\ \/ Goto("mail") /\ tls' = "on" /\ UNCHANGED <<addrs, open>>
           \/ /\ Goto("connect") /\ tls' = "failed" /\ open' = 0
              /\ addrs' \in 1..MaxAddrs
    BY <1>8 DEF StartTLS
  <2>2. TypeOK'
    BY <1>0, <1>1, <2>1 DEF TypeOK, Goto, Running
  <2>3. Connected' /\ Answered' /\ PlainOnlyIfNeeded'
    BY <1>1, <2>1 DEF IInv, Connected, Answered, PlainOnlyIfNeeded, Goto,
                Talking, Before
  <2> QED
    BY <1>3, <2>1, <2>2, <2>3 DEF Running
<1> QED
  BY <1>2, <1>4, <1>5, <1>6, <1>7, <1>8

\* The commands of the transaction.
LEMMA CommandStep ==
  ASSUME IInv, NEW r \in Reply, Mail(r) \/ Rcpt(r) \/ RcptsDone \/ Data(r)
  PROVE  IInv'
<1>0. /\ TypeOK /\ Len(To) \in Nat
  BY EnvelopeFacts DEF IInv
<1>1. pc \in Running /\ UNCHANGED <<copies, lost>>
  BY DEF Mail, Rcpt, RcptsDone, Data, Running
<1>c. /\ copies \in [Group -> Nat] /\ lost \in 0..MaxLost
      /\ \A x \in Group : copies[x] <= lost
  BY <1>1, CopiesSoFar
<1>2. CASE Fail /\ perm' = perm
  BY <1>0, <1>1, <1>2, <1>c, FailStep DEF TypeOK
<1>3. ASSUME NEW next \in Running \ {"wait"}, Goto(next),
             TypeOK', Connected', Answered', PlainOnlyIfNeeded'
      PROVE  IInv'
  BY <1>1, <1>3, GotoStep DEF IInv, Goto
\* Nobody was given the message.
<1>4. ASSUME NEW refused, Return({}, refused), refused = Group PROVE IInv'
  <2>1. \A x \in Group : copies'[x] = copies[x] /\ copies[x] \in Nat
    BY <1>1, <1>c
  <2>2. lost \in Nat /\ lost' = lost
    BY <1>1, <1>c
  <2>3. \A x \in Group : /\ copies'[x] <= lost + 0
                         /\ copies'[x] >= 1 => lost > 0
    BY <1>c, <2>1, <2>2
  <2> QED
    BY <1>1, <1>4, <1>c, <2>2, <2>3, ReturnStep
<1>5. CASE Mail(r)
  <2>1. CASE Goto("rcpt") /\ UNCHANGED attempt /\ pc = "mail"
    <3>1. TypeOK'
      BY <1>0, <1>1, <2>1 DEF TypeOK, attempt, Goto, Running
    <3>2. Answered'
      BY <2>1, EnvelopeFacts DEF IInv, Answered, attempt, Goto, Before
    <3>3. Connected' /\ PlainOnlyIfNeeded'
      BY <2>1 DEF IInv, Connected, PlainOnlyIfNeeded, attempt, Goto, Talking
    <3> QED
      BY <1>3, <2>1, <3>1, <3>2, <3>3 DEF Running
  <2> QED
    BY <1>2, <1>4, <1>5, <2>1 DEF Mail
<1>6. CASE Rcpt(r) /\ r \in {"ok", "permanent"}
  <2> DEFINE rcp == To[sent + 1]
  <2>1. /\ pc = "rcpt" /\ sent < Len(To) /\ Goto("rcpt") /\ sent' = sent + 1
        /\ \/ delivered' = delivered \cup {rcp} /\ perm' = perm
           \/ delivered' = delivered /\ perm' = perm \cup {rcp}
        /\ UNCHANGED <<addrs, open, tls, offered>>
    BY <1>6 DEF Rcpt
  <2>2. /\ rcp \in Group /\ sent \in 0..Len(To) - 1
        /\ Asked(sent + 1) = Asked(sent) \cup {rcp}
    BY <1>0, <2>1, EnvelopeFacts DEF TypeOK
  <2> HIDE DEF rcp
  <2>3. TypeOK'
    BY <1>0, <1>1, <2>1, <2>2 DEF TypeOK, Goto
  <2>4. Answered'
    BY <2>1, <2>2 DEF IInv, Answered, Goto, Before
  <2>5. Connected' /\ PlainOnlyIfNeeded'
    BY <2>1 DEF IInv, Connected, PlainOnlyIfNeeded, Goto
  <2> QED
    BY <1>3, <2>1, <2>3, <2>4, <2>5 DEF Running
<1>7. CASE RcptsDone
  <2>1. pc = "rcpt" /\ sent = Len(To) /\ delivered \cup perm = Group
    BY <1>7, EnvelopeFacts DEF RcptsDone, IInv, Answered
  <2>2. CASE delivered = {}
    BY <1>4, <1>7, <2>1, <2>2 DEF RcptsDone
  <2>3. CASE delivered # {}
    <3>1. Goto("data") /\ UNCHANGED attempt
      BY <1>7, <2>3 DEF RcptsDone
    <3>2. TypeOK'
      BY <1>0, <1>1, <3>1 DEF TypeOK, attempt, Goto, Running
    <3>3. Answered' /\ Connected' /\ PlainOnlyIfNeeded'
      BY <2>1, <3>1 DEF IInv, Answered, Connected, PlainOnlyIfNeeded, attempt,
                        Goto, Before, Talking
    <3> QED
      BY <1>3, <3>1, <3>2, <3>3 DEF Running
  <2> QED
    BY <2>2, <2>3
<1>8. CASE Data(r)
  <2>1. CASE pc = "data" /\ Goto("text") /\ UNCHANGED attempt
    <3>1. TypeOK'
      BY <1>0, <1>1, <2>1 DEF TypeOK, attempt, Goto, Running
    <3>2. Answered' /\ Connected' /\ PlainOnlyIfNeeded'
      BY <2>1 DEF IInv, Answered, Connected, PlainOnlyIfNeeded, attempt,
                  Goto, Before, Talking
    <3> QED
      BY <1>3, <2>1, <3>1, <3>2 DEF Running
  <2> QED
    BY <1>2, <1>8, <2>1 DEF Data
<1> QED
  BY <1>2, <1>5, <1>6, <1>7, <1>8 DEF Rcpt

\* The text and the final dot.
LEMMA TextStep ==
  ASSUME IInv, NEW r \in Reply, NEW takes \in BOOLEAN, Text(r, takes)
  PROVE  IInv'
<1>0. /\ TypeOK /\ pc = "text" /\ pc \in Running
      /\ delivered \cup perm = Group /\ delivered \subseteq Group
      /\ MaxLost \in Nat /\ perm \subseteq Group
  BY EnvelopeFacts, ExchangeAssumption DEF IInv, Text, Running, Answered, TypeOK
<1>c. /\ copies \in [Group -> Nat] /\ lost \in 0..MaxLost
      /\ \A x \in Group : copies[x] <= lost
  BY <1>0, CopiesSoFar
<1>1. /\ copies' \in [Group -> Nat]
      /\ \A x \in Group : copies'[x] =
           IF takes /\ x \in delivered THEN copies[x] + 1 ELSE copies[x]
  BY <1>c DEF Text, Handed
<1>2. CASE takes /\ Return(delivered, perm) /\ lost' = lost
  <2>1. ASSUME NEW x \in Group
        PROVE  /\ copies'[x] <= lost + (IF delivered # {} THEN 1 ELSE 0)
               /\ x \in delivered => copies'[x] >= 1
               /\ copies'[x] >= 1 => x \in delivered \/ lost > 0
    BY <1>1, <1>2, <1>c
  <2> QED
    BY <1>0, <1>1, <1>2, <2>1, ReturnStep
<1>3. CASE ~takes /\ Return({}, perm \cup delivered) /\ lost' = lost
  <2>1. ASSUME NEW x \in Group
        PROVE  copies'[x] <= lost + 0 /\ (copies'[x] >= 1 => lost > 0)
    BY <1>1, <1>3, <1>c
  <2> QED
    BY <1>0, <1>1, <1>3, <2>1, ReturnStep
<1>4. CASE Fail /\ perm' = perm /\ ~takes /\ lost' = lost
  BY <1>0, <1>1, <1>4, <1>c, FailStep
<1>5. CASE Fail /\ perm' = perm /\ takes /\ lost' = lost + 1 /\ lost' <= MaxLost
  <2>1. lost' \in 0..MaxLost
    BY <1>0, <1>5, <1>c
  <2>2. \A x \in Group : copies'[x] <= lost'
    BY <1>1, <1>5, <1>c
  <2> QED
    BY <1>0, <1>1, <1>5, <2>1, <2>2, FailStep
<1> QED
  BY <1>2, <1>3, <1>4, <1>5 DEF Text

\* The invariant holds before the first attempt.
LEMMA IInvInit == Init => IInv
<1> SUFFICES ASSUME Init PROVE IInv
  OBVIOUS
<1>0. /\ Len(To) \in Nat /\ MaxAttempts \in Nat /\ MaxAddrs \in Nat /\ MaxLost \in Nat
  BY EnvelopeFacts, ExchangeAssumption
<1>1. TypeOK
  <2>1. offered \in BOOLEAN
    BY DEF Init, Fresh
  <2>2. /\ pc = "prepare" /\ attempts = 0 /\ delay = 0
        /\ addrs = 0 /\ open = 0 /\ tls = "off" /\ sent = 0 /\ delivered = {}
        /\ perm = {} /\ copies = [r \in Group |-> 0] /\ lost = 0
    BY DEF Init, Fresh
  <2> QED
    BY <1>0, <2>1, <2>2 DEF TypeOK, Running
<1>2. Counted /\ Connected /\ Answered /\ PlainOnlyIfNeeded /\ Reported /\ Delayed
  BY ExchangeAssumption DEF Init, Fresh, Counted, Connected, Answered,
     PlainOnlyIfNeeded, Reported, Delayed, Talking
<1>3. CopiesBounded
  BY DEF Init, CopiesBounded
<1> QED
  BY <1>1, <1>2, <1>3 DEF IInv

\* Every step of an attempt keeps it.
LEMMA IInvNext == IInv /\ [Next]_vars => IInv'
<1> SUFFICES ASSUME IInv, [Next]_vars PROVE IInv'
  OBVIOUS
<1>1. CASE UNCHANGED vars
  BY <1>1 DEF vars, attempt, IInv, TypeOK, Counted, Connected, Answered,
              PlainOnlyIfNeeded, CopiesBounded, Reported, Delayed
<1>2. CASE Wait
  <2>1. pc = "wait" /\ pc \in Running /\ pc' = "prepare"
    BY <1>2 DEF Wait, Running
  <2>2. TypeOK'
    <3>1. Len(To) \in Nat /\ MaxAddrs \in Nat
      BY EnvelopeFacts, ExchangeAssumption
    <3>2. offered' \in BOOLEAN
      BY <1>2 DEF Wait
    <3>3. /\ addrs' = 0 /\ open' = 0 /\ tls' = "off" /\ sent' = 0
          /\ delivered' = {} /\ perm' = {}
          /\ UNCHANGED <<attempts, delay, copies, lost>>
      BY <1>2 DEF Wait
    <3> QED
      BY <2>1, <3>1, <3>2, <3>3 DEF IInv, TypeOK, Running
  <2>3. Connected' /\ Answered' /\ PlainOnlyIfNeeded'
    BY <1>2 DEF Connected, Answered, PlainOnlyIfNeeded, Wait, Talking
  <2>4. Counted' /\ CopiesBounded' /\ Reported' /\ Delayed'
    BY <1>2, <2>1, GotoStep DEF Wait, Running
  <2> QED
    BY <2>2, <2>3, <2>4 DEF IInv
<1> QED
  BY <1>1, <1>2, GreetStep, CommandStep, TextStep DEF Next, Reply

----------------------------------------------------------------------------
(* The theorems.                                                           *)

\* The inductive invariant holds of the exchange.
THEOREM AlwaysIInv == Spec => []IInv
BY IInvInit, IInvNext, PTL DEF Spec

\* The variables keep their types, the number of attempts its limit.
THEOREM TypeCorrect == Spec => []TypeOK
<1>1. IInv => TypeOK
  BY DEF IInv
<1> QED
  BY <1>1, AlwaysIInv, PTL

\* At most one connection is open, and none outside a conversation.
THEOREM ConnectionsClosed == Spec => []OneConnection
<1>1. IInv => OneConnection
  BY DEF IInv, Connected, OneConnection, Talking, Ended
<1> QED
  BY <1>1, AlwaysIInv, PTL

\* The text goes out in plain only to an MX that did not offer STARTTLS or
\* whose handshake failed.
THEOREM PlainIsLastResort == Spec => []PlainOnlyIfNeeded
<1>1. IInv => PlainOnlyIfNeeded
  BY DEF IInv
<1> QED
  BY <1>1, AlwaysIInv, PTL

\* However often the delivery is retried, a recipient gets no more copies than
\* final answers were lost, and one for the success.
THEOREM RetriesBounded == Spec => []CopiesBounded
<1>1. IInv => CopiesBounded
  BY DEF IInv
<1> QED
  BY <1>1, AlwaysIInv, PTL

\* A delivered recipient has the message, everybody else was refused with a 5xx,
\* and a message that is postponed or given up on may be at the MX only because
\* a final answer was lost.
ReportHonest ==
  /\ pc \in {"delivered", "rejected"} =>
       /\ delivered \cup perm = Group
       /\ \A r \in Group : r \in delivered => copies[r] >= 1
       /\ \A r \in Group : copies[r] >= 1 => r \in delivered \/ lost > 0
  /\ pc \notin {"delivered", "rejected"} /\ lost = 0 =>
       \A r \in Group : copies[r] = 0

\* What deliverGroup reports is what the MX did, in every state.
THEOREM HonestReports == Spec => []ReportHonest
<1>1. IInv => ReportHonest
  <2> SUFFICES ASSUME IInv PROVE ReportHonest
    OBVIOUS
  <2>1. ASSUME pc \notin {"delivered", "rejected"}, lost = 0, NEW r \in Group
        PROVE  copies[r] = 0
    <3>1. copies[r] \in Nat /\ copies[r] <= 0
      BY <2>1 DEF IInv, TypeOK, CopiesBounded
    <3> QED
      BY <3>1
  <2> QED
    BY <2>1 DEF ReportHonest, IInv, Reported
<1> QED
  BY <1>1, AlwaysIInv, PTL

\* The delay before a retry is at most RetryMax, and positive if RetryMax is, for
\* every number of attempts, base and width, although the shift overflows, and
\* it is the documented one whenever that fits and the base is positive.
THEOREM DelaysSound == Spec => []DelaySound
<1>1. IInv => DelaySound
  <2> SUFFICES ASSUME IInv, pc = "wait" PROVE DelaySound
    BY DEF DelaySound
  <2>1. attempts \in 1..MaxAttempts /\ delay = Backoff(attempts)
    BY ExchangeAssumption DEF IInv, TypeOK, Delayed
  <2> QED
    BY <2>1, BackoffSound DEF DelaySound
<1> QED
  BY <1>1, AlwaysIInv, PTL

----------------------------------------------------------------------------
(* What Relay takes deliverGroup for.                                      *)

\* Nobody is both delivered and refused unless the envelope names somebody
\* twice, and the text is sent to somebody.
Sorted ==
  /\ IsInjective(To) => delivered \cap perm = {}
  /\ pc \in {"data", "text"} => delivered # {}

\* The recipient of the next RCPT has not been asked for.
LEMMA NotAskedYet ==
  ASSUME IsInjective(To), NEW n \in 0..Len(To) - 1
  PROVE  To[n + 1] \notin Asked(n)
<1>1. Len(To) \in Nat /\ DOMAIN To = 1..Len(To)
  BY ExchangeAssumption, LenProperties
<1> DEFINE N == Len(To)
<1> HIDE DEF N
<1>2. ASSUME NEW k \in 1..n PROVE To[k] # To[n + 1]
  <2>1. N \in Nat /\ n \in 0..N - 1
    BY <1>1 DEF N
  <2>2. k \in 1..N /\ n + 1 \in 1..N /\ k # n + 1
    BY <2>1
  <2> QED
    BY <1>1, <2>2 DEF IsInjective, N
<1> QED
  BY <1>2 DEF Asked

\* Every step keeps it.
LEMMA SortedNext == IInv /\ Sorted /\ [Next]_vars => Sorted'
<1> SUFFICES ASSUME IInv, Sorted, [Next]_vars PROVE Sorted'
  OBVIOUS
<1>1. CASE Fail /\ UNCHANGED perm
  BY <1>1 DEF Fail, Sorted
<1>2. CASE UNCHANGED <<delivered, perm>> /\ (pc' \in {"data", "text"} => delivered # {})
  BY <1>2 DEF Sorted
<1>3. ASSUME NEW r \in {"ok", "permanent"}, Rcpt(r) PROVE Sorted'
  <2> DEFINE rcp == To[sent + 1]
  <2>1. /\ pc = "rcpt" /\ pc' = "rcpt" /\ sent < Len(To)
        /\ \/ delivered' = delivered \cup {rcp} /\ perm' = perm
           \/ delivered' = delivered /\ perm' = perm \cup {rcp}
    BY <1>3 DEF Rcpt, Goto
  <2>2. delivered \cup perm = Asked(sent) /\ sent \in 0..Len(To)
    BY <2>1 DEF IInv, TypeOK, Answered
  <2>3. sent \in 0..Len(To) - 1
    BY <2>1, <2>2, EnvelopeFacts
  <2>4. IsInjective(To) => rcp \notin Asked(sent)
    BY <2>3, NotAskedYet
  <2> HIDE DEF rcp
  <2> QED
    BY <2>1, <2>2, <2>4 DEF Sorted
<1>4. ASSUME NEW D, NEW R, Return(D, R), D = {} \/ (D = delivered /\ R = perm) PROVE Sorted'
  BY <1>4 DEF Return, Sorted
<1>5. CASE PrepareBody \/ ResolveHost \/ Connect \/ Hello \/ StartTLS
  BY <1>1, <1>2, <1>5 DEF PrepareBody, ResolveHost, Connect, Hello, StartTLS, Goto, attempt
<1>6. ASSUME NEW r \in Reply, Mail(r) PROVE Sorted'
  BY <1>1, <1>2, <1>4, <1>6 DEF Mail, Goto, attempt
<1>7. CASE RcptsDone
  BY <1>2, <1>4, <1>7 DEF RcptsDone, Goto, attempt
<1>8. ASSUME NEW r \in Reply, Data(r) PROVE Sorted'
  BY <1>1, <1>2, <1>8 DEF Data, Goto, attempt, Sorted
<1>9. ASSUME NEW r \in Reply, NEW takes \in BOOLEAN, Text(r, takes) PROVE Sorted'
  BY <1>1, <1>4, <1>9 DEF Text
<1>10. CASE Wait
  BY <1>10 DEF Wait, Sorted
<1>11. CASE UNCHANGED vars
  BY <1>2, <1>11 DEF vars, attempt, Sorted
<1>12. ASSUME NEW r \in Reply, Rcpt(r) PROVE Sorted'
  <2>1. CASE r \in {"ok", "permanent"}
    BY <1>3, <1>12, <2>1
  <2>2. CASE r \notin {"ok", "permanent"}
    BY <1>1, <1>12, <2>2 DEF Rcpt
  <2> QED
    BY <2>1, <2>2
<1> QED
  BY <1>5, <1>6, <1>7, <1>8, <1>9, <1>10, <1>11, <1>12 DEF Next

\* The copies after the MX took the message for A.
Took(A) == copies' = [r \in Group |-> copies[r] + IF r \in A THEN 1 ELSE 0]

\* Who has the message once, and twice.
LEMMA TookHas ==
  ASSUME copies \in [Group -> Nat], NEW A \in SUBSET Group, Took(A)
  PROVE  Has(1)' = Has(1) \cup A /\ Has(2)' = Has(2) \cup (A \cap Has(1))
<1>1. ASSUME NEW r \in Group
      PROVE  /\ copies'[r] >= 1 <=> copies[r] >= 1 \/ r \in A
             /\ copies'[r] >= 2 <=> copies[r] >= 2 \/ (r \in A /\ copies[r] >= 1)
  <2>1. copies[r] \in Nat /\ copies'[r] = copies[r] + IF r \in A THEN 1 ELSE 0
    BY DEF Took
  <2> QED
    BY <2>1
<1> QED
  BY <1>1 DEF Has

\* A failed attempt is a Failed step.
LEMMA FailRefines ==
  ASSUME IInv, pc \in Running, Fail, NEW A \in SUBSET Group, Took(A),
         lost' = IF A = {} THEN lost ELSE lost + 1
  PROVE  GD!Failed(A)
<1>1. Has(1)' = Has(1) \cup A /\ Has(2)' = Has(2) \cup (A \cap Has(1))
  BY TookHas DEF IInv, TypeOK
<1>2. ~Returned /\ pc # "exhausted" /\ ~Returned'
  BY DEF Returned, Running, Fail
<1>3. attempts' = attempts + 1 /\ (pc' = "exhausted" <=> attempts' >= MaxAttempts)
  BY DEF Fail
<1> QED
  BY <1>1, <1>2, <1>3 DEF GD!Failed, GD!Accept

\* An attempt that reports is an Answered step.
LEMMA ReturnRefines ==
  ASSUME IInv, pc \in Running, NEW D \in SUBSET Group, NEW R, Return(D, R),
         D \cup R = Group, IsInjective(To) => D \cap R = {}, Took(D), lost' = lost
  PROVE  GD!Answered(D, R)
<1>1. Has(1)' = Has(1) \cup D /\ Has(2)' = Has(2) \cup (D \cap Has(1))
  BY TookHas DEF IInv, TypeOK
<1>2. ~Returned /\ pc # "exhausted" /\ Returned'
  BY DEF Returned, Running, Return
<1>3. delivered' = D /\ perm' = R /\ attempts' = attempts
  BY DEF Return
<1>4. {r \in Has(1) : Returned /\ r \in delivered => r \in Has(2)}'
        = {r \in Has(1) : Returned /\ r \in delivered => r \in Has(2)}
  <2>1. Has(2) \subseteq Has(1)
    BY DEF Has, IInv, TypeOK
  <2> QED
    BY <1>1, <1>2, <1>3, <2>1
<1>5. [delivered |-> IF Returned THEN delivered ELSE {},
       refused |-> IF Returned THEN perm ELSE {}]' = [delivered |-> D, refused |-> R]
  BY <1>2, <1>3
<1>6. /\ (CASE Returned -> "answered" [] pc = "exhausted" -> "exhausted" [] OTHER -> "open") = "open"
      /\ (CASE Returned -> "answered" [] pc = "exhausted" -> "exhausted" [] OTHER -> "open")'
           = "answered"
  <2>1. Returned' => pc' # "exhausted"
    BY DEF Returned
  <2> QED
    BY <1>2, <2>1
<1> QED
  BY <1>1, <1>3, <1>4, <1>5, <1>6, Zenon DEF GD!Answered, GD!Accept

\* A command that is answered well, or the start of the next attempt, is no step.
LEMMA GoesOn ==
  ASSUME pc \in Running, pc' \in Running, UNCHANGED <<attempts, copies, lost>>
  PROVE  UNCHANGED GD!gdVars
<1>1. ~Returned /\ pc # "exhausted" /\ ~Returned' /\ pc' # "exhausted"
  BY DEF Returned, Running
<1>2. UNCHANGED <<Has(1), Has(2)>>
  BY DEF Has
<1> QED
  BY <1>1, <1>2 DEF GD!gdVars

\* Every step of the exchange is a step of GroupDelivery or none.
LEMMA RefineNext == IInv /\ Sorted /\ [Next]_vars => [GD!Next]_GD!gdVars
<1> SUFFICES ASSUME IInv, Sorted, [Next]_vars PROVE [GD!Next]_GD!gdVars
  OBVIOUS
<1>0. copies \in [Group -> Nat] /\ delivered \in SUBSET Group /\ perm \in SUBSET Group
  BY DEF IInv, TypeOK
<1>1. UNCHANGED copies => Took({})
  BY <1>0 DEF Took
<1>2. CASE pc \in Running /\ Fail /\ UNCHANGED <<copies, lost>>
  BY <1>1, <1>2, FailRefines DEF GD!Next
<1>3. CASE pc \in Running /\ pc' \in Running /\ UNCHANGED <<attempts, copies, lost>>
  BY <1>3, GoesOn
<1>4. CASE UNCHANGED vars
  BY <1>4 DEF vars, attempt, GD!gdVars, Has, Returned
<1>5. CASE PrepareBody \/ ResolveHost \/ Connect \/ Hello \/ StartTLS \/ Wait
  BY <1>2, <1>3, <1>5
  DEF PrepareBody, ResolveHost, Connect, Hello, StartTLS, Wait, Goto, Running
<1>6. ASSUME NEW D \in SUBSET Group, NEW R \in SUBSET Group, pc \in Running, Return(D, R),
             D \cup R = Group, IsInjective(To) => D \cap R = {}, Took(D), lost' = lost
      PROVE  [GD!Next]_GD!gdVars
  BY <1>6, ReturnRefines DEF GD!Next
<1>7. ASSUME NEW r \in Reply, Mail(r) PROVE [GD!Next]_GD!gdVars
  BY <1>1, <1>2, <1>3, <1>6, <1>7 DEF Mail, Goto, Running
<1>8. ASSUME NEW r \in Reply, Rcpt(r) \/ Data(r) PROVE [GD!Next]_GD!gdVars
  BY <1>2, <1>3, <1>8 DEF Rcpt, Data, Goto, Running
<1>9. CASE RcptsDone
  <2>1. delivered = {} => perm = Group
    BY <1>9, EnvelopeFacts DEF RcptsDone, IInv, Answered
  <2> QED
    BY <1>0, <1>1, <1>3, <1>6, <1>9, <2>1 DEF RcptsDone, Goto, Running
<1>10. ASSUME NEW r \in Reply, NEW takes \in BOOLEAN, Text(r, takes)
       PROVE  [GD!Next]_GD!gdVars
  <2>1. /\ pc = "text" /\ pc \in Running /\ delivered # {}
        /\ delivered \cup perm = Group
    BY <1>10, EnvelopeFacts DEF Text, Running, Sorted, IInv, Answered
  <2>2. takes => Took(delivered)
    BY <1>10 DEF Text, Handed, Took
  <2>3. ~takes => Took({})
    BY <1>10 DEF Text, Handed, Took
  <2>4. CASE Return(delivered, perm) /\ takes /\ lost' = lost
    BY <1>0, <1>6, <2>1, <2>2, <2>4 DEF Sorted
  <2>5. CASE Return({}, perm \cup delivered) /\ ~takes /\ lost' = lost
    BY <1>0, <1>6, <2>1, <2>3, <2>5
  <2>6. CASE Fail /\ takes /\ lost' = lost + 1
    BY <1>0, <2>1, <2>2, <2>6, FailRefines DEF GD!Next
  <2>7. CASE Fail /\ ~takes /\ lost' = lost
    BY <2>1, <2>3, <2>7, FailRefines DEF GD!Next
  <2> QED
    BY <1>10, <2>4, <2>5, <2>6, <2>7 DEF Text
<1> QED
  BY <1>4, <1>5, <1>7, <1>8, <1>9, <1>10 DEF Next

\* The conversations with the MX, over all attempts, implement GroupDelivery, the
\* assumption that GroupAnswered and GroupFailed of Relay make of deliverGroup:
\* for every group, envelope and bound.
THEOREM Refinement == Spec => ImplementsGroupDelivery
<1>1. Init => GD!Init
  <2> SUFFICES ASSUME Init PROVE GD!Init
    OBVIOUS
  <2>1. ~Returned /\ pc # "exhausted" /\ attempts = 0 /\ lost = 0
    BY DEF Init, Returned
  <2>2. Has(1) = {} /\ Has(2) = {}
    BY DEF Init, Has
  <2> QED
    BY <2>1, <2>2 DEF GD!Init
<1>2. Init => Sorted
  BY DEF Init, Fresh, Sorted
<1>3. Spec => []Sorted
  BY <1>2, AlwaysIInv, SortedNext, PTL DEF Spec
<1> QED
  BY <1>1, <1>3, AlwaysIInv, RefineNext, PTL DEF Spec, ImplementsGroupDelivery, GD!Spec

----------------------------------------------------------------------------
(* Why a delivery ends: every step uses up something.                      *)

\* The steps an attempt can still take at place p, with a addresses to try, n
\* RCPT commands sent and t for tls: a handshake that fails starts the
\* connection over, once.
LeftAt(p, a, n, t) ==
  LET again == IF t = "off" THEN MaxAddrs + 2 ELSE 0 IN
  CASE p \in Ended     -> 0
    [] p = "text"      -> 1
    [] p = "data"      -> 2
    [] p = "rcpt"      -> 3 + (Len(To) - n)
    [] p = "mail"      -> 4 + Len(To)
    [] p = "starttls"  -> 6 + Len(To) + MaxAddrs
    [] p = "hello"     -> 5 + Len(To) + again
    [] p = "connect"   -> 5 + Len(To) + again + a
    [] p = "resolve"   -> 8 + Len(To) + 2 * MaxAddrs
    [] p = "prepare"   -> 9 + Len(To) + 2 * MaxAddrs
    [] p = "wait"      -> 10 + Len(To) + 2 * MaxAddrs

Left == LeftAt(pc, addrs, sent, tls)

\* Its values.
LEMMA LeftIs ==
  \A a, n, t :
    /\ \A p \in Ended : LeftAt(p, a, n, t) = 0
    /\ LeftAt("text", a, n, t) = 1
    /\ LeftAt("data", a, n, t) = 2
    /\ LeftAt("rcpt", a, n, t) = 3 + (Len(To) - n)
    /\ LeftAt("mail", a, n, t) = 4 + Len(To)
    /\ LeftAt("starttls", a, n, t) = 6 + Len(To) + MaxAddrs
    /\ LeftAt("hello", a, n, t) = 5 + Len(To) + IF t = "off" THEN MaxAddrs + 2 ELSE 0
    /\ LeftAt("connect", a, n, t) = 5 + Len(To) + (IF t = "off" THEN MaxAddrs + 2 ELSE 0) + a
    /\ LeftAt("resolve", a, n, t) = 8 + Len(To) + 2 * MaxAddrs
    /\ LeftAt("prepare", a, n, t) = 9 + Len(To) + 2 * MaxAddrs
    /\ LeftAt("wait", a, n, t) = 10 + Len(To) + 2 * MaxAddrs
<1> TAKE a, n, t
<1>1. \A p \in Ended : LeftAt(p, a, n, t) = 0
  BY DEF LeftAt, Ended
<1>2. /\ LeftAt("text", a, n, t) = 1
      /\ LeftAt("data", a, n, t) = 2
      /\ LeftAt("rcpt", a, n, t) = 3 + (Len(To) - n)
      /\ LeftAt("mail", a, n, t) = 4 + Len(To)
      /\ LeftAt("starttls", a, n, t) = 6 + Len(To) + MaxAddrs
  BY DEF LeftAt, Ended
<1>3. /\ LeftAt("hello", a, n, t) = 5 + Len(To) + IF t = "off" THEN MaxAddrs + 2 ELSE 0
      /\ LeftAt("connect", a, n, t) = 5 + Len(To) + (IF t = "off" THEN MaxAddrs + 2 ELSE 0) + a
  BY DEF LeftAt, Ended
<1>4. /\ LeftAt("resolve", a, n, t) = 8 + Len(To) + 2 * MaxAddrs
      /\ LeftAt("prepare", a, n, t) = 9 + Len(To) + 2 * MaxAddrs
      /\ LeftAt("wait", a, n, t) = 10 + Len(To) + 2 * MaxAddrs
  BY DEF LeftAt, Ended
<1> QED
  BY <1>1, <1>2, <1>3, <1>4

\* connect has an address to try.
Untried == pc = "connect" => addrs >= 1

\* Every step keeps it.
LEMMA UntriedNext == TypeOK /\ Untried /\ [Next]_vars => Untried'
<1> SUFFICES ASSUME TypeOK, Untried, [Next]_vars, pc' = "connect" PROVE addrs' >= 1
  BY DEF Untried
<1>1. addrs \in Nat /\ MaxAddrs \in Nat
  BY ExchangeAssumption DEF TypeOK
<1>2. CASE ResolveHost \/ StartTLS
  BY <1>1, <1>2 DEF ResolveHost, StartTLS, Goto, Fail
<1>3. CASE Connect
  <2>1. pc' # "connect" \/ (addrs > 1 /\ addrs' = addrs - 1)
    <3>1. Fail => pc' # "connect"
      BY DEF Fail
    <3> QED
      BY <1>3, <3>1 DEF Connect, Goto
  <2> QED
    BY <1>1, <2>1
<1>4. CASE UNCHANGED vars
  BY <1>4 DEF vars, attempt, Untried
<1> QED
  BY <1>2, <1>3, <1>4 DEF Next, PrepareBody, Hello, Mail, Rcpt, RcptsDone, Data, Text, Wait,
    Goto, Fail, Return

\* A step fails the attempt or leaves it fewer steps.
Uses == attempts' = attempts + 1 \/ (attempts' = attempts /\ Left' < Left)

\* Every step does.
LEMMA UsesNext == IInv /\ Untried /\ Next => Uses
<1> SUFFICES ASSUME IInv, Untried, Next, ~Fail PROVE attempts' = attempts /\ Left' < Left
  BY DEF Uses, Fail
<1> DEFINE L == Len(To)
           M == MaxAddrs
<1>0. /\ L \in Nat /\ M \in Nat /\ addrs \in 0..M /\ sent \in 0..L
      /\ tls \in {"off", "on", "failed"}
  BY EnvelopeFacts, ExchangeAssumption DEF IInv, TypeOK
<1>1. Left = LeftAt(pc, addrs, sent, tls) /\ Left' = LeftAt(pc', addrs', sent', tls')
  BY DEF Left
<1> HIDE DEF L, M
<1>2. /\ \A a, n, t :
           /\ \A p \in Ended : LeftAt(p, a, n, t) = 0
           /\ LeftAt("text", a, n, t) = 1
           /\ LeftAt("data", a, n, t) = 2
           /\ LeftAt("rcpt", a, n, t) = 3 + (L - n)
           /\ LeftAt("mail", a, n, t) = 4 + L
           /\ LeftAt("starttls", a, n, t) = 6 + L + M
           /\ LeftAt("hello", a, n, t) = 5 + L + IF t = "off" THEN M + 2 ELSE 0
           /\ LeftAt("connect", a, n, t) = 5 + L + (IF t = "off" THEN M + 2 ELSE 0) + a
           /\ LeftAt("resolve", a, n, t) = 8 + L + 2 * M
           /\ LeftAt("prepare", a, n, t) = 9 + L + 2 * M
           /\ LeftAt("wait", a, n, t) = 10 + L + 2 * M
  BY LeftIs DEF L, M
<1>3. CASE PrepareBody
  BY <1>0, <1>1, <1>2, <1>3 DEF PrepareBody, Goto, attempt
<1>4. CASE ResolveHost
  <2>1. pc = "resolve" /\ pc' = "connect" /\ addrs' \in 1..M /\ attempts' = attempts
    BY <1>4 DEF ResolveHost, Goto, M
  <2> QED
    BY <1>0, <1>1, <1>2, <2>1
<1>5. CASE Connect
  <2>1. /\ pc = "connect" /\ attempts' = attempts /\ tls' = tls /\ addrs >= 1
        /\ \/ pc' = "hello"
           \/ pc' = "connect" /\ addrs' = addrs - 1
    BY <1>5 DEF Connect, Goto, Untried
  <2> QED
    BY <1>0, <1>1, <1>2, <2>1
<1>6. CASE Hello
  <2>1. /\ pc = "hello" /\ attempts' = attempts
        /\ \/ pc' = "starttls" /\ tls = "off"
           \/ pc' = "mail"
    BY <1>6 DEF Hello, Goto
  <2> QED
    BY <1>0, <1>1, <1>2, <2>1
<1>7. CASE StartTLS
  <2>1. /\ pc = "starttls" /\ attempts' = attempts
        /\ \/ pc' = "mail"
           \/ pc' = "connect" /\ tls' = "failed" /\ addrs' \in 1..M
    BY <1>7 DEF StartTLS, Goto, M
  <2> QED
    BY <1>0, <1>1, <1>2, <2>1
<1>8. ASSUME NEW D, NEW R, Return(D, R), pc \in {"mail", "rcpt", "text"}
      PROVE  attempts' = attempts /\ Left' < Left
  <2>1. attempts' = attempts /\ pc' \in Ended
    BY <1>8 DEF Return, Ended
  <2> QED
    BY <1>0, <1>1, <1>2, <1>8, <2>1
<1>9. ASSUME NEW r \in Reply, Mail(r) PROVE attempts' = attempts /\ Left' < Left
  <2>1. CASE r = "ok"
    <3>1. pc = "mail" /\ sent = 0 /\ pc' = "rcpt" /\ sent' = sent /\ attempts' = attempts
      BY <1>9, <2>1 DEF Mail, Goto, attempt, IInv, Answered, Before, Return
    <3> QED
      BY <1>0, <1>1, <1>2, <3>1
  <2>2. CASE r # "ok"
    BY <1>8, <1>9, <2>2 DEF Mail
  <2> QED
    BY <2>1, <2>2
<1>10. ASSUME NEW r \in Reply, Rcpt(r) PROVE attempts' = attempts /\ Left' < Left
  <2>1. pc = "rcpt" /\ pc' = "rcpt" /\ sent' = sent + 1 /\ sent < L /\ attempts' = attempts
    BY <1>10 DEF Rcpt, Goto, L
  <2> QED
    BY <1>0, <1>1, <1>2, <2>1
<1>11. CASE RcptsDone
  <2>1. CASE delivered # {}
    <3>1. pc = "rcpt" /\ pc' = "data" /\ attempts' = attempts
      BY <1>11, <2>1 DEF RcptsDone, Goto
    <3> QED
      BY <1>0, <1>1, <1>2, <3>1
  <2>2. CASE delivered = {}
    BY <1>8, <1>11, <2>2 DEF RcptsDone
  <2> QED
    BY <2>1, <2>2
<1>12. ASSUME NEW r \in Reply, Data(r) PROVE attempts' = attempts /\ Left' < Left
  BY <1>1, <1>2, <1>12 DEF Data, Goto
<1>13. ASSUME NEW r \in Reply, NEW takes \in BOOLEAN, Text(r, takes)
       PROVE  attempts' = attempts /\ Left' < Left
  BY <1>8, <1>13 DEF Text
<1>14. CASE Wait
  <2>1. pc = "wait" /\ pc' = "prepare" /\ attempts' = attempts
    BY <1>14 DEF Wait
  <2> QED
    BY <1>0, <1>1, <1>2, <2>1
<1> QED
  BY <1>3, <1>4, <1>5, <1>6, <1>7, <1>9, <1>10, <1>11, <1>12, <1>13, <1>14 DEF Next

\* The steps left are a natural number.
LEMMA LeftType == TypeOK => Left \in Nat
<1> SUFFICES ASSUME TypeOK PROVE Left \in Nat
  OBVIOUS
<1> DEFINE L == Len(To)
           M == MaxAddrs
<1>1. /\ L \in Nat /\ M \in Nat /\ addrs \in 0..M /\ sent \in 0..L
      /\ pc \in Running \cup Ended
  BY EnvelopeFacts, ExchangeAssumption DEF TypeOK
<1>2. L - sent \in Nat
  BY <1>1
<1> HIDE DEF L, M
<1>3. CASE pc \in Ended
  BY <1>3, LeftIs DEF Left
<1>4. CASE pc \in {"text", "data", "mail", "starttls", "resolve", "prepare", "wait"}
  BY <1>1, <1>4, LeftIs DEF Left, L, M
<1>5. CASE pc \in {"rcpt", "hello", "connect"}
  BY <1>1, <1>2, <1>5, LeftIs DEF Left, L, M
<1> QED
  BY <1>1, <1>3, <1>4, <1>5 DEF Running

\* There are no more than MaxAttempts failures, and between two of them every
\* step leaves fewer: no delivery goes on for ever, whatever the MX and the
\* resolver answer.  The other half of Ends, that a delivery that has not ended
\* has a next step, is TLC's.
THEOREM DeliveriesRunOut ==
  Spec => [](attempts \in 0..MaxAttempts /\ Left \in Nat) /\ [][Uses]_vars
<1>1. Init => Untried
  BY DEF Init, Untried
<1>2. IInv => TypeOK /\ attempts \in 0..MaxAttempts
  BY DEF IInv, TypeOK
<1>3. Spec => []Untried
  BY <1>1, <1>2, AlwaysIInv, UntriedNext, PTL DEF Spec
<1>4. Spec => [](attempts \in 0..MaxAttempts /\ Left \in Nat)
  BY <1>2, AlwaysIInv, LeftType, PTL
<1>5. IInv /\ Untried /\ [Next]_vars => [Uses]_vars
  BY UsesNext
<1>6. Spec => [][Uses]_vars
  BY <1>3, <1>5, AlwaysIInv, PTL DEF Spec
<1> QED
  BY <1>4, <1>6, PTL
=============================================================================
