--------------------------- MODULE AccountsProofs ---------------------------
(***************************************************************************)
(* Accounts, for every set of emails, senders, domains, keys and handlers, *)
(* every configuration and any number of requests, stops and failing       *)
(* statements: passwords are exact, lists are unless a PATCH was raced,    *)
(* and the process serves only with its seeds in force.                    *)
(***************************************************************************)
EXTENDS Accounts, TLAPS

----------------------------------------------------------------------------
(* Requests, rows and jobs.                                                *)

\* A request of an operation has the fields of that operation.
LEMMA RequestFields ==
  ASSUME NEW q \in Request
  PROVE  /\ q.op = "post" => q \in Post
         /\ q.op = "patch" => q \in Patch
         /\ q.op = "delete" => q \in Delete
         /\ q.op = "postKey" => q \in PostKey
         /\ q.op = "deleteKey" => q \in DeleteKey
         /\ q.op \in {"post", "patch", "delete", "postKey", "deleteKey"}
  BY DEF Request, Post, Patch, Delete, PostKey, DeleteKey

\* What a job holds depends on where it is.
LEMMA JobFields ==
  ASSUME TypeOK, NEW w \in Worker
  PROVE  /\ job[w] \in Job
         /\ job[w] # Idle => job[w].ask \in Request
         /\ job[w].pc = "idle" => job[w] = Idle
         /\ job[w].pc \in {"idle", "get", "write", "check", "update"}
         /\ job[w].pc \in {"check", "update"} =>
              job[w].ask \in Patch /\ job[w].copy \in SUBSET (Email \cup Sender)
<1>1. job[w] \in Job
  BY DEF TypeOK
<1>2. CASE job[w] = Idle
  BY <1>1, <1>2 DEF Idle
<1>3. CASE job[w] \in [pc : {"get", "write"}, ask : Request]
  BY <1>1, <1>3 DEF Idle
<1>4. CASE job[w] \in [pc : {"check", "update"}, ask : Patch,
                       copy : SUBSET (Email \cup Sender)]
  BY <1>1, <1>4 DEF Idle, Request
<1> QED
  BY <1>1, <1>2, <1>3, <1>4 DEF Job

\* normalizeAllowed gives a list that OwnAddress allows.
LEMMA NormalizedList ==
  ASSUME NEW e \in Email, NEW list \in SUBSET (Email \cup Sender \cup {Blank})
  PROVE  /\ NormalizeAllowed(e, list) \in SUBSET (Email \cup Sender)
         /\ e \in NormalizeAllowed(e, list)
         /\ Blank \notin NormalizeAllowed(e, list)
  BY AccountsAssumption DEF NormalizeAllowed

\* A row with a password is not a missing one.
LEMMA RowIsThere ==
  ASSUME NEW row \in Account
  PROVE  row # NoAccount /\ row.password \in Password
                         /\ row.allowed \in SUBSET (Email \cup Sender)
<1>1. row.password \in Password
  BY DEF Account
<1>2. Omitted \notin Password
  BY AccountsAssumption
<1>3. NoAccount.password = Omitted
  BY DEF NoAccount
<1> QED
  BY <1>1, <1>2, <1>3 DEF Account

\* What a POST asks for is a row, with its own address in the list.
LEMMA AskedRow ==
  ASSUME NEW q \in Post
  PROVE  /\ Asked(q) \in Account /\ Asked(q) # NoAccount
         /\ q.email \in Asked(q).allowed /\ Blank \notin Asked(q).allowed
         /\ q.email \in Email
<1>1. q.email \in Email /\ q.password \in Password
      /\ q.list \in SUBSET (Email \cup Sender \cup {Blank})
  BY DEF Post, Lists
<1>2. /\ NormalizeAllowed(q.email, q.list) \in SUBSET (Email \cup Sender)
      /\ q.email \in NormalizeAllowed(q.email, q.list)
      /\ Blank \notin NormalizeAllowed(q.email, q.list)
  BY <1>1, NormalizedList
<1>3. Asked(q) \in Account /\ Asked(q).allowed = NormalizeAllowed(q.email, q.list)
  BY <1>1, <1>2 DEF Asked, Account
<1> QED
  BY <1>1, <1>2, <1>3, RowIsThere

\* The UPDATE keeps a row a row and a missing one missing.
LEMMA UpdatedRow ==
  ASSUME NEW row \in Account \cup {NoAccount}, NEW p \in Password \cup {Omitted},
         NEW list \in SUBSET (Email \cup Sender)
  PROVE  /\ Updated(row, p, list) \in Account \cup {NoAccount}
         /\ Updated(row, p, list) = NoAccount <=> row = NoAccount
         /\ row # NoAccount => Updated(row, p, list).allowed = list
<1>1. CASE row = NoAccount
  BY <1>1 DEF Updated
<1>2. CASE row # NoAccount
  <2>1. row \in Account
    BY <1>2
  <2>2. row.password \in Password
    BY <2>1, RowIsThere
  <2>3. /\ Updated(row, p, list).allowed = list
        /\ Updated(row, p, list) \in Account
    BY <1>2, <2>2 DEF Updated, Account
  <2> QED
    BY <1>2, <2>3, RowIsThere
<1> QED
  BY <1>1, <1>2

----------------------------------------------------------------------------
(* What every statement of a worker has in common.                         *)

\* A statement keeps the count of failures in its bound.
LEMMA Statements ==
  ASSUME TypeOK, NEW fate \in Fate, Statement(fate)
  PROVE  faults' \in 0..MaxFaults
  BY AccountsAssumption DEF TypeOK, Statement

\* Where After takes the workers and the process.
LEMMA AfterStep ==
  ASSUME AccountsSound, NEW w \in Worker, NEW fate \in Fate, NEW j \in Job,
         job[w] # Idle, After(w, fate, j)
  PROVE  /\ job' \in [Worker -> Job]
         /\ run' \in {"down", "seeding", "serving"}
         /\ next' \in 1..Len(Seeds) + 1
         /\ \A h \in Worker : \/ h = w /\ job'[h] \in {j, Idle}
                              \/ h # w /\ job'[h] \in {job[h], Idle}
         /\ w # Seeder =>
              /\ run' = "serving" /\ next' = next
              /\ job'[Seeder] = Idle
         /\ w = Seeder =>
              /\ run = "seeding" /\ next \in DOMAIN Seeds /\ job[w].ask = Seeds[next]
              /\ \A h \in Handler : job'[h] = Idle
              /\ fate = "ok" =>
                   /\ run' = run /\ job'[w] = j
                   /\ next' = IF j = Idle THEN next + 1 ELSE next
              /\ fate # "ok" => run' = "down" /\ job'[w] = Idle
<1>1. /\ job \in [Worker -> Job] /\ run \in {"down", "seeding", "serving"}
      /\ next \in 1..Len(Seeds) + 1
  BY DEF AccountsSound, TypeOK
<1>2. /\ job[Seeder] # Idle =>
           run = "seeding" /\ next <= Len(Seeds) /\ job[Seeder].ask = Seeds[next]
      /\ run # "serving" => \A h \in Handler : job[h] = Idle
  BY DEF AccountsSound, SeedProgress
<1>3. Idle \in Job /\ Seeder \in Worker /\ Seeder \notin Handler
  BY AccountsAssumption DEF Job, Worker
<1>4. Len(Seeds) \in Nat /\ DOMAIN Seeds = 1..Len(Seeds)
  BY AccountsAssumption
<1>5. CASE w # Seeder
  <2>1. w \in Handler /\ run = "serving" /\ job[Seeder] = Idle
    BY <1>2, <1>5 DEF Worker
  <2>2. /\ job' = [job EXCEPT ![w] = IF fate = "ok" THEN j ELSE Idle]
        /\ run' = run /\ next' = next
    BY <1>5 DEF After, Goto
  <2> QED
    BY <1>1, <1>3, <1>5, <2>1, <2>2
<1>6. CASE w = Seeder
  <2>1. run = "seeding" /\ next \in DOMAIN Seeds /\ job[w].ask = Seeds[next]
    BY <1>1, <1>2, <1>4, <1>6
  <2>2. \A h \in Handler : job[h] = Idle /\ h # w /\ h \in Worker
    BY <1>2, <1>3, <1>6, <2>1 DEF Worker
  <2>3. CASE fate = "ok"
    <3>1. /\ job' = [job EXCEPT ![w] = j] /\ run' = run
          /\ next' = IF j = Idle THEN next + 1 ELSE next
      BY <1>6, <2>3 DEF After
    <3> QED
      BY <1>1, <1>3, <1>4, <1>6, <2>1, <2>2, <2>3, <3>1
  <2>4. CASE fate # "ok"
    <3>1. job' = [x \in Worker |-> Idle] /\ run' = "down" /\ next' = next
      BY <1>6, <2>4 DEF After
    <3> QED
      BY <1>1, <1>3, <1>6, <2>1, <2>2, <2>4, <3>1
  <2> QED
    BY <2>3, <2>4
<1> QED
  BY <1>5, <1>6

\* InForce, of the tables given.
Holds(acc, keys, q) ==
  IF q.op = "post" THEN acc[q.email] = Asked(q) ELSE keys[q.domain] = q.key

\* Seeding advances past an entry only when the entry is in force.
LEMMA SeedKept ==
  ASSUME AccountsSound, NEW w \in Worker, NEW fate \in Fate, NEW j \in Job,
         job[w] # Idle, After(w, fate, j),
         j # Idle => j.ask = job[w].ask,
         w = Seeder /\ fate = "ok" =>
           /\ \A i \in DOMAIN Seeds : i < next => Holds(accounts', dkim', Seeds[i])
           /\ j = Idle => Holds(accounts', dkim', Seeds[next])
  PROVE  SeedProgress'
<1>1. /\ w # Seeder => run' = "serving" /\ job'[Seeder] = Idle
      /\ w = Seeder =>
           /\ next \in DOMAIN Seeds /\ job[w].ask = Seeds[next]
           /\ \A h \in Handler : job'[h] = Idle
           /\ fate = "ok" =>
                /\ run' = run /\ run = "seeding" /\ job'[w] = j
                /\ next' = IF j = Idle THEN next + 1 ELSE next
           /\ fate # "ok" => run' = "down" /\ job'[w] = Idle
  BY AfterStep
<1>2. Len(Seeds) \in Nat /\ DOMAIN Seeds = 1..Len(Seeds)
  BY AccountsAssumption
<1>3. CASE w # Seeder
  BY <1>1, <1>3 DEF SeedProgress
<1>4. CASE w = Seeder /\ fate # "ok"
  BY <1>1, <1>4 DEF SeedProgress
<1>5. CASE w = Seeder /\ fate = "ok"
  <2>1. job'[Seeder] # Idle =>
          run' = "seeding" /\ next' <= Len(Seeds) /\ job'[Seeder].ask = Seeds[next']
    BY <1>1, <1>2, <1>5
  <2>2. \A i \in DOMAIN Seeds : i < next' => Holds(accounts', dkim', Seeds[i])
    <3>1. CASE j = Idle
      <4>1. next' = next + 1 /\ next \in Int
        BY <1>1, <1>2, <1>5, <3>1
      <4>2. \A i \in DOMAIN Seeds : i < next' => i < next \/ i = next
        BY <1>2, <4>1
      <4> QED
        BY <1>5, <3>1, <4>2
    <3>2. CASE j # Idle
      BY <1>1, <1>5, <3>2
    <3> QED
      BY <3>1, <3>2
  <2>3. \A i \in DOMAIN Seeds : i < next' => InForce(Seeds[i])'
    BY <2>2 DEF InForce, Holds, Asked, NormalizeAllowed
  <2> QED
    BY <1>1, <1>5, <2>1, <2>3 DEF SeedProgress
<1> QED
  BY <1>3, <1>4, <1>5

\* A statement that leaves the tables alone.
LEMMA QuietStep ==
  ASSUME AccountsSound, NEW w \in Worker, NEW fate \in Fate, NEW j \in Job,
         job[w] # Idle, Statement(fate), After(w, fate, j),
         UNCHANGED <<accounts, dkim, ideal, requests, stops>>,
         j # Idle => j.ask = job[w].ask,
         w = Seeder /\ fate = "ok" /\ j = Idle => InForce(job[w].ask),
         j.pc \in {"check", "update"} =>
           LET q == j.ask IN
           /\ q.email \in j.copy /\ Blank \notin j.copy
           /\ q.list # Keep => j.copy = NormalizeAllowed(q.email, q.list)
           /\ q.list = Keep /\ q.email \notin raced =>
                j.copy = accounts[q.email].allowed
  PROVE  AccountsSound'
<1>1. /\ accounts' = accounts /\ dkim' = dkim /\ meant' = meant /\ raced' = raced
      /\ requests' = requests /\ stops' = stops
  BY DEF ideal
<1>2. /\ job' \in [Worker -> Job] /\ run' \in {"down", "seeding", "serving"}
      /\ next' \in 1..Len(Seeds) + 1
      /\ \A h \in Worker : job'[h] \in {j, job[h], Idle}
      /\ w = Seeder => run = "seeding" /\ job[w].ask = Seeds[next]
  BY AfterStep
<1>3. TypeOK'
  BY <1>1, <1>2, Statements DEF AccountsSound, TypeOK
<1>4. OwnAddress' /\ PasswordsAsMeant' /\ ExactUnlessRaced'
  BY <1>1 DEF AccountsSound, OwnAddress, PasswordsAsMeant, ExactUnlessRaced
<1>5. CopyFresh'
  <2> SUFFICES ASSUME NEW h \in Worker, job'[h].pc \in {"check", "update"}
               PROVE  LET q == job'[h].ask IN
                      /\ q.email \in job'[h].copy /\ Blank \notin job'[h].copy
                      /\ q.list # Keep =>
                           job'[h].copy = NormalizeAllowed(q.email, q.list)
                      /\ q.list = Keep /\ q.email \notin raced' =>
                           job'[h].copy = accounts'[q.email].allowed
    BY DEF CopyFresh, NormalizeAllowed
  <2>1. job'[h] # Idle
    BY DEF Idle
  <2>2. CASE job'[h] = job[h]
    BY <1>1, <2>2 DEF AccountsSound, CopyFresh
  <2>3. CASE job'[h] = j
    BY <1>1, <2>3
  <2> QED
    BY <1>2, <2>1, <2>2, <2>3
<1>6. \A q : InForce(q) <=> Holds(accounts', dkim', q)
  BY <1>1 DEF InForce, Holds
<1>7. w = Seeder => \A i \in DOMAIN Seeds : i < next => InForce(Seeds[i])
  BY <1>2 DEF AccountsSound, SeedProgress
<1>8. w = Seeder /\ fate = "ok" =>
        /\ \A i \in DOMAIN Seeds : i < next => Holds(accounts', dkim', Seeds[i])
        /\ j = Idle => Holds(accounts', dkim', Seeds[next])
  BY <1>2, <1>6, <1>7
<1>9. SeedProgress'
  BY <1>8, SeedKept
<1> QED
  BY <1>3, <1>4, <1>5, <1>9 DEF AccountsSound

\* Two seeds that name the same account or key are the same.
LEMMA SeedFields ==
  ASSUME NEW i \in DOMAIN Seeds
  PROVE  /\ Seeds[i].op \in {"post", "postKey"}
         /\ Seeds[i].op = "post" => Seeds[i] \in Post
         /\ Seeds[i].op = "postKey" => Seeds[i] \in PostKey
         /\ \A k \in DOMAIN Seeds :
              /\ Seeds[i].op = "post" /\ Seeds[k].op = "post"
                 /\ Seeds[i].email = Seeds[k].email => i = k
              /\ Seeds[i].op = "postKey" /\ Seeds[k].op = "postKey"
                 /\ Seeds[i].domain = Seeds[k].domain => i = k
<1>1. Seeds[i] \in Post \cup PostKey
  BY AccountsAssumption
<1>2. Seeds[i] \in Post => Seeds[i].op = "post"
  BY DEF Post
<1>3. Seeds[i] \in PostKey => Seeds[i].op = "postKey"
  BY DEF PostKey
<1>4. \A k \in DOMAIN Seeds :
        Seeds[i].op = Seeds[k].op /\ Named(Seeds[i]) = Named(Seeds[k]) => i = k
  BY AccountsAssumption
<1> QED
  BY <1>1, <1>2, <1>3, <1>4 DEF Named

\* A statement that failed without effect and ends the request.
LEMMA FailedStep ==
  ASSUME AccountsSound, NEW w \in Worker, NEW fate \in Fate, fate = "failed",
         job[w] # Idle, Statement(fate), After(w, fate, Idle),
         UNCHANGED <<accounts, dkim, ideal, requests, stops>>
  PROVE  AccountsSound'
<1>1. Idle \in Job /\ Idle.pc = "idle"
  BY DEF Job, Idle
<1> QED
  BY <1>1, QuietStep

\* A statement that writes the accounts and ends the request.
LEMMA WriteStep ==
  ASSUME AccountsSound, NEW w \in Worker, NEW fate \in Fate,
         NEW row \in Account \cup {NoAccount},
         NEW wanted \in Account \cup {NoAccount},
         job[w] # Idle, job[w].ask.email \in Email,
         Statement(fate), Write(w, row, wanted, fate), After(w, fate, Idle),
         UNCHANGED <<dkim, requests, stops>>,
         row # NoAccount =>
           job[w].ask.email \in row.allowed /\ Blank \notin row.allowed,
         row = NoAccount <=> wanted = NoAccount,
         row.password = wanted.password,
         job[w].ask.email \notin raced => row = wanted,
         w = Seeder => job[w].ask.op = "post" /\ row = Asked(job[w].ask)
  PROVE  AccountsSound'
<1> DEFINE email == job[w].ask.email
<1>1. CASE fate = "failed"
  <2>1. UNCHANGED <<accounts, ideal>>
    BY <1>1 DEF Write
  <2> QED
    BY <1>1, <2>1, FailedStep
<1>2. CASE fate # "failed"
  <2>1. /\ accounts' = [accounts EXCEPT ![email] = row]
        /\ meant' = [meant EXCEPT ![email] = wanted]
        /\ raced' = IF UnderWay(w, email) = {} THEN raced ELSE raced \cup {email}
        /\ dkim' = dkim /\ requests' = requests /\ stops' = stops
    BY <1>2 DEF Write
  <2>2. /\ accounts \in [Email -> Account \cup {NoAccount}]
        /\ meant \in [Email -> Account \cup {NoAccount}]
        /\ raced \subseteq Email /\ TypeOK
    BY DEF AccountsSound, TypeOK
  <2>3. Idle \in Job /\ Idle.pc = "idle"
    BY DEF Job, Idle
  <2>4. /\ job' \in [Worker -> Job] /\ run' \in {"down", "seeding", "serving"}
        /\ next' \in 1..Len(Seeds) + 1
        /\ \A h \in Worker : \/ h = w /\ job'[h] = Idle
                             \/ h # w /\ job'[h] \in {job[h], Idle}
        /\ w = Seeder => /\ run = "seeding" /\ job[w].ask = Seeds[next]
                         /\ next \in DOMAIN Seeds
    BY <2>3, AfterStep
  <2>5. TypeOK'
    BY <2>1, <2>2, <2>4, Statements DEF TypeOK
  <2>6. /\ accounts'[email] = row /\ meant'[email] = wanted
        /\ \A e \in Email : e # email =>
             accounts'[e] = accounts[e] /\ meant'[e] = meant[e]
        /\ raced \subseteq raced'
    BY <2>1, <2>2
  <2>7. OwnAddress'
    BY <2>6 DEF AccountsSound, OwnAddress
  <2>8. PasswordsAsMeant'
    BY <2>6 DEF AccountsSound, PasswordsAsMeant
  <2>9. ExactUnlessRaced'
    BY <2>6 DEF AccountsSound, ExactUnlessRaced
  <2>10. CopyFresh'
    <3> SUFFICES ASSUME NEW h \in Worker, job'[h].pc \in {"check", "update"}
                 PROVE  LET q == job'[h].ask IN
                        /\ q.email \in job'[h].copy /\ Blank \notin job'[h].copy
                        /\ q.list # Keep =>
                             job'[h].copy = NormalizeAllowed(q.email, q.list)
                        /\ q.list = Keep /\ q.email \notin raced' =>
                             job'[h].copy = accounts'[q.email].allowed
      BY DEF CopyFresh, NormalizeAllowed
    <3>1. job'[h] = job[h] /\ h # w
      BY <2>3, <2>4
    <3>2. job[h].ask \in Patch
      BY <2>2, <3>1, JobFields
    <3>3. job[h].ask.email \in Email
      BY <3>2 DEF Patch
    <3>4. job[h].ask.email = email => email \in raced'
      <4>1. SUFFICES ASSUME job[h].ask.email = email
                     PROVE  email \in raced'
        OBVIOUS
      <4>2. h \in UnderWay(w, email)
        BY <3>1, <4>1 DEF UnderWay
      <4> QED
        BY <2>1, <4>2
    <3>5. LET q == job[h].ask IN
          /\ q.email \in job[h].copy /\ Blank \notin job[h].copy
          /\ q.list # Keep => job[h].copy = NormalizeAllowed(q.email, q.list)
          /\ q.list = Keep /\ q.email \notin raced =>
               job[h].copy = accounts[q.email].allowed
      BY <3>1 DEF AccountsSound, CopyFresh
    <3> QED
      BY <2>6, <3>1, <3>3, <3>4, <3>5
  <2>11. w = Seeder =>
           /\ \A i \in DOMAIN Seeds : i < next => Holds(accounts', dkim', Seeds[i])
           /\ Holds(accounts', dkim', Seeds[next])
    <3> SUFFICES ASSUME w = Seeder
                 PROVE  /\ \A i \in DOMAIN Seeds :
                             i < next => Holds(accounts', dkim', Seeds[i])
                        /\ Holds(accounts', dkim', Seeds[next])
      OBVIOUS
    <3>1. next \in DOMAIN Seeds /\ next \in Int /\ run = "seeding"
          /\ job[w].ask = Seeds[next] /\ Seeds[next].op = "post"
      BY <2>2, <2>4, AccountsAssumption DEF TypeOK
    <3>2. Holds(accounts', dkim', Seeds[next])
      BY <2>6, <3>1 DEF Holds
    <3>3. ASSUME NEW i \in DOMAIN Seeds, i < next
          PROVE  Holds(accounts', dkim', Seeds[i])
      <4>1. InForce(Seeds[i])
        BY <3>1, <3>3 DEF AccountsSound, SeedProgress
      <4>2. i # next
        BY <3>1, <3>3
      <4>3. CASE Seeds[i].op = "post"
        <5>1. Seeds[i].email # email /\ Seeds[i].email \in Email
          BY <3>1, <4>2, <4>3, SeedFields, AskedRow
        <5> QED
          BY <2>6, <4>1, <4>3, <5>1 DEF InForce, Holds
      <4>4. CASE Seeds[i].op # "post"
        BY <2>1, <4>1, <4>4 DEF InForce, Holds
      <4> QED
        BY <4>3, <4>4
    <3> QED
      BY <3>2, <3>3
  <2>12. SeedProgress'
    BY <2>3, <2>11, SeedKept
  <2> QED
    BY <2>5, <2>7, <2>8, <2>9, <2>10, <2>12 DEF AccountsSound
<1> QED
  BY <1>1, <1>2

\* A statement that writes the keys and ends the request.
LEMMA KeyStep ==
  ASSUME AccountsSound, NEW w \in Worker, NEW fate \in Fate,
         NEW key \in Key \cup {NoKey},
         job[w] # Idle, job[w].ask.domain \in Domain,
         Statement(fate), After(w, fate, Idle),
         dkim' = IF fate = "failed" THEN dkim
                 ELSE [dkim EXCEPT ![job[w].ask.domain] = key],
         UNCHANGED <<accounts, ideal, requests, stops>>,
         w = Seeder => job[w].ask.op = "postKey" /\ key = job[w].ask.key
  PROVE  AccountsSound'
<1> DEFINE domain == job[w].ask.domain
<1>1. CASE fate = "failed"
  BY <1>1, FailedStep
<1>2. CASE fate # "failed"
  <2>1. /\ accounts' = accounts /\ meant' = meant /\ raced' = raced
        /\ requests' = requests /\ stops' = stops
        /\ dkim' = [dkim EXCEPT ![domain] = key]
    BY <1>2 DEF ideal
  <2>2. dkim \in [Domain -> Key \cup {NoKey}] /\ TypeOK
    BY DEF AccountsSound, TypeOK
  <2>3. Idle \in Job /\ Idle.pc = "idle"
    BY DEF Job, Idle
  <2>4. /\ job' \in [Worker -> Job] /\ run' \in {"down", "seeding", "serving"}
        /\ next' \in 1..Len(Seeds) + 1
        /\ \A h \in Worker : job'[h] \in {job[h], Idle}
        /\ w = Seeder => /\ run = "seeding" /\ job[w].ask = Seeds[next]
                         /\ next \in DOMAIN Seeds
    BY <2>3, AfterStep
  <2>5. TypeOK'
    BY <2>1, <2>2, <2>4, Statements DEF TypeOK
  <2>6. /\ dkim'[domain] = key
        /\ \A d \in Domain : d # domain => dkim'[d] = dkim[d]
    BY <2>1, <2>2
  <2>7. OwnAddress' /\ PasswordsAsMeant' /\ ExactUnlessRaced'
    BY <2>1 DEF AccountsSound, OwnAddress, PasswordsAsMeant, ExactUnlessRaced
  <2>8. CopyFresh'
    <3> SUFFICES ASSUME NEW h \in Worker, job'[h].pc \in {"check", "update"}
                 PROVE  LET q == job'[h].ask IN
                        /\ q.email \in job'[h].copy /\ Blank \notin job'[h].copy
                        /\ q.list # Keep =>
                             job'[h].copy = NormalizeAllowed(q.email, q.list)
                        /\ q.list = Keep /\ q.email \notin raced' =>
                             job'[h].copy = accounts'[q.email].allowed
      BY DEF CopyFresh, NormalizeAllowed
    <3>1. job'[h] = job[h]
      BY <2>3, <2>4
    <3> QED
      BY <2>1, <3>1 DEF AccountsSound, CopyFresh
  <2>9. w = Seeder =>
          /\ \A i \in DOMAIN Seeds : i < next => Holds(accounts', dkim', Seeds[i])
          /\ Holds(accounts', dkim', Seeds[next])
    <3> SUFFICES ASSUME w = Seeder
                 PROVE  /\ \A i \in DOMAIN Seeds :
                             i < next => Holds(accounts', dkim', Seeds[i])
                        /\ Holds(accounts', dkim', Seeds[next])
      OBVIOUS
    <3>1. next \in DOMAIN Seeds /\ next \in Int /\ run = "seeding"
          /\ job[w].ask = Seeds[next] /\ Seeds[next].op = "postKey"
      BY <2>2, <2>4, AccountsAssumption DEF TypeOK
    <3>2. Holds(accounts', dkim', Seeds[next])
      BY <2>6, <3>1 DEF Holds
    <3>3. ASSUME NEW i \in DOMAIN Seeds, i < next
          PROVE  Holds(accounts', dkim', Seeds[i])
      <4>1. InForce(Seeds[i])
        BY <3>1, <3>3 DEF AccountsSound, SeedProgress
      <4>2. i # next
        BY <3>1, <3>3
      <4>3. CASE Seeds[i].op = "postKey"
        <5>1. Seeds[i].domain # domain
          BY <3>1, <4>2, <4>3, SeedFields
        <5>2. Seeds[i].domain \in Domain
          BY <4>3, SeedFields DEF PostKey
        <5> QED
          BY <2>6, <4>1, <4>3, <5>1, <5>2 DEF InForce, Holds
      <4>4. CASE Seeds[i].op = "post"
        BY <2>1, <4>1, <4>4 DEF InForce, Holds
      <4> QED
        BY <4>3, <4>4, SeedFields
    <3> QED
      BY <3>2, <3>3
  <2>10. SeedProgress'
    BY <2>3, <2>9, SeedKept
  <2> QED
    BY <2>5, <2>7, <2>8, <2>10 DEF AccountsSound
<1> QED
  BY <1>1, <1>2

----------------------------------------------------------------------------
(* The actions.                                                            *)

\* A worker at a statement has a request, of the operation the statement is
\* of; the seeder has only upserts.
LEMMA AtStatement ==
  ASSUME AccountsSound, NEW w \in Worker, NEW op, NEW pc, At(w, op, pc),
         pc \in {"get", "write", "check", "update"}
  PROVE  /\ job[w] # Idle /\ job[w].ask \in Request
         /\ job[w].pc = pc /\ job[w].ask.op = op
         /\ w = Seeder => op \in {"post", "postKey"}
<1>1. job[w].pc = pc /\ job[w].ask.op = op
  BY DEF At
<1>2. job[w] # Idle
  BY <1>1 DEF Idle
<1>3. job[w].ask \in Request
  BY <1>2, JobFields DEF AccountsSound
<1>4. ASSUME w = Seeder
      PROVE  op \in {"post", "postKey"}
  <2>1. next <= Len(Seeds) /\ job[w].ask = Seeds[next] /\ next \in 1..Len(Seeds) + 1
    BY <1>2, <1>4 DEF AccountsSound, SeedProgress, TypeOK
  <2>2. next \in DOMAIN Seeds
    BY <2>1, AccountsAssumption
  <2> QED
    BY <1>1, <2>1, <2>2, SeedFields
<1> QED
  BY <1>1, <1>2, <1>3, <1>4

\* The jobs that the statements go to.
LEMMA JobForms ==
  /\ Idle \in Job /\ Idle.pc = "idle"
  /\ \A q \in Request : LET j == [pc |-> "write", ask |-> q] IN
       j \in Job /\ j # Idle /\ j.ask = q /\ j.pc = "write"
  /\ \A q \in Request : LET j == [pc |-> "get", ask |-> q] IN
       j \in Job /\ j # Idle /\ j.ask = q /\ j.pc = "get"
  /\ \A q \in Patch, c \in SUBSET (Email \cup Sender) :
       LET j == [pc |-> "check", ask |-> q, copy |-> c] IN
       j \in Job /\ j # Idle /\ j.ask = q /\ j.pc = "check" /\ j.copy = c
  BY DEF Job, Idle

\* UpsertAccounts' read of the row keeps the invariant.
LEMMA UpsertGetKeeps ==
  ASSUME AccountsSound, NEW w \in Worker, NEW fate \in Fate, UpsertGet(w, fate)
  PROVE  AccountsSound'
<1> DEFINE q == job[w].ask
           j == [pc |-> "write", ask |-> q]
<1>1. /\ At(w, "post", "get") /\ Statement(fate)
      /\ UNCHANGED <<accounts, dkim, ideal, requests, stops>>
      /\ \/ accounts[q.email] = Asked(q) /\ After(w, fate, Idle)
         \/ After(w, fate, j)
  BY DEF UpsertGet
<1>2. job[w] # Idle /\ q \in Request /\ q.op = "post"
  BY <1>1, AtStatement
<1>3. /\ Idle \in Job /\ Idle.pc = "idle"
      /\ j \in Job /\ j # Idle /\ j.ask = q /\ j.pc = "write"
  BY <1>2, JobForms
<1>4. CASE accounts[q.email] = Asked(q) /\ After(w, fate, Idle)
  <2>1. InForce(q)
    BY <1>2, <1>4 DEF InForce
  <2> QED
    BY <1>1, <1>2, <1>3, <1>4, <2>1, QuietStep
<1>5. CASE After(w, fate, j)
  <2> HIDE DEF j
  <2> QED
    BY <1>1, <1>2, <1>3, <1>5, QuietStep
<1> QED
  BY <1>1, <1>4, <1>5

\* UpsertDKIM's read of the key keeps the invariant.
LEMMA KeyGetKeeps ==
  ASSUME AccountsSound, NEW w \in Worker, NEW fate \in Fate, KeyGet(w, fate)
  PROVE  AccountsSound'
<1> DEFINE q == job[w].ask
           j == [pc |-> "write", ask |-> q]
<1>1. /\ At(w, "postKey", "get") /\ Statement(fate)
      /\ UNCHANGED <<accounts, dkim, ideal, requests, stops>>
      /\ \/ dkim[q.domain] = q.key /\ After(w, fate, Idle)
         \/ After(w, fate, j)
  BY DEF KeyGet
<1>2. job[w] # Idle /\ q \in Request /\ q.op = "postKey"
  BY <1>1, AtStatement
<1>3. /\ Idle \in Job /\ Idle.pc = "idle"
      /\ j \in Job /\ j # Idle /\ j.ask = q /\ j.pc = "write"
  BY <1>2, JobForms
<1>4. CASE dkim[q.domain] = q.key /\ After(w, fate, Idle)
  <2>1. InForce(q)
    BY <1>2, <1>4 DEF InForce
  <2> QED
    BY <1>1, <1>2, <1>3, <1>4, <2>1, QuietStep
<1>5. CASE After(w, fate, j)
  <2> HIDE DEF j
  <2> QED
    BY <1>1, <1>2, <1>3, <1>5, QuietStep
<1> QED
  BY <1>1, <1>4, <1>5

\* The handler's read keeps it: the copy it takes is fresh.
LEMMA PatchGetKeeps ==
  ASSUME AccountsSound, NEW w \in Worker, NEW fate \in Fate, PatchGet(w, fate)
  PROVE  AccountsSound'
<1> DEFINE q == job[w].ask
           row == accounts[q.email]
           list == IF q.list = Keep THEN row.allowed ELSE q.list
           copy == NormalizeAllowed(q.email, list)
           j == [pc |-> "check", ask |-> q, copy |-> copy]
<1>1. /\ At(w, "patch", "get") /\ Statement(fate)
      /\ UNCHANGED <<accounts, dkim, ideal, requests, stops>>
      /\ \/ After(w, fate, Idle)
         \/ row # NoAccount /\ Blank \notin list /\ After(w, fate, j)
  BY DEF PatchGet
<1>2. job[w] # Idle /\ q \in Patch /\ w # Seeder
  BY <1>1, AtStatement, RequestFields
<1>3. /\ q.email \in Email /\ row \in Account \cup {NoAccount}
      /\ q.list \in Lists \cup {Keep}
  BY <1>2 DEF Patch, AccountsSound, TypeOK
<1>4. CASE After(w, fate, Idle)
  BY <1>1, <1>2, <1>4, JobForms, QuietStep
<1>5. CASE row # NoAccount /\ Blank \notin list /\ After(w, fate, j)
  <2>1. /\ row.allowed \in SUBSET (Email \cup Sender)
        /\ q.email \in row.allowed /\ Blank \notin row.allowed
    BY <1>3, <1>5, RowIsThere DEF AccountsSound, OwnAddress
  <2>2. list \in SUBSET (Email \cup Sender \cup {Blank})
    BY <1>3, <2>1 DEF Lists
  <2>3. /\ copy \in SUBSET (Email \cup Sender)
        /\ q.email \in copy /\ Blank \notin copy
    BY <1>3, <2>2, NormalizedList
  <2>4. q.list = Keep => copy = row.allowed
    BY <2>1 DEF NormalizeAllowed
  <2>5. /\ j \in Job /\ j # Idle /\ j.ask = q /\ j.pc = "check"
        /\ j.copy = copy
    <3> HIDE DEF copy, q
    <3> QED
      BY <1>2, <2>3, JobForms
  <2>6. q.list # Keep => copy = NormalizeAllowed(q.email, q.list)
    OBVIOUS
  <2> HIDE DEF j, copy
  <2> QED
    BY <1>1, <1>2, <1>5, <2>3, <2>4, <2>5, <2>6, QuietStep
<1> QED
  BY <1>1, <1>4, <1>5

\* UpdateAccount's own read keeps it.
LEMMA PatchCheckKeeps ==
  ASSUME AccountsSound, NEW w \in Worker, NEW fate \in Fate, PatchCheck(w, fate)
  PROVE  AccountsSound'
<1> DEFINE j == [job[w] EXCEPT !.pc = "update"]
<1>1. /\ At(w, "patch", "check") /\ Statement(fate)
      /\ UNCHANGED <<accounts, dkim, ideal, requests, stops>>
      /\ After(w, fate, Idle) \/ After(w, fate, j)
  BY DEF PatchCheck
<1>2. job[w] # Idle /\ job[w].pc = "check" /\ w # Seeder
  BY <1>1, AtStatement
<1>3. CASE After(w, fate, Idle)
  BY <1>1, <1>2, <1>3, JobForms, QuietStep
<1>4. CASE After(w, fate, j)
  <2>1. job[w] \in [pc : {"check", "update"}, ask : Patch,
                    copy : SUBSET (Email \cup Sender)]
    BY <1>2, JobFields DEF AccountsSound, Job, Idle
  <2>2. /\ j \in Job /\ j # Idle /\ j.pc = "update"
        /\ j.ask = job[w].ask /\ j.copy = job[w].copy
    BY <2>1 DEF Job, Idle
  <2>3. LET q == job[w].ask IN
        /\ q.email \in job[w].copy /\ Blank \notin job[w].copy
        /\ q.list # Keep => job[w].copy = NormalizeAllowed(q.email, q.list)
        /\ q.list = Keep /\ q.email \notin raced =>
             job[w].copy = accounts[q.email].allowed
    BY <1>2 DEF AccountsSound, CopyFresh
  <2> HIDE DEF j
  <2> QED
    BY <1>1, <1>2, <1>4, <2>2, <2>3, QuietStep
<1> QED
  BY <1>1, <1>3, <1>4

\* The write of an upsert keeps it: any PATCH under way is raced.
LEMMA UpsertWriteKeeps ==
  ASSUME AccountsSound, NEW w \in Worker, NEW fate \in Fate, UpsertWrite(w, fate)
  PROVE  AccountsSound'
<1> DEFINE q == job[w].ask
<1>1. /\ At(w, "post", "write") /\ Statement(fate)
      /\ Write(w, Asked(q), Asked(q), fate) /\ After(w, fate, Idle)
      /\ UNCHANGED <<dkim, requests, stops>>
  BY DEF UpsertWrite
<1>2. job[w] # Idle /\ q \in Post /\ q.op = "post"
  BY <1>1, AtStatement, RequestFields
<1>3. /\ Asked(q) \in Account \cup {NoAccount} /\ q.email \in Email
      /\ q.email \in Asked(q).allowed /\ Blank \notin Asked(q).allowed
  BY <1>2, AskedRow
<1> QED
  BY <1>1, <1>2, <1>3, WriteStep

\* A DELETE keeps it, for the same reason.
LEMMA DeleteAccountKeeps ==
  ASSUME AccountsSound, NEW w \in Worker, NEW fate \in Fate, DeleteAccount(w, fate)
  PROVE  AccountsSound'
<1>1. /\ At(w, "delete", "write") /\ Statement(fate)
      /\ Write(w, NoAccount, NoAccount, fate) /\ After(w, fate, Idle)
      /\ UNCHANGED <<dkim, requests, stops>>
  BY DEF DeleteAccount
<1>2. job[w] # Idle /\ job[w].ask \in Delete /\ w # Seeder
  BY <1>1, AtStatement, RequestFields
<1>3. job[w].ask.email \in Email
  BY <1>2 DEF Delete
<1> QED
  BY <1>1, <1>2, <1>3, WriteStep

\* The UPDATE writes its old copy; the password and whether there is an account
\* come from the row and the request alone.
LEMMA PatchWriteKeeps ==
  ASSUME AccountsSound, NEW w \in Worker, NEW fate \in Fate, PatchWrite(w, fate)
  PROVE  AccountsSound'
<1> DEFINE q == job[w].ask
           old == accounts[q.email]
           best == meant[q.email]
           copy == job[w].copy
           list == IF q.list = Keep THEN best.allowed
                   ELSE NormalizeAllowed(q.email, q.list)
           row == Updated(old, q.password, copy)
           wanted == Updated(best, q.password, list)
<1>1. /\ At(w, "patch", "update") /\ Statement(fate)
      /\ Write(w, row, wanted, fate) /\ After(w, fate, Idle)
      /\ UNCHANGED <<dkim, requests, stops>>
  BY DEF PatchWrite, Edited
<1>2. job[w] # Idle /\ job[w].pc = "update" /\ w # Seeder
  BY <1>1, AtStatement
<1>3. q \in Patch /\ copy \in SUBSET (Email \cup Sender)
  BY <1>2, JobFields DEF AccountsSound
<1>4. /\ q.email \in Email /\ q.password \in Password \cup {Omitted}
      /\ q.list \in Lists \cup {Keep}
  BY <1>3 DEF Patch
<1>5. old \in Account \cup {NoAccount} /\ best \in Account \cup {NoAccount}
  BY <1>4 DEF AccountsSound, TypeOK
<1>6. /\ q.email \in copy /\ Blank \notin copy
      /\ q.list # Keep => copy = NormalizeAllowed(q.email, q.list)
      /\ q.list = Keep /\ q.email \notin raced => copy = old.allowed
  BY <1>2 DEF AccountsSound, CopyFresh
<1>7. /\ old = NoAccount <=> best = NoAccount
      /\ old.password = best.password
      /\ q.email \notin raced => old = best
  BY <1>4 DEF AccountsSound, PasswordsAsMeant, ExactUnlessRaced
<1>8. list \in SUBSET (Email \cup Sender)
  <2>1. best.allowed \in SUBSET (Email \cup Sender)
    BY <1>5, RowIsThere DEF NoAccount
  <2>2. q.list # Keep => NormalizeAllowed(q.email, q.list) \in SUBSET (Email \cup Sender)
    BY <1>4, NormalizedList DEF Lists
  <2> QED
    BY <2>1, <2>2
<1>9. /\ row \in Account \cup {NoAccount}
      /\ row = NoAccount <=> old = NoAccount
      /\ old # NoAccount => row.allowed = copy
  <2> HIDE DEF old, copy, q
  <2> QED
    BY <1>3, <1>4, <1>5, UpdatedRow
<1>10. /\ wanted \in Account \cup {NoAccount}
       /\ wanted = NoAccount <=> best = NoAccount
  <2> HIDE DEF best, list, q
  <2> QED
    BY <1>4, <1>5, <1>8, UpdatedRow
<1>11. row.password = wanted.password
  <2> HIDE DEF old, best, list, copy, q
  <2> QED
    BY <1>7 DEF Updated
<1>12. q.email \notin raced => row = wanted
  <2>1. q.email \notin raced => copy = list /\ old = best
    BY <1>6, <1>7
  <2> QED
    BY <2>1
<1> HIDE DEF row, wanted
<1> QED
  BY <1>1, <1>2, <1>4, <1>6, <1>7, <1>9, <1>10, <1>11, <1>12, WriteStep

\* The write of a key keeps it.
LEMMA KeyWriteKeeps ==
  ASSUME AccountsSound, NEW w \in Worker, NEW fate \in Fate, KeyWrite(w, fate)
  PROVE  AccountsSound'
<1>1. /\ At(w, "postKey", "write") /\ Statement(fate) /\ After(w, fate, Idle)
      /\ dkim' = IF fate = "failed" THEN dkim
                 ELSE [dkim EXCEPT ![job[w].ask.domain] = job[w].ask.key]
      /\ UNCHANGED <<accounts, ideal, requests, stops>>
  BY DEF KeyWrite
<1>2. job[w] # Idle /\ job[w].ask \in PostKey /\ job[w].ask.op = "postKey"
  BY <1>1, AtStatement, RequestFields
<1>3. job[w].ask.domain \in Domain /\ job[w].ask.key \in Key \cup {NoKey}
  BY <1>2 DEF PostKey
<1> QED
  BY <1>1, <1>2, <1>3, KeyStep

\* A deletion of a key keeps it: only a handler deletes, and it runs after seeding.
LEMMA DeleteDKIMKeeps ==
  ASSUME AccountsSound, NEW w \in Worker, NEW fate \in Fate, DeleteDKIM(w, fate)
  PROVE  AccountsSound'
<1>1. /\ At(w, "deleteKey", "write") /\ Statement(fate) /\ After(w, fate, Idle)
      /\ dkim' = IF fate = "failed" THEN dkim
                 ELSE [dkim EXCEPT ![job[w].ask.domain] = NoKey]
      /\ UNCHANGED <<accounts, ideal, requests, stops>>
  BY DEF DeleteDKIM
<1>2. job[w] # Idle /\ job[w].ask \in DeleteKey /\ w # Seeder
  BY <1>1, AtStatement, RequestFields
<1>3. job[w].ask.domain \in Domain
  BY <1>2 DEF DeleteKey
<1> QED
  BY <1>1, <1>2, <1>3, KeyStep

\* A step that leaves the tables and what was meant alone, and gives no worker
\* a copy.
LEMMA TablesKept ==
  ASSUME AccountsSound, UNCHANGED <<accounts, dkim, ideal>>,
         \A h \in Worker : job'[h] = job[h] \/ job'[h].pc \in {"idle", "get", "write"}
  PROVE  /\ OwnAddress' /\ PasswordsAsMeant' /\ ExactUnlessRaced' /\ CopyFresh'
         /\ run = "seeding" =>
              \A i \in DOMAIN Seeds : i < next => InForce(Seeds[i])'
<1>1. accounts' = accounts /\ dkim' = dkim /\ meant' = meant /\ raced' = raced
  BY DEF ideal
<1>2. OwnAddress' /\ PasswordsAsMeant' /\ ExactUnlessRaced'
  BY <1>1 DEF AccountsSound, OwnAddress, PasswordsAsMeant, ExactUnlessRaced
<1>3. CopyFresh'
  <2> SUFFICES ASSUME NEW h \in Worker, job'[h].pc \in {"check", "update"}
               PROVE  LET q == job'[h].ask IN
                      /\ q.email \in job'[h].copy /\ Blank \notin job'[h].copy
                      /\ q.list # Keep =>
                           job'[h].copy = NormalizeAllowed(q.email, q.list)
                      /\ q.list = Keep /\ q.email \notin raced' =>
                           job'[h].copy = accounts'[q.email].allowed
    BY DEF CopyFresh, NormalizeAllowed
  <2>1. job'[h] = job[h]
    OBVIOUS
  <2> QED
    BY <1>1, <2>1 DEF AccountsSound, CopyFresh
<1>4. run = "seeding" => \A i \in DOMAIN Seeds : i < next => InForce(Seeds[i])'
  <2>1. run = "seeding" => \A i \in DOMAIN Seeds : i < next => InForce(Seeds[i])
    BY DEF AccountsSound, SeedProgress
  <2> QED
    BY <1>1, <2>1 DEF InForce, Asked, NormalizeAllowed
<1> QED
  BY <1>2, <1>3, <1>4

\* Begin keeps the invariant: only a process that serves takes requests.
LEMMA BeginKeeps ==
  ASSUME AccountsSound, NEW h \in Handler, NEW q \in Request, Begin(h, q)
  PROVE  AccountsSound'
<1> DEFINE j == [pc |-> IF q.op \in {"delete", "deleteKey"} THEN "write" ELSE "get",
                 ask |-> q]
<1>1. /\ run = "serving" /\ run' = run /\ next' = next
      /\ requests < MaxRequests /\ requests' = requests + 1
      /\ job' = [job EXCEPT ![h] = j]
      /\ UNCHANGED <<accounts, dkim, ideal>> /\ stops' = stops /\ faults' = faults
  BY DEF Begin, Goto
<1>2. j \in Job /\ j.pc \in {"get", "write"}
  BY JobForms
<1>3. TypeOK /\ job \in [Worker -> Job] /\ h \in Worker /\ h # Seeder
      /\ Seeder \in Worker
  BY AccountsAssumption DEF AccountsSound, TypeOK, Worker
<1> HIDE DEF j
<1>4. job' \in [Worker -> Job] /\ \A x \in Worker : job'[x] = IF x = h THEN j ELSE job[x]
  BY <1>1, <1>2, <1>3
<1>5. requests' \in 0..MaxRequests
  BY <1>1, AccountsAssumption DEF AccountsSound, TypeOK
<1>6. TypeOK'
  BY <1>1, <1>3, <1>4, <1>5 DEF TypeOK, ideal
<1>7. OwnAddress' /\ PasswordsAsMeant' /\ ExactUnlessRaced' /\ CopyFresh'
  BY <1>1, <1>2, <1>4, TablesKept
<1>8. SeedProgress'
  BY <1>1, <1>3, <1>4 DEF AccountsSound, SeedProgress
<1> QED
  BY <1>6, <1>7, <1>8 DEF AccountsSound

\* Seed keeps the invariant: it takes up the entry after those in force.
LEMMA SeedKeeps ==
  ASSUME AccountsSound, Seed
  PROVE  AccountsSound'
<1> DEFINE j == [pc |-> "get", ask |-> Seeds[next]]
<1>1. /\ run = "seeding" /\ next' = next
      /\ UNCHANGED <<accounts, dkim, ideal>>
      /\ requests' = requests /\ stops' = stops /\ faults' = faults
      /\ \/ next <= Len(Seeds) /\ job' = [job EXCEPT ![Seeder] = j] /\ run' = run
         \/ run' = "serving" /\ job' = job
      /\ job[Seeder] = Idle
  BY DEF Seed, Goto
<1>2. TypeOK /\ job \in [Worker -> Job] /\ Seeder \in Worker /\ Seeder \notin Handler
      /\ next \in 1..Len(Seeds) + 1 /\ Len(Seeds) \in Nat
  BY AccountsAssumption DEF AccountsSound, TypeOK, Worker
<1>3. \A h \in Handler : job[h] = Idle /\ h \in Worker
  BY <1>1 DEF AccountsSound, SeedProgress, Worker
<1>4. CASE next <= Len(Seeds) /\ job' = [job EXCEPT ![Seeder] = j] /\ run' = run
  <2>1. Seeds[next] \in Request
    BY <1>2, <1>4, AccountsAssumption DEF Request
  <2>2. j \in Job /\ j.pc = "get" /\ j.ask = Seeds[next]
    BY <2>1, JobForms
  <2> HIDE DEF j
  <2>3. job' \in [Worker -> Job]
        /\ \A x \in Worker : job'[x] = IF x = Seeder THEN j ELSE job[x]
    BY <1>2, <1>4, <2>2
  <2>4. TypeOK'
    BY <1>1, <1>2, <1>4, <2>3 DEF TypeOK, ideal
  <2>5. /\ OwnAddress' /\ PasswordsAsMeant' /\ ExactUnlessRaced' /\ CopyFresh'
        /\ \A i \in DOMAIN Seeds : i < next => InForce(Seeds[i])'
    BY <1>1, <2>2, <2>3, TablesKept
  <2>6. SeedProgress'
    BY <1>1, <1>2, <1>3, <1>4, <2>2, <2>3, <2>5 DEF SeedProgress
  <2> QED
    BY <2>4, <2>5, <2>6 DEF AccountsSound
<1>5. CASE run' = "serving" /\ job' = job
  <2>1. TypeOK'
    BY <1>1, <1>2, <1>5 DEF TypeOK, ideal
  <2>2. OwnAddress' /\ PasswordsAsMeant' /\ ExactUnlessRaced' /\ CopyFresh'
    BY <1>1, <1>5, TablesKept
  <2>3. SeedProgress'
    BY <1>1, <1>5 DEF SeedProgress
  <2> QED
    BY <2>1, <2>2, <2>3 DEF AccountsSound
<1> QED
  BY <1>1, <1>4, <1>5

\* Stop keeps the invariant: it ends every job.
LEMMA StopKeeps ==
  ASSUME AccountsSound, Stop
  PROVE  AccountsSound'
<1>1. /\ run' = "down" /\ next' = next /\ job' = [w \in Worker |-> Idle]
      /\ stops < MaxStops /\ stops' = stops + 1
      /\ UNCHANGED <<accounts, dkim, ideal>>
      /\ requests' = requests /\ faults' = faults
  BY DEF Stop
<1>2. Idle \in Job /\ Idle.pc = "idle"
  BY JobForms
<1>3. job' \in [Worker -> Job] /\ \A x \in Worker : job'[x] = Idle
  BY <1>1, <1>2
<1>4. stops' \in 0..MaxStops
  BY <1>1, AccountsAssumption DEF AccountsSound, TypeOK
<1>5. TypeOK'
  BY <1>1, <1>3, <1>4 DEF AccountsSound, TypeOK, ideal
<1>6. OwnAddress' /\ PasswordsAsMeant' /\ ExactUnlessRaced' /\ CopyFresh'
  BY <1>1, <1>2, <1>3, TablesKept
<1>7. SeedProgress'
  BY <1>1, <1>3 DEF SeedProgress, Worker
<1> QED
  BY <1>5, <1>6, <1>7 DEF AccountsSound

\* Start keeps the invariant: seeding begins with nothing passed.
LEMMA StartKeeps ==
  ASSUME AccountsSound, Start
  PROVE  AccountsSound'
<1>1. /\ run = "down" /\ run' = "seeding" /\ next' = 1 /\ job' = job
      /\ UNCHANGED <<accounts, dkim, ideal>>
      /\ requests' = requests /\ stops' = stops /\ faults' = faults
  BY DEF Start
<1>2. Len(Seeds) \in Nat /\ DOMAIN Seeds = 1..Len(Seeds)
  BY AccountsAssumption
<1>3. TypeOK'
  BY <1>1, <1>2 DEF AccountsSound, TypeOK, ideal
<1>4. OwnAddress' /\ PasswordsAsMeant' /\ ExactUnlessRaced' /\ CopyFresh'
  BY <1>1, TablesKept
<1>5. SeedProgress'
  <2>1. job[Seeder] = Idle /\ \A h \in Handler : job[h] = Idle
    BY <1>1 DEF AccountsSound, SeedProgress
  <2>2. \A i \in DOMAIN Seeds : ~(i < 1)
    BY <1>2
  <2> QED
    BY <1>1, <2>1, <2>2 DEF SeedProgress
<1> QED
  BY <1>3, <1>4, <1>5 DEF AccountsSound

----------------------------------------------------------------------------
(* The theorems.                                                           *)

\* The empty tables of a first start satisfy the invariant.
LEMMA InitSound ==
  ASSUME Init
  PROVE  AccountsSound
<1>1. Idle \in Job /\ Idle.pc = "idle"
  BY JobForms
<1>2. Len(Seeds) \in Nat /\ DOMAIN Seeds = 1..Len(Seeds)
  BY AccountsAssumption
<1>3. TypeOK
  BY <1>1, <1>2, AccountsAssumption DEF Init, TypeOK
<1>4. OwnAddress /\ PasswordsAsMeant /\ ExactUnlessRaced
  BY DEF Init, OwnAddress, PasswordsAsMeant, ExactUnlessRaced
<1>5. CopyFresh
  BY <1>1 DEF Init, CopyFresh
<1>6. SeedProgress
  BY <1>2 DEF Init, SeedProgress, Worker
<1> QED
  BY <1>3, <1>4, <1>5, <1>6 DEF AccountsSound

\* Every step keeps the invariant.
LEMMA StepSound ==
  ASSUME AccountsSound, [Next]_vars
  PROVE  AccountsSound'
<1>1. ASSUME NEW h \in Handler, NEW q \in Request, Begin(h, q)
      PROVE  AccountsSound'
  BY <1>1, BeginKeeps
<1>2. ASSUME NEW w \in Worker, WorkerStep(w)
      PROVE  AccountsSound'
  <2> PICK fate \in Fate :
        \/ UpsertGet(w, fate) \/ UpsertWrite(w, fate)
        \/ DeleteAccount(w, fate)
        \/ PatchGet(w, fate) \/ PatchCheck(w, fate) \/ PatchWrite(w, fate)
        \/ KeyGet(w, fate) \/ KeyWrite(w, fate)
        \/ DeleteDKIM(w, fate)
    BY <1>2 DEF WorkerStep
  <2> QED
    BY UpsertGetKeeps, UpsertWriteKeeps, DeleteAccountKeeps, PatchGetKeeps,
       PatchCheckKeeps, PatchWriteKeeps, KeyGetKeeps, KeyWriteKeeps, DeleteDKIMKeeps
<1>3. ASSUME UNCHANGED vars
      PROVE  AccountsSound'
  <2>1. /\ accounts' = accounts /\ dkim' = dkim /\ UNCHANGED ideal
        /\ run' = run /\ next' = next /\ job' = job
        /\ requests' = requests /\ stops' = stops /\ faults' = faults
    BY <1>3 DEF vars
  <2>2. TypeOK'
    BY <2>1 DEF AccountsSound, TypeOK, ideal
  <2>3. /\ OwnAddress' /\ PasswordsAsMeant' /\ ExactUnlessRaced' /\ CopyFresh'
        /\ run = "seeding" => \A i \in DOMAIN Seeds : i < next => InForce(Seeds[i])'
    BY <2>1, TablesKept
  <2>4. SeedProgress'
    BY <2>1, <2>3 DEF AccountsSound, SeedProgress
  <2> QED
    BY <2>2, <2>3, <2>4 DEF AccountsSound
<1> QED
  BY <1>1, <1>2, <1>3, SeedKeeps, StopKeeps, StartKeeps DEF Next

\* The invariant, whatever the order of the statements of the handlers, and
\* wherever a statement fails or the process stops.
THEOREM AlwaysSound == Spec => []AccountsSound
<1>1. Init => AccountsSound
  BY InitSound
<1>2. AccountsSound /\ [Next]_vars => AccountsSound'
  BY StepSound
<1> QED
  BY <1>1, <1>2, PTL DEF Spec

\* Every account may send as itself.
THEOREM AlwaysOwnAddress == Spec => []OwnAddress
<1>1. AccountsSound => OwnAddress
  BY DEF AccountsSound
<1> QED
  BY <1>1, AlwaysSound, PTL

\* Passwords and the existence of accounts are those of the last request that
\* set them: no copy that a PATCH holds brings either back.
THEOREM AlwaysPasswordsAsMeant == Spec => []PasswordsAsMeant
<1>1. AccountsSound => PasswordsAsMeant
  BY DEF AccountsSound
<1> QED
  BY <1>1, AlwaysSound, PTL

\* An account is exactly what the requests meant unless somebody wrote to it
\* between a PATCH's read and its UPDATE.
THEOREM AlwaysExactUnlessRaced == Spec => []ExactUnlessRaced
<1>1. AccountsSound => ExactUnlessRaced
  BY DEF AccountsSound
<1> QED
  BY <1>1, AlwaysSound, PTL

\* The process begins to serve only when every configured seed is in force.
THEOREM AlwaysServesSeeded == Spec => ServesSeeded
<1> DEFINE Served == run # "serving" /\ run' = "serving" =>
                       \A i \in DOMAIN Seeds : InForce(Seeds[i])
<1>1. AccountsSound /\ [Next]_vars => [Served]_vars
  <2> SUFFICES ASSUME AccountsSound, Next, run # "serving", run' = "serving"
               PROVE  \A i \in DOMAIN Seeds : InForce(Seeds[i])
    OBVIOUS
  <2>1. Seed
    <3>1. ASSUME NEW h \in Handler, NEW q \in Request, Begin(h, q)
          PROVE  FALSE
      BY <3>1 DEF Begin
    <3>2. ASSUME NEW w \in Worker, WorkerStep(w)
          PROVE  FALSE
      <4>1. run' = run \/ run' = "down"
        BY <3>2 DEF WorkerStep, UpsertGet, UpsertWrite, DeleteAccount, PatchGet,
                    PatchCheck, PatchWrite, KeyGet, KeyWrite, DeleteDKIM, After
      <4> QED
        BY <4>1
    <3>3. ~Stop /\ ~Start
      BY DEF Stop, Start
    <3> QED
      BY <3>1, <3>2, <3>3 DEF Next
  <2>2. run = "seeding" /\ ~(next <= Len(Seeds))
    BY <2>1 DEF Seed
  <2>3. /\ \A i \in DOMAIN Seeds : i < next => InForce(Seeds[i])
        /\ next \in 1..Len(Seeds) + 1
    BY <2>2 DEF AccountsSound, SeedProgress, TypeOK
  <2>4. \A i \in DOMAIN Seeds : i < next
    BY <2>2, <2>3, AccountsAssumption
  <2> QED
    BY <2>3, <2>4
<1> QED
  BY <1>1, AlwaysSound, PTL DEF Spec, ServesSeeded
=============================================================================
