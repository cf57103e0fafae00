------------------------------ MODULE Accounts ------------------------------
(***************************************************************************)
(* The tables accounts and dkim_keys (internal/storage/accounts.go and     *)
(* dkim.go), the admin API's handlers that change them (internal/api) and  *)
(* the seeding that every start of the process does (cmd/carteiro).        *)
(*                                                                         *)
(* A handler runs in a goroutine of its own and takes one to three         *)
(* statements without a transaction: a step is one statement.  A stop ends *)
(* the handlers and the next start seeds again, entry by entry.            *)
(*                                                                         *)
(* A hash is modelled by its password, a list of addresses by the set of   *)
(* them, a request by what it has left after decoding and normalisation.   *)
(***************************************************************************)
EXTENDS Integers, Sequences, FiniteSets

CONSTANTS
  Email,         \* logins
  Sender,        \* further addresses a list may contain
  Password,      \* non-empty passwords
  Domain,        \* sending domains
  Key,           \* selector and PEM text of a private key, as one value
  Handler,       \* goroutines of the admin API
  Seeds,         \* the configured accounts and keys, in the order of seed
  MaxRequests,   \* bound on the requests
  MaxStops,      \* bound on the stops of the process
  MaxFaults      \* bound on how many statements report an error

Blank   == "blank"      \* an address that is empty after TrimSpace
Omitted == "omitted"    \* no password, or an empty one
Keep    == {"keep"}     \* a list the request leaves out

Account   == [password : Password, allowed : SUBSET (Email \cup Sender)]
NoAccount == [password |-> Omitted, allowed |-> {}]
NoKey     == "nokey"

\* What a client may ask for; PATCH may leave either field out.
Lists    == SUBSET (Sender \cup {Blank})
Post     == [op : {"post"}, email : Email, password : Password, list : Lists]
Patch    == [op : {"patch"}, email : Email, password : Password \cup {Omitted},
             list : Lists \cup {Keep}]
Delete   == [op : {"delete"}, email : Email]
PostKey  == [op : {"postKey"}, domain : Domain, key : Key]
DeleteKey == [op : {"deleteKey"}, domain : Domain]
Request  == Post \cup Patch \cup Delete \cup PostKey \cup DeleteKey

\* The account or the domain a request is about.
Named(q) == IF q.op \in {"postKey", "deleteKey"} THEN q.domain ELSE q.email

\* seed is the goroutine of main; the others serve requests.
Seeder == "seeder"
Worker == Handler \cup {Seeder}

\* config.go refuses a seed without a password, and gives each email and each
\* domain one seed.
ASSUME AccountsAssumption ==
  /\ Blank \notin Email \cup Sender /\ Seeder \notin Handler
  /\ Omitted \notin Password /\ "keep" \notin Email \cup Sender
  /\ NoKey \notin Key
  /\ Seeds \in Seq(Post \cup PostKey)
  /\ \A i, k \in DOMAIN Seeds :
       Seeds[i].op = Seeds[k].op /\ Named(Seeds[i]) = Named(Seeds[k]) => i = k
  /\ MaxRequests \in Nat /\ MaxStops \in Nat /\ MaxFaults \in Nat

VARIABLES
  accounts,      \* accounts: Email -> Account
  dkim,          \* dkim_keys: Domain -> Key
  run,           \* the process: down, seeding entry next, or serving
  next,          \* the seed that comes next
  job,           \* job[h]: the request of handler h and where it is
  meant,         \* the accounts, had every request been one atomic change
  raced,         \* emails written to while a PATCH was under way
  requests, stops, faults

\* What the tables should be: no code reads these two.
ideal == <<meant, raced>>
vars  == <<accounts, dkim, run, next, job, ideal, requests, stops, faults>>

Idle == [pc |-> "idle"]

\* copy is the list PATCH will write, read or given.
Job == {Idle}
  \cup [pc : {"get", "write"}, ask : Request]
  \cup [pc : {"check", "update"}, ask : Patch, copy : SUBSET (Email \cup Sender)]

TypeOK ==
  /\ accounts \in [Email -> Account \cup {NoAccount}]
  /\ meant \in [Email -> Account \cup {NoAccount}]
  /\ raced \subseteq Email
  /\ dkim \in [Domain -> Key \cup {NoKey}]
  /\ run \in {"down", "seeding", "serving"}
  /\ next \in 1..Len(Seeds) + 1
  /\ job \in [Worker -> Job]
  /\ requests \in 0..MaxRequests
  /\ stops \in 0..MaxStops
  /\ faults \in 0..MaxFaults

Init ==
  /\ accounts = [e \in Email |-> NoAccount]
  /\ dkim = [d \in Domain |-> NoKey]
  /\ meant = accounts /\ raced = {}
  /\ run = "seeding" /\ next = 1
  /\ job = [w \in Worker |-> Idle]
  /\ requests = 0 /\ stops = 0 /\ faults = 0

----------------------------------------------------------------------------
Fate == {"ok", "failed", "lost"}

Statement(fate) ==
  IF fate = "ok" THEN faults' = faults
  ELSE faults < MaxFaults /\ faults' = faults + 1

At(w, op, pc) == job[w].pc = pc /\ job[w].ask.op = op

Goto(w, j) == job' = [job EXCEPT ![w] = j]

\* Mutant: an error in a seed is logged and the next entry follows.
AfterLogsError(w, fate, j) ==
  LET to == IF fate = "ok" THEN j ELSE Idle IN
  /\ Goto(w, to)
  /\ next' = IF w = Seeder /\ to = Idle THEN next + 1 ELSE next
  /\ UNCHANGED run

\* Where worker w goes after a statement.  An error, or the end of the
\* request, ends a handler; an error in a seed ends the process.
After(w, fate, j) ==
  IF w # Seeder
  THEN /\ Goto(w, IF fate = "ok" THEN j ELSE Idle)
       /\ UNCHANGED <<run, next>>
  ELSE /\ job' = IF fate = "ok" THEN [job EXCEPT ![w] = j]
                 ELSE [x \in Worker |-> Idle]
       /\ run' = IF fate = "ok" THEN run ELSE "down"
       /\ next' = IF fate = "ok" /\ j = Idle THEN next + 1 ELSE next

----------------------------------------------------------------------------
(* Statements of the two tables.                                           *)

\* normalizeAllowed.
NormalizeAllowed(email, list) == (list \cup {email}) \ {Blank}

\* UpsertAccounts: what a seed or a POST asks for.
Asked(q) ==
  [password |-> q.password, allowed |-> NormalizeAllowed(q.email, q.list)]

\* UpdateAccount: the UPDATE with or without password_hash; it touches no row
\* when there is none.
Updated(row, password, list) ==
  IF row = NoAccount THEN row
  ELSE [password |-> IF password = Omitted THEN row.password ELSE password,
        allowed |-> list]

\* What a PATCH asks for, as one atomic change.
Edited(row, q) ==
  Updated(row, q.password, IF q.list = Keep THEN row.allowed
                           ELSE NormalizeAllowed(q.email, q.list))

\* The PATCHes of email that have read the account and not yet written it.
UnderWay(w, email) ==
  {h \in Worker \ {w} : /\ job[h].pc \in {"check", "update"}
                        /\ job[h].ask.email = email}

\* A write of the accounts, and of what was meant.
Write(w, row, wanted, fate) ==
  LET email == job[w].ask.email IN
  IF fate = "failed" THEN UNCHANGED <<accounts, ideal>>
  ELSE /\ accounts' = [accounts EXCEPT ![email] = row]
       /\ meant' = [meant EXCEPT ![email] = wanted]
       /\ raced' = IF UnderWay(w, email) = {} THEN raced ELSE raced \cup {email}

----------------------------------------------------------------------------
(* The handlers, and seed, which goes through the same upserts.            *)

\* A request that its handler does not refuse unread.
Begin(h, q) ==
  /\ run = "serving" /\ job[h] = Idle
  /\ requests < MaxRequests
  /\ requests' = requests + 1
  /\ Goto(h, [pc |-> IF q.op \in {"delete", "deleteKey"} THEN "write" ELSE "get",
              ask |-> q])
  /\ UNCHANGED <<accounts, dkim, run, next, ideal, stops, faults>>

\* UpsertAccounts: GetAccount, and nothing more when the row is the same.
\* (A list in another order is not the same and is written again.)
UpsertGet(w, fate) ==
  /\ At(w, "post", "get")
  /\ Statement(fate)
  /\ LET q == job[w].ask IN
     \/ accounts[q.email] = Asked(q) /\ After(w, fate, Idle)
     \/ /\ accounts[q.email] # Asked(q) \/ Cardinality(Asked(q).allowed) > 2
        /\ After(w, fate, [pc |-> "write", ask |-> q])
  /\ UNCHANGED <<accounts, dkim, ideal, requests, stops>>

\* UpsertAccounts: INSERT ... ON CONFLICT DO UPDATE.
UpsertWrite(w, fate) ==
  /\ At(w, "post", "write")
  /\ Statement(fate)
  /\ LET q == job[w].ask IN Write(w, Asked(q), Asked(q), fate)
  /\ After(w, fate, Idle)
  /\ UNCHANGED <<dkim, requests, stops>>

DeleteAccount(h, fate) ==
  /\ At(h, "delete", "write")
  /\ Statement(fate)
  /\ Write(h, NoAccount, NoAccount, fate)
  /\ After(h, fate, Idle)
  /\ UNCHANGED <<dkim, requests, stops>>

\* Mutant: a list that the request leaves out is taken for an empty one.
PatchGetClears(h, fate) ==
  /\ At(h, "patch", "get")
  /\ Statement(fate)
  /\ LET q == job[h].ask
         list == IF q.list = Keep THEN {} ELSE q.list
     IN After(h, fate,
          IF accounts[q.email] = NoAccount \/ Blank \in list
          THEN Idle
          ELSE [pc |-> "check", ask |-> q,
                copy |-> NormalizeAllowed(q.email, list)])
  /\ UNCHANGED <<accounts, dkim, ideal, requests, stops>>

\* handleUpdateAccount up to the call of UpdateAccount: 404, 400 for nothing to
\* update or for a blank address, or the list to write.
PatchGet(h, fate) ==
  /\ At(h, "patch", "get")
  /\ Statement(fate)
  /\ LET q == job[h].ask
         row == accounts[q.email]
         list == IF q.list = Keep THEN row.allowed ELSE q.list
     IN After(h, fate,
          IF \/ row = NoAccount
             \/ q.list = Keep /\ q.password = Omitted
             \/ Blank \in list
          THEN Idle
          ELSE [pc |-> "check", ask |-> q,
                copy |-> NormalizeAllowed(q.email, list)])
  /\ UNCHANGED <<accounts, dkim, ideal, requests, stops>>

\* UpdateAccount: GetAccount once more, only to know that the row exists.
PatchCheck(h, fate) ==
  /\ At(h, "patch", "check")
  /\ Statement(fate)
  /\ After(h, fate, IF accounts[job[h].ask.email] = NoAccount THEN Idle
                    ELSE [job[h] EXCEPT !.pc = "update"])
  /\ UNCHANGED <<accounts, dkim, ideal, requests, stops>>

\* Mutant: the UPDATE became an upsert.
PatchResurrects(h, fate) ==
  /\ At(h, "patch", "update")
  /\ Statement(fate)
  /\ LET q == job[h].ask
         row == accounts[q.email]
     IN Write(h,
              IF row = NoAccount /\ q.password # Omitted
              THEN [password |-> q.password, allowed |-> job[h].copy]
              ELSE Updated(row, q.password, job[h].copy),
              Edited(meant[q.email], q), fate)
  /\ After(h, fate, Idle)
  /\ UNCHANGED <<dkim, requests, stops>>

\* Mutant: the UPDATE that sets a password leaves the list out.
PatchForgetsList(h, fate) ==
  /\ At(h, "patch", "update")
  /\ Statement(fate)
  /\ LET q == job[h].ask
         row == accounts[q.email]
     IN Write(h, Updated(row, q.password,
                         IF q.password = Omitted THEN job[h].copy ELSE row.allowed),
              Edited(meant[q.email], q), fate)
  /\ After(h, fate, Idle)
  /\ UNCHANGED <<dkim, requests, stops>>

\* UpdateAccount: the UPDATE, with the list read or given earlier.
PatchWrite(h, fate) ==
  /\ At(h, "patch", "update")
  /\ Statement(fate)
  /\ LET q == job[h].ask IN
     Write(h, Updated(accounts[q.email], q.password, job[h].copy),
           Edited(meant[q.email], q), fate)
  /\ After(h, fate, Idle)
  /\ UNCHANGED <<dkim, requests, stops>>

\* UpsertDKIM: GetDKIM, and nothing more when the key is the same.
KeyGet(w, fate) ==
  /\ At(w, "postKey", "get")
  /\ Statement(fate)
  /\ LET q == job[w].ask IN
     After(w, fate, IF dkim[q.domain] = q.key THEN Idle
                    ELSE [pc |-> "write", ask |-> q])
  /\ UNCHANGED <<accounts, dkim, ideal, requests, stops>>

KeyWrite(w, fate) ==
  /\ At(w, "postKey", "write")
  /\ Statement(fate)
  /\ dkim' = IF fate = "failed" THEN dkim
             ELSE [dkim EXCEPT ![job[w].ask.domain] = job[w].ask.key]
  /\ After(w, fate, Idle)
  /\ UNCHANGED <<accounts, ideal, requests, stops>>

DeleteDKIM(h, fate) ==
  /\ At(h, "deleteKey", "write")
  /\ Statement(fate)
  /\ dkim' = IF fate = "failed" THEN dkim
             ELSE [dkim EXCEPT ![job[h].ask.domain] = NoKey]
  /\ After(h, fate, Idle)
  /\ UNCHANGED <<accounts, ideal, requests, stops>>

----------------------------------------------------------------------------
(* The process.                                                            *)

\* seed: the next entry, or the end of seeding.
Seed ==
  /\ run = "seeding" /\ job[Seeder] = Idle
  /\ IF next <= Len(Seeds)
     THEN Goto(Seeder, [pc |-> "get", ask |-> Seeds[next]]) /\ UNCHANGED run
     ELSE run' = "serving" /\ UNCHANGED job
  /\ UNCHANGED <<accounts, dkim, next, ideal, requests, stops, faults>>

\* The process stops, in the middle of whatever it does.
Stop ==
  /\ run # "down" /\ stops < MaxStops
  /\ stops' = stops + 1
  /\ run' = "down"
  /\ job' = [w \in Worker |-> Idle]
  /\ UNCHANGED <<accounts, dkim, next, ideal, requests, faults>>

\* The service manager starts it again.
Start ==
  /\ run = "down"
  /\ run' = "seeding" /\ next' = 1
  /\ UNCHANGED <<accounts, dkim, job, ideal, requests, stops, faults>>

WorkerStep(w) ==
  \E fate \in Fate :
    \/ UpsertGet(w, fate) \/ UpsertWrite(w, fate)
    \/ DeleteAccount(w, fate)
    \/ PatchGet(w, fate) \/ PatchCheck(w, fate) \/ PatchWrite(w, fate)
    \/ KeyGet(w, fate) \/ KeyWrite(w, fate)
    \/ DeleteDKIM(w, fate)

Next ==
  \/ \E h \in Handler, q \in Request : Begin(h, q)
  \/ \E w \in Worker : WorkerStep(w)
  \/ Seed \/ Stop \/ Start

Spec == Init /\ [][Next]_vars

----------------------------------------------------------------------------
\* Every account may send as itself, and an address in a list is an address
\* (storage.go: AllowedFrom "always includes Email"), whichever of POST, PATCH
\* and seed wrote it last and from whatever copy.
OwnAddress ==
  \A e \in Email : accounts[e] # NoAccount =>
    e \in accounts[e].allowed /\ Blank \notin accounts[e].allowed

\* Passwords are exact under every interleaving: the one in force is the last
\* one a request set, and an account exists unless its last POST or seed was
\* followed by a DELETE.  A PATCH works from an old copy of the account and can
\* still neither bring a password back nor an account.
PasswordsAsMeant ==
  \A e \in Email :
    /\ accounts[e] = NoAccount <=> meant[e] = NoAccount
    /\ accounts[e].password = meant[e].password

\* Lists are exact too, unless somebody wrote to the account between a PATCH's
\* read and its UPDATE: then a PATCH without a list, which should keep the
\* current one (the comment of updateAccountReq), writes the older one back.
ExactUnlessRaced ==
  \A e \in Email \ raced : accounts[e] = meant[e]

InForce(q) ==
  IF q.op = "post" THEN accounts[q.email] = Asked(q) ELSE dkim[q.domain] = q.key

\* The process serves only with every seed in the tables, although seeding is
\* entry by entry, may fail or be stopped in between, and skips what it finds.
ServesSeeded ==
  [][run # "serving" /\ run' = "serving" =>
       \A i \in DOMAIN Seeds : InForce(Seeds[i])]_vars

\* Why passwords are exact, and lists without a race: what a PATCH has read is
\* still there if nobody wrote since.
CopyFresh ==
  \A h \in Worker :
    /\ job[h].pc \in {"check", "update"} =>
         LET q == job[h].ask IN
         /\ q.email \in job[h].copy /\ Blank \notin job[h].copy
         /\ q.list # Keep => job[h].copy = NormalizeAllowed(q.email, q.list)
         /\ q.list = Keep /\ q.email \notin raced =>
              job[h].copy = accounts[q.email].allowed

\* Why every seed is in force in the end: nobody serves while seed works, and
\* what it has passed stays.
SeedProgress ==
  /\ job[Seeder] # Idle =>
       run = "seeding" /\ next <= Len(Seeds) /\ job[Seeder].ask = Seeds[next]
  /\ run # "serving" => \A h \in Handler : job[h] = Idle
  /\ run = "seeding" => \A i \in DOMAIN Seeds : i < next => InForce(Seeds[i])

\* The inductive invariant.
AccountsSound ==
  /\ TypeOK /\ OwnAddress /\ PasswordsAsMeant /\ ExactUnlessRaced
  /\ CopyFresh /\ SeedProgress
============================================================================
