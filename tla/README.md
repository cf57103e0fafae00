# A verification project for carteiro

carteiro is an SMTP relay: authenticated clients submit mail over SMTP or over
an admin API, the messages are queued in a database (SQLite or MySQL), and a
deliverer hands them to the MX servers of their recipients, with retries, a
dead-letter state and a history for the web panel.

This directory holds TLA+ modules that model its core, TLC configurations that
check them on small instances, and proofs for TLAPS. `PROJECT.json` is the
machine-readable index: components, runs, mutants, the map from definitions to
source lines, findings, hazards and theorems.

## 1. The system

| Component | State | Operations | Hard part |
|---|---|---|---|
| queue storage (`internal/storage/queue.go`) | table `queue_messages`: recipients left, permanent refusals, attempts, next attempt, status, lease | `EnqueueWithID`, `NextDue` (select, then claim row by row), `Persist`, `Release`, `Succeed`, `DeadLetter` with `pruneDead`, `RequeueDead` | no transactions: each operation is one or several separate statements |
| deliverer (`internal/relay/deliver.go`) | goroutine-local copies of rows | `Run` polls; `processBatch` starts up to `concurrency` deliveries and waits; `deliver` works domain by domain | works from a stale copy; stops anywhere; MX answers get lost |
| send history (`internal/sends`, `internal/storage/sends.go`, `counters.go`) | table `sends_log` | `Add`, `BumpAttempt`, `MarkDelivered`, `MarkDead`, `MarkQueued`, `Drop`, `PruneSendLogs` | a second table, updated after the first, and pruned by age alone |
| submission session (`internal/smtpd/session.go`) | per connection: TLS, user, sender, recipients | SMTP commands, AUTH dialogues, DATA | order of commands; accounts change meanwhile; silent clients |
| line reader (same file) | fragments of lines | `readRaw`, `readLine`, `readDataLine`, `readData` | lines longer than the buffer, limits, dot-stuffing |
| accounts, DKIM keys (`internal/storage`) | tables `accounts`, `dkim_keys` | upsert, update, delete, seeding | read-then-write in the API handlers, no transaction |
| admin API (`internal/api`) | none of its own | send, requeue, accounts, DKIM, lists | requeue touches both tables |
| configuration (`internal/config`) | read once | defaults, file, environment, merge, validation | three sources, two passes of deduplication |
| migrations (`internal/storage/schema.go`) | table `schema_migrations` | one DDL and one record per version | kills, and two instances at once |
| listener (`internal/smtpd/server.go`) | listener, WaitGroup | `Serve`, `Shutdown` | accepting while shutting down |
| process (`cmd/carteiro/main.go`) | the goroutines, `serveErr` | start, seed, prune the history, select, shut down | does not wait for the deliverer |
| counters, metrics, DNS check, log masking, web panel | - | mostly read-only | see "Not modelled" |

How they interact: the session and the API *record* a message in the history,
then *insert* it into the queue and wake the deliverer over a channel.  The
deliverer polls as well, so a lost wake-up only costs time.  Every other
interaction goes through the database, which several instances may share
(README of the repository, "Multiple instances").

What makes each part correct:

* queue and deliverer: no recipient is dropped silently; duplicates only in the
  documented at-least-once window; every message ends; the dead-letter cap is
  kept; what a conversation with an MX reports is what the MX did;
* history: has an entry for what is queued, says what the queue says once nothing
  is in progress, as long as the entry is kept, and is kept for as long as configured;
* session: nobody sends under an address they may not use, or authenticates in
  plain text where TLS is required; silent clients are disconnected;
* line reader: text is stored as written, limits are kept, ends are recognised;
* accounts: what requests and seeds set is what the tables hold, whoever runs at
  the same time;
* process: the documented precedence of settings; a configuration that is accepted
  starts; migrations go on after any kill; a signal ends the process.

## 2. Modules

| Module | Models |
|---|---|
| `Storage` | one row of `queue_messages` and what each SQL statement does to it (pure operators) |
| `Relay` | the life of a message: submission, claiming, delivery, retry, dead-letter, prune, requeue, history and its retention, stops, failing statements; any number of instances |
| `MailQueue` | abstract: what the relay promises the submitter |
| `RelayProofs` | theorems about `Relay`: types, nothing is lost, the refinement of `MailQueue` |
| `RelayQueueProofs` | theorems about leases, the history's entries and counts, and the dead-letter cap |
| `RelaySingleProofs` | theorems about `Relay` with one instance: duplicates, rejections, history |
| `SmtpSession` | one submission connection while accounts change |
| `SmtpSessionProofs` | theorems about `SmtpSession` and `SessionDeadlines` |
| `LineReader` | cutting the byte stream into lines and messages |
| `LineReaderProofs` | theorems about `LineReader` |
| `SessionDeadlines` | `SmtpSession` with the deadlines of reads and writes and pipelining clients |
| `MxExchange` | the conversation with one MX, reply by reply, over all attempts of a message |
| `GroupDelivery` | abstract: what `deliver` relies on when it hands a domain's recipients to `deliverGroup` |
| `MxExchangeProofs` | theorems about `MxExchange`, the refinement of `GroupDelivery` among them |
| `Accounts` | the tables `accounts` and `dkim_keys`, the handlers that change them, seeding |
| `AccountsProofs` | theorems about `Accounts` |
| `Config` | `Load` as operators: file, environment, merge, validation; and the documented precedence |
| `Process` | one life of the process: load, migrate, seed, listen, serve, prune, shut down |
| `ProcessProofs` | theorems about `Process` |
| `MCRelay`, `MCSmtpSession`, `MCLineReader`, `MCMxExchange`, `MCAccounts`, `MCProcess` | instances for TLC |

### Storage and Relay

A step of `Relay` is one SQL statement, or one conversation with an MX server;
what the code computes between two of them is local to one goroutine and
belongs to the step before.  `job[i][m]` is the goroutine of instance `i` that
handles message `m`: `pc` says where it is, the other fields are its copy of
the row and its locals.  The places follow the code:

    none -> cand -> ready -> group <-> persist                 (NextDue, deliver)
                             group -> retry -> release          (postponed)
                                      retry -> count ...        (exhausted)
                             group -> resolve -> markDelivered  (Succeed)
                                      resolve -> count ...      (all rejected)
             count -> victims -> delete* -> markDead            (pruneDead)

* `NextDue(i)` is the SELECT; `Claim` is one claiming UPDATE.  They are separate
  because the copy used for delivery is the one the SELECT read.
* `GroupAnswered` is a `deliverGroup` that returns no error: any part of the
  group is delivered, the rest refused.  `GroupFailed` is one that returns an
  error; the MX may have accepted the message all the same (its answer was
  lost).  Which domain comes next is left open.
* `PersistProgress`, `Postpone`, `Release`, `GiveUp`, `RejectAll`, `Succeed`,
  `PruneCount`, `PruneSelect`, `PruneDelete`, `MarkDead`, `MarkDelivered` are the
  statements of `deliver`, `deadLetter` and `pruneDead`.
* `Record`, `EnqueueWithID`, `RequeueDead`, `MarkQueued` are the requests.
* `PruneSendLogs` (by `Retention`) deletes entries of the history whatever the queue
  says of their messages, as `main` does at start and every hour.  Which entries are
  old enough is left open here and computed in `Process`.
* Every statement has a *fate*: `ok`, `failed` (no effect) or `lost` (its effect
  happened, an error is reported).  What the code then does - return, log and go
  on, ignore - is modelled at each place.
* `Crash(i)` drops everything instance `i` has in memory.  It stands for a crash
  and for a shutdown, since `main` does not wait for the deliverer.
* Time: `next_attempt` is due or later, a lease is free or held; `LeaseExpires`
  and `BackoffElapses` may come at any moment, also while the holder of the lease
  is still at work (a batch may wait for the semaphore longer than the lease).

Messages are numbered in the order of `created_at`.  A row that is not in the
table has status `none`, `done` or `pruned`, which tells the properties why, and so does
an entry of the history that is not there, `none` or `pruned`; no
action distinguishes them in a way the code could not.  `accepted`, `rejected`,
`dup` and `exposed` record what the outside world saw and are read by no action
except to keep themselves.  `EnqueueWithID` that reports an error includes the
`Drop` that follows; a stop between those two is left out (it leaves an entry in
the history, as a stop after `Record` does).

### SmtpSession

One action per command that has an effect; commands that are refused, and those
without effect, are `NoEffect`.  `user` is the account *as read at AUTH*, so a
change of `accounts` afterwards is not seen.  `AuthLine` is the dialogue after a
prompt; its two lines (LOGIN) are one step because nothing but the text of the
first is kept between them.  `DataEnd` and `DataFails` are the two ways
`readData` returns.  `granted`, `auths`, `stored` are for the properties.
`AccountChanges` is any change of one account's allowed senders, deletion
included, with `normalizeAllowed` putting the login into its own list.

### LineReader

The client's bytes are a sequence over `x`, `dot`, `cr`, `lf`.  `Fragment` is
what `bufio.Reader.ReadSlice` returns: up to a line feed, or a full buffer.  No
fragment reaches beyond a line feed, so the client may send a text line by line
(`SendLine`, `SendDot`) without loss of generality; `meant` and `size` are the text and
its size so far, for the properties.  The reader's actions are one fragment within a line, the last fragment of a command line, the
last fragment of a line of a message with one iteration of `readData`, and a read
error.

### SessionDeadlines

`SetDeadline` bounds reads and writes.  `readLine` renews the part for reads
(`ReadLine`), the lines of a message share the one that `handleData` sets; a read
under a deadline times out in the end (`TimesOut`), a read without one need not.  The
part for writes stays until `handleData` or a successful STARTTLS clears it.
`DAuth` (`reply334`) and a failed handshake leave one behind; when it passes,
replies are no longer written (`mute`: `bufio.Writer` keeps its error).  The server
offers PIPELINING, so commands may come unanswered; the text and the credentials
wait for their prompt.

### MxExchange

`deliverGroup` from `prepareBody` to QUIT: one lookup, one connection attempt or
one command with its answer per step, then the retry with its back-off.  The MX
takes the message before it answers the final dot (`Handed`), so a lost answer
leaves it taken.  `Backoff` computes on W-bit integers.

`GroupDelivery` is the other side of `Relay`'s `GroupAnswered` and `GroupFailed`: an
answered group is delivered or refused as the MX did, a failed one stays whole, and the
MX has the message for somebody in it only if its report was lost.  `MxExchange`
implements it (`ImplementsGroupDelivery`), and with that the choices `Relay` leaves open
are those a conversation can make.  `RCPT` is sent once per entry of the envelope: if a
recipient is named twice (`~Once`) the MX may accept one entry and refuse the other, so
delivered and refused overlap; otherwise they are the `D` and `G \ D` of `GroupAnswered`.

### Accounts

One SQL statement per step: `UpsertGet`/`UpsertWrite` for POST and for seeds,
`PatchGet`/`PatchCheck`/`PatchWrite` for PATCH (the handler's read, the read in
`UpdateAccount`, the UPDATE), `DeleteAccount`, and the same for DKIM keys.  A hash
stands for its password.  `meant` is what the accounts would be if every request
were one atomic change at its write; `raced` are the accounts written to between a
PATCH's read and its UPDATE.  Statements have the fates of `Relay`; a stop ends all
handlers and the next start seeds again.  A password that bcrypt refuses to hash is a
statement that failed.

### Config and Process

`Config` follows `Load`: `WithFile`, `WithEnv` (with `MergedDKIM`), `Invalid`,
`Normalized`.  Optional values are sequences of at most one element, texts are
names of what parsing them gives; `IsFile` and `IsEnv` are the types of what the two
sources may hold.  `EffectiveSettings` and `EffectiveEntries` state the precedence,
setting by setting and for the lists of accounts and keys, without reference to the
stages.  The loops over the lists are stated by positions: `Picked` is a `for` that keeps
some entries in their order, `LastWins` the map-and-overwrite loop of
`normalizeAndValidate` (each name where it came first, with its last entry).  `Process` runs the stages, migrates (on
MySQL a DDL statement commits by itself and another instance may be migrating; on
SQLite DDL and record are one transaction), seeds, starts the listeners, prunes,
and stops on a signal or on a server's error.  The errors of the start that come from
the configuration alone are modelled as such, not as failures of the system: a data
source name that cannot be parsed (`Garbled`), a password over bcrypt's 72 bytes
(`LongPassword`), a blank selector (`BlankSelector`), an interval that panics, a DDL a
MySQL server refuses, an address that cannot be listened on.  `accepted` is a connection between
`Accept` and `wg.Add`.

## 3. Runs

Passing runs:

| Run | Instance | Shows |
|---|---|---|
| `single` | 1 instance, 1 message, 3 recipients in 2 domains, 2 attempts, 1 stop, 1 failing statement, 1 retry request, cap 1, a history that is pruned | `Accounted` (the inductive invariant, with `TypeOK`), `DuplicateWindow`, `RejectedWereRefused`, `AttemptsRecorded`, `RecordedFirst`, `HistoryInSync` |
| `shared` | 2 instances, 1 message to 2 domains, 1 stop | `NoLoss`, `ClaimNotOrphaned`, and the refinement `ImplementsMailQueue` |
| `live` | 1 instance, 2 messages claimed together, 2 attempts, 1 stop, 1 failing statement | `Drains` under fairness |
| `prune` | 3 messages dying together, cap 1, 1 retry request | `DeadCapped` |
| `session` | every TLS mode, TLS required, 2 addresses, 9 commands, 2 account changes, deadlines | `SessionSound` (the inductive invariant, with `TypeOK`), `EnvelopeChecked`, `AuthOverTLS`, `StoredWasAllowed`, `RevocationIsQuick`, `StoredIsAnswered`; `SilentIsClosed` under fairness |
| `lines` | all texts of up to 3 lines of up to 3 characters, all commands of up to 8 characters; buffer 3, line limit 6, message limit 6 | `FaithfulData`, `MessageFits`, `CommandWhole` |
| `exchange` | 3 RCPT commands (one recipient named twice), 2 addresses of the MX, 7 attempts, 6-bit durations, 2 lost answers | the refinement `ImplementsGroupDelivery`, `CopiesBounded`, `OneConnection`, `PlainOnlyIfNeeded`, `DelaySound`; `Ends` under fairness |
| `accounts` | 1 account with 2 further senders, 1 key, 2 handlers, 3 requests, 1 stop, 1 failing statement | `AccountsSound` (the inductive invariant, with `TypeOK` and `OwnAddress`), `PasswordsAsMeant`, `ExactUnlessRaced`, and the action property `ServesSeeded` |
| `process` | every section of file and environment in turn, 2 migrations, 2 sessions, 1 failure, 6-bit durations | `Precedence`, `AcceptedStarts`, `MigratesOn`, `AtMostOneCut`, `HistoryKept`; `StopsWhenTold` under fairness |

Runs that end in a counterexample, each a place where the code and what the
repository says of it differ (`findings` in `PROJECT.json` quotes both):

| Run | The code |
|---|---|
| `duplicate` | two instances: `Persist` frees the lease in the middle of a delivery, a recipient gets the message twice with nothing stopped or failed |
| `over` | after the size limit the terminator of a message is not recognised |
| `wipe` | a retention of 106752 days or more overflows `time.Duration`: the cutoff may lie in the future and the whole history is deleted |

### Observations

Differences met while modelling that no run repeats; the properties named exclude
them or say them.

* `NextDue`'s SELECT ignores leases: rows leased by a stopped instance use up the
  LIMIT and hide ready messages until the leases end.  `live` has no more messages than
  the LIMIT and does not reach this: three messages with two attempts each are too many.
* Two `pruneDead` at once both see the excess and delete more than it (`DeadCapped`
  is an upper bound only).
* `handleRequeue` wakes the deliverer before `MarkQueued`, which may overwrite
  "delivered" or "dead" with "queued" for good, and the old delivery's `MarkDead` may
  come after it; `HistoryInSync` says what is left: after a retry nothing undelivered is
  shown as delivered and nothing delivered as dead.
* `PruneSendLogs` looks at the age of an entry only, 30 days by default, while a dead
  row stays until the cap removes it: the entry of a dead message goes first, and a
  retry of it is delivered without one (`RecordedFirst`, `AttemptsRecorded` and
  `HistoryInSync` are about entries that are still there).
* A recipient may have a message and be refused it later: the MX took it, the answer was
  lost, and the next attempt gets a 5xx (`RejectedWereRefused` confines this to the
  at-least-once window).
* A message rejected by everyone is dead without its per-recipient causes: `Persist`
  returns early when no recipient is left.
* `MarkDelivered` ("fully delivered", `sends.go`) is also called for a partly refused
  message, as `Succeed` shows.
* `readRaw` keeps a fragment only while the line fits, so its `errLineTooLong` is
  never returned and an over-long command line is cut and handled (`CommandLine`).
* A PATCH that only sets a password writes back the list it read: a concurrent
  change of the list is lost (`ExactUnlessRaced`).
* After AUTH with a prompt a session older than a minute can no longer reply until
  DATA (`SessionDeadlines`; the 250 of a stored message is not affected).
* `storage:` without a value is a nil pointer at `config.go:371`, before the guard at
  259; `poll_interval: 0` passes validation and panics in `NewTicker`; a DKIM selector
  of blanks passes and fails in `UpsertDKIM`; a password of more than 72 bytes passes
  and fails in bcrypt, unless a hash of its first 72 is already stored; a MySQL data
  source name is only asked to be there.  These are the gaps `AcceptedStarts` names.
* A listen address without a usable port, or one address for two servers, passes
  validation too and ends the process from `Listen`, after the start `AcceptedStarts`
  is about.
* `retry_base` and `retry_max` are not validated: with a `retry_max` of zero or below
  every retry is due at once (`DelaySound` says when the delay is positive).
* `log_level: DEBUG` is accepted, `newLogger` compares with lower case and logs at
  info; `CARTEIRO_TLS_MODE` has no effect on a certificate in the file; an account in
  the environment drops the file's `allowed_from`.
* A server that cannot listen ends the process without `Shutdown` (`Select`).
* Two instances that migrate at once: the slower one exits with an error and works
  when started again (`MigratesOn`).
* A 5xx to the DATA command is retried, unlike one to MAIL, RCPT or the text (`Data`);
  only the MX of lowest preference is tried (`ResolveHost`).

The two-instance runs check the protocol that the repository documents for MySQL.
The schema in `schema.go` is written in SQLite's dialect; in `Process` a MySQL server
may refuse any migration of it, and `AcceptedStarts` allows for that.

Bounds. Two domains are the least with a progress commit between groups; a third
recipient lets a group be answered in part.  Two attempts are the least with both
a postponement and an exhaustion.  One stop and one failing statement at *any* of
the steps cover every recovery path; the theorems below do not depend on any of
these numbers.  Three dead messages and a cap of one are the least where two
prunings overlap and still leave one over.  Nine commands are two whole
submissions after STARTTLS.  In `lines`, a buffer of three bytes makes lines of
one to four fragments, the line limit is two buffers as in the code, and the
limits fall inside and at the end of a fragment.  In `exchange`, six bits make
the shift overflow to zero, below zero and to small positive values within the
attempts.  In `accounts`, two handlers and three requests let a PATCH be overtaken
by a PATCH, a POST or a DELETE and be followed by one more; one account suffices
because no statement touches two.  In `process`, the sections of the configuration
are independent in the code but for API and panel, which vary together; windows of
0 to 20 days straddle the largest that fits; two sessions allow one in the
WaitGroup and one before it.  `MaxCrashes`, `MaxStops`, `MaxFaults`, `MaxRequeues`,
`MaxRequests`, `MaxCommands`, `MaxChanges`, `MaxConns`, `MaxAddrs` and `MaxLost` are
the bounds on otherwise unlimited events.  `HistoryDays` is positive in `single`, where
the properties of the history are checked, and 0 (entries are kept) in the other relay
runs, whose properties do not read the history.  `live` trades the second domain and the
retry of the other runs for a second message, so that a claim can fail, or the process
stop, between the claims of one batch.

Fairness. `Relay!Fairness`: a deliverer that can take a step takes one (`Run`'s
ticker never stops, `connect` sets deadlines on every connection, statements
return), and time passes, so leases and back-offs end.  Nothing is assumed of
clients, operators or MX answers.  `SessionDeadlines!DSpec`: a deadline that
is set passes, so a read under one ends; that every read has one is what
`SilentIsClosed` checks.  `MxExchange!Spec`: `ConnectTimeout` and `IOTimeout`
bound every step of an attempt, and the queue hands a postponed message out again
(`Relay`'s `Drains`).  `Process!Spec`: main goes on whenever it can; each of its waits
ends by itself or by a timeout.  Nothing is assumed of sessions.  Deadlock is checked in the relay runs (a
deliverer can always poll) and off where a closed connection, a completed read, an
ended process or the bound on requests is the end.

Each property has a mutant in `PROJECT.json`: a plausible bug (a dropped guard, a
forgotten column, an off-by-one) under which TLC refutes it with the same
configuration.

## 4. Proofs

`RelayProofs` proves, for every finite or infinite set of recipients, any set of
instances, any number of messages and any bounds:

* `TypeCorrect`: `Spec => []TypeOK`;
* `AlwaysAccounted`: `Spec => []Accounted`;
* `NothingLost`: `Spec => []NoLoss`;
* `Refinement`: `Spec => ImplementsMailQueue`.

`NoLoss` (whoever has left a row's recipient list was accepted or refused) is not
inductive: `Persist` and `Succeed` overwrite or delete the row on the word of a
goroutine's copy, without checking anything.  The invariant therefore says the
same of every copy (`CopyNoLoss`), and a copy whose goroutine has reached
`resolve` has no recipient left.  `InEnvelope` keeps copies and rows within what
was submitted, so that "settled = envelope" holds exactly when `Succeed` deletes
the row, and says that a goroutine at work has a message that was inserted.
`Submissions` makes the INSERT happen once.  The refinement maps the row's status
and `accepted \cup rejected` to `MailQueue`; each relay step is one abstract step
or a stutter, and `Finish` is enabled by `CopyNoLoss`.

`RelayQueueProofs` proves, also for any number of instances and messages:

* `NoOrphanedClaim`: `Spec => []ClaimNotOrphaned`;
* `AlwaysRecordedFirst`: `Spec => []RecordedFirst`;
* `AttemptsAlwaysRecorded`: `Spec => []AttemptsRecorded`;
* `DeadRowsCapped`: `Spec => []DeadCapped`.

`LeaseSound` adds to `ClaimNotOrphaned` that only queued rows are leased and that a
goroutine about to commit progress or to postpone has recipients left, without which
`Persist` would return early and keep the lease.  `Recorded` says that a message about
to be inserted has its entry, or that the retention has deleted it.  `Counted` says of every copy what `AttemptsRecorded`
says of the row, strictly while an attempt is under way: `BumpAttempt` has counted it
and `Attempts++` is still to come, so that a goroutine writing an old copy back can
only lower the row's count.  `Capped` is the argument about concurrent prunings: the
dead rows respect the cap, *or* some goroutine is still going to bring them under it,
by a count it has yet to take, by an excess that is large enough, or by victims whose
removal suffices.  It holds because a row that dies brings its own `count` with it,
and because a pruning that selects fewer victims than its excess finds that others
have deleted the rest (`OldestCut`: the oldest rows of a finite set).

`RelaySingleProofs` proves, for one instance (`OneInstance`) and any number of
messages, recipients, stops and failures:

* `DuplicatesOnlyInWindow`: `OneInstance => (Spec => []DuplicateWindow)`;
* `RejectedAlwaysRefused`: `OneInstance => (Spec => []RejectedWereRefused)`;
* `HistoryAlwaysInSync`: `OneInstance => (Spec => []HistoryInSync)`.

The hypothesis is needed: with two instances `Persist` frees a lease that is still in
use, and TLC finds counterexamples to all three (for the first one, run `duplicate`).
`Batches` says that an instance claims all its candidates before it delivers any, so
that a claim that fails drops no delivery that has talked to an MX.  `Windows` relates
a row, the one goroutine at work on it and what the world has seen: the row asks for
somebody who already has the message only if that is exposed, or if the goroutine
knows better and its next statement says so.  `Synced` does the same for the status
columns of the two tables, place by place (`SyncAt`), with and without a retry: a
goroutine may be about to say "dead" of a row that has been requeued under it, and the
entry of a row that is being delivered again may still say "dead"; an entry that the
retention has deleted agrees with any row that was ever there.

`SmtpSessionProofs` proves, for any set of addresses and any number of commands,
recipients and account changes:

* `AlwaysSound`: `Spec => []SessionSound`, and from it
* `EnvelopeAlwaysChecked`, `NeverPlainAuth`, `OnlyAllowedStored`, `RevokedSoon`: the
  four safety properties of the session;
* `DeadlinesImplement`: `DSpec => Spec`, the session with deadlines is such a session,
  hence `DeadlinesAlwaysSound`: `DSpec => []SessionSound`;
* `StoredAlwaysAnswered`: `DSpec => StoredIsAnswered`, an action property.

`SessionSound` adds what the four do not say themselves: what each place of the
dialogue implies (`Place`: inside AUTH nobody is logged in and AUTH was allowed,
inside DATA the envelope is complete), that the session's copy of the account was
granted once (`RightsWereGranted`), and two counting arguments.  `Paid`: messages
stored, plus one if somebody is logged in, never exceed the authentications.
`LatePaid`: late messages, plus one if the session holds a right that is gone,
never exceed the changes.  The "plus one" is what makes both inductive: `DataEnd`
turns it into a stored message and forgets the user in the same step.

`LineReaderProofs` proves, for any size of the buffer, any limits and any text:

* `AlwaysFaithful`, `AlwaysFits`, `AlwaysWhole`: `Spec => []` of `FaithfulData`,
  `MessageFits` and `CommandWhole`.

The invariant speaks of the line under way only.  `Split`: some first bytes of the line
have been read, the rest is on the wire, and as long as the reader keeps what it reads
(`Keeps`) `buf` is exactly the first part.  `DataSound`: the message stored so far, and
the line under way, are the text so far; the count and the line's length are its size.
The lemmas say that the only line feed is at the end of the wire (`LineFeedAtEnd`), that
a fragment moves the split by one buffer or to the end (`NextPart`, `LastPart`), that
trimming undoes the line end (`TrimmedLine`) and unstuffing the stuffing, which never
makes a terminator (`Unstuffs`).

`AccountsProofs` proves, for any sets of emails, senders, passwords, domains, keys
and handlers, any configured seeds and any number of requests, stops and failing
statements:

* `AlwaysSound`: `Spec => []AccountsSound`, and from it
* `AlwaysPasswordsAsMeant`, `AlwaysExactUnlessRaced`, `AlwaysOwnAddress` and the
  action property `AlwaysServesSeeded`.

`PasswordsAsMeant` and `ExactUnlessRaced` are not inductive, because `PatchWrite`
writes a list it read two statements earlier.  `CopyFresh` says what that copy is
worth: always a list with the account's own address, the requested one if the
request gave one, and otherwise the row's current one as long as nobody has
written to the account since; every write by another worker finds the PATCH in
`UnderWay` and adds the email to `raced`.  `SeedProgress` is for `ServesSeeded`:
what seeding has passed is in force and stays so, since no handler runs before
`serving` and no two seeds name the same row.

`MxExchangeProofs` proves, for any envelope, any number of attempts, addresses and lost
answers, and any width of a duration:

* `TypeCorrect`, `ConnectionsClosed`, `PlainIsLastResort`, `RetriesBounded`,
  `HonestReports` and `DelaysSound`: `Spec => []` of `TypeOK`, `OneConnection`,
  `PlainOnlyIfNeeded`, `CopiesBounded`, `ReportHonest` and `DelaySound`;
* `Refinement`: `Spec => ImplementsGroupDelivery`;
* `DeliveriesRunOut`: every step within an attempt makes `Left`, a natural number,
  smaller, and every failed attempt is counted, up to `MaxAttempts`.

Its `IInv` says of every place how many connections are open (`Connected`) and whom the
MX has answered so far (`Answered`: whoever was asked is accepted or refused), which
turns into an honest report when the text is taken.  `Reported` says who has a copy once
the attempt is over.  In the refinement the steps up to the final dot stutter; `Return`
is `Answered` with the two lists as sets, `Fail` is `Failed` with whoever the MX took the
message for while its answer was lost, and the two are disjoint because the entries asked
so far are different recipients when nobody is named twice (`Sorted`).  The variant
`Left` is the longest way from a place to the end of the attempt: the second connection
after a failed handshake adds to it only before TLS has been tried.  For the delays, the lemmas about `Backoff` go through the cases of
`Shifted`: a product that fits is capped, and one that overflows is replaced by the
maximum unless it wraps to something between, which the cap bounds.

`ProcessProofs` proves, for any files and environments, any number of migrations,
sessions and failures, any width of a duration and length of a day:

* `TypeCorrect`, `AlwaysMigratesOn`, `AtMostOneSessionCut`, `AcceptedAlwaysStarts`,
  `HistoryAlwaysKept`: `Spec => []` of `TypeOK`, `MigratesOn`, `AtMostOneCut`,
  `AcceptedStarts` and `HistoryKept`;
* `AlwaysPrecedence`: `Spec => []Precedence`, the lists of accounts and keys included;
* `MainRunsOut`: every step of main makes `Ahead`, a natural number, smaller, and no other
  step makes it larger.

`IInv` has a part for each.  `Schema`: every version below the current one is recorded,
a record has its table, and a version this process is applying is recorded by nobody
else except on MySQL, which together with the places where the start can fail gives
`AcceptedStarts`.  `Cut`: once `Shutdown` has found the listener it stays closed, so
that only a connection accepted before can still be counted.  `Types` bounds the channel
`serveErr` by the servers that have ended, so that no send blocks.  `Kept`: after `Load`
the configuration is the normalised overlay of the sources and valid; the precedence and
what `AcceptedStarts` needs are facts about these operators (`SettingsEffective`,
`EntriesEffective`, `AcceptedFacts`).  The lists need no induction over data: a finite
set of positions has an ascending enumeration (`AscendingExists`, by the rank of a
position, the number of positions up to it), so `Picked` has exactly the chosen entries
in order (`PositionsAre`), `LastWins` has exactly one entry for each name, the last
(`LastWinsIs`), and an entry that the merge drops by the text of its domain is not the
last of its lower-case name, since the environment's comes after it (`MergedLast`).  `CutoffExact`: a window that fits survives the wrap-around.

The proofs rest on `SessionAssumption` ("none" is not an address), `StorageAssumption`
and `RelayAssumption` (a message has recipients, attempts and concurrency are
positive), `ReaderAssumption` (a buffer has room), `AccountsAssumption` (a seed has a
password, and each email and each domain one seed: of several, `config.go` keeps the
last, `LastWins` in `Config`), `ExchangeAssumption` (a group has a recipient; base and
maximum are any durations) and `ProcessAssumption` (there is a migration), which `config.go`, `schema.go` and the callers of
`EnqueueWithID` establish; and on `InputsAssumption`, the types of file and environment.
`PowersGrow` (powers of two grow with the exponent) is a fact of arithmetic whose
proof is an induction that the provers cannot do.  TLC evaluates all of them.

Only model-checked:

* liveness under fairness (`Drains`, `SilentIsClosed`, `Ends`, `StopsWhenTold`), which
  the prover does not support; `DeliveriesRunOut` and `MainRunsOut` are the safety half
  of `Ends` and `StopsWhenTold`, that the steps run out, and what is left to TLC is that
  there is always a next one until the end;
* the three runs that end in a counterexample.

## 5. Not modelled

DKIM signing and password hashing (cryptography; `prepareBody` never returns an
error, so signing cannot change the outcome of a delivery), MIME building and
parsing (`msg.go`), the DNS check and log masking (pure text), the counters (each
grows by single statements, nobody reads them to decide, errors are ignored), the
reverse proxy and static files of the panel (no state), the bearer token and the
argument checks of `handleSend`, the search for the configuration file and the
default data directory.  The panel's pages are TypeScript in the browser: when
`usePolling` loads is decided by React's effects, and a model would be one of React.
Socket buffers are not modelled: `SilentIsClosed` assumes that a reply can be
written.

## 6. Plan

1. `handleSend`: the check of the sender against all accounts while they change.
2. The safety half of `Drains`: a variant for the relay, over rows, goroutines and the
   bounds on stops and failures together.
