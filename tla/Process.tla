------------------------------ MODULE Process -------------------------------
(***************************************************************************)
(* One life of the carteiro process (cmd/carteiro/main.go): the            *)
(* configuration, the migrations, the start of the listeners and of the    *)
(* deliverer, the pruning of the history, and the ways to stop.            *)
(*                                                                         *)
(* Goroutines interleave: main, the accept loop of the SMTP server         *)
(* (internal/smtpd/server.go), the two HTTP servers.  Nobody waits for the *)
(* deliverer: Relay has it stop anywhere.  An earlier life may have stopped*)
(* anywhere too, so the database starts with whatever a life can leave     *)
(* (LeftOver, which is part of an invariant), and                          *)
(* another instance may migrate the same MySQL database meanwhile.         *)
(***************************************************************************)
EXTENDS Config

CONSTANTS
  Inputs,        \* the files and environments: [file : ..., env : ...]
  NVersions,     \* Len(migrations)
  W,             \* the width of a time.Duration (64 in Go)
  Day,           \* 24 * time.Hour
  MaxAge,        \* the age of the oldest entry of the history
  MaxConns,      \* bound on the SMTP sessions at a time
  MaxFaults      \* bound on how many calls of the system fail

ASSUME ProcessAssumption ==
  /\ NVersions \in Nat \ {0}
  /\ W \in Nat \ {0} /\ Day \in Nat \ {0} /\ MaxAge \in Nat
  /\ MaxConns \in Nat /\ MaxFaults \in Nat

ASSUME InputsAssumption == \A x \in Inputs : IsFile(x.file) /\ IsEnv(x.env)

Version == 1..NVersions
Server  == {"smtp", "api", "panel"}

VARIABLES
  input,         \* the file and the environment
  cfg,           \* the configuration so far
  pc,            \* where main is
  v,             \* the migration that comes next
  tables,        \* versions whose DDL is in the database
  recorded,      \* versions in schema_migrations
  lis,           \* lis[s]: the listener of a server
  accepted,      \* the accept loop has a connection it has not counted yet
  active,        \* the SMTP sessions in the WaitGroup
  serveErr,      \* the channel
  signalled,     \* ctx is done
  history,       \* ages of the entries of sends_log
  shut,          \* how Shutdown of the SMTP server ended
  faults

db   == <<tables, recorded>>
net  == <<lis, accepted, active, serveErr>>
vars == <<input, cfg, pc, v, db, net, signalled, history, shut, faults>>

Starting == {"file", "env", "validate", "open", "check", "ddl", "record", "seed"}
Running  == {"prune", "serving", "stopApi", "stopPanel", "stopSmtp", "waitSmtp", "last"}
Exited   == {"refused", "failed", "panicked", "killed", "error", "stopped"}

TypeOK ==
  /\ pc \in Starting \cup Running \cup Exited
  /\ v \in 1..NVersions + 1
  /\ tables \subseteq Version /\ recorded \subseteq Version
  /\ lis \in [Server -> {"none", "opening", "open", "closed", "done"}]
  /\ accepted \in BOOLEAN /\ active \in 0..MaxConns
  /\ Len(serveErr) <= 3
  /\ signalled \in BOOLEAN
  /\ history \subseteq 0..MaxAge
  /\ shut \in {"no", "early", "drained", "timeout"}
  /\ faults \in 0..MaxFaults

\* What a life leaves in the database, wherever it ends.
LeftOver ==
  \E k \in 0..NVersions :
    /\ recorded = 1..k
    /\ tables \in {1..k, 1..Min({k + 1, NVersions})}

Init ==
  /\ input \in Inputs
  /\ cfg = Defaults
  /\ pc = "file" /\ v = 1
  /\ tables \in SUBSET Version /\ recorded \in SUBSET Version /\ LeftOver
  /\ lis = [s \in Server |-> "none"]
  /\ accepted = FALSE /\ active = 0 /\ serveErr = <<>>
  /\ signalled = FALSE
  /\ history = 0..MaxAge
  /\ shut = "no" /\ faults = 0

MySQL == cfg.storage[1].type = "mysql"

Goto(next) == pc' = next

\* A call of the system works, or fails for a reason outside the program.
Works == UNCHANGED faults
Fails == faults < MaxFaults /\ faults' = faults + 1

----------------------------------------------------------------------------
(* Load.                                                                   *)

ReadFile ==
  /\ pc = "file"
  /\ IF FileRefused(input.file) THEN Goto("refused") /\ UNCHANGED cfg
     ELSE Goto("env") /\ cfg' = WithFile(cfg, input.file)
  /\ UNCHANGED <<input, v, db, net, signalled, history, shut, faults>>

ApplyEnv ==
  /\ pc = "env"
  /\ \/ EnvPanics(cfg) /\ Goto("panicked") /\ UNCHANGED cfg
     \/ ~EnvPanics(cfg) /\ EnvRefused(input.env) /\ Goto("refused") /\ UNCHANGED cfg
     \/ /\ ~EnvPanics(cfg) /\ ~EnvRefused(input.env) /\ Goto("validate")
        /\ cfg' = WithEnv(cfg, input.env)
  /\ UNCHANGED <<input, v, db, net, signalled, history, shut, faults>>

Validate ==
  /\ pc = "validate"
  /\ IF Invalid(cfg) THEN Goto("refused") /\ UNCHANGED cfg
     ELSE Goto("open") /\ cfg' = Normalized(cfg)
  /\ UNCHANGED <<input, v, db, net, signalled, history, shut, faults>>

----------------------------------------------------------------------------
(* storage.Open and migrate.  MySQL commits a DDL statement, and with it   *)
(* the transaction, at once; with SQLite the two writes are one.           *)

\* A data source name that the MySQL driver cannot parse is an error of sql.Open
\* or of Ping; Load asks only that there is one.
Garbled == MySQL /\ cfg.storage[1].dsn = "garbled"

Open ==
  /\ pc = "open"
  /\ \/ ~Garbled /\ Works /\ Goto("check")
     \/ (Fails \/ (Garbled /\ Works)) /\ Goto("failed")
  /\ UNCHANGED <<input, cfg, v, db, net, signalled, history, shut>>

CheckVersion ==
  /\ pc = "check"
  /\ \/ v > NVersions /\ Works /\ Goto("seed") /\ UNCHANGED v
     \/ v \in recorded /\ Works /\ v' = v + 1 /\ UNCHANGED pc
     \/ v \in Version \ recorded /\ Works /\ Goto("ddl") /\ UNCHANGED v
     \/ v \in Version /\ Fails /\ Goto("failed") /\ UNCHANGED v
  /\ UNCHANGED <<input, cfg, db, net, signalled, history, shut>>

\* Mutant: the version is recorded before its DDL.
RecordFirst ==
  /\ pc = "ddl"
  /\ \/ Works /\ Goto("record") /\ recorded' = recorded \cup {v}
     \/ Fails /\ Goto("failed") /\ UNCHANGED recorded
  /\ UNCHANGED <<input, cfg, v, tables, net, signalled, history, shut>>

\* CREATE TABLE IF NOT EXISTS; SQLite shows it to nobody before the commit, and
\* a MySQL server may refuse it: the DDL is written in SQLite's dialect.
ApplyDDL ==
  /\ pc = "ddl"
  /\ \/ Works /\ Goto("record") /\ tables' = IF MySQL THEN tables \cup {v} ELSE tables
     \/ (Fails \/ (MySQL /\ Works)) /\ Goto("failed") /\ UNCHANGED tables
  /\ UNCHANGED <<input, cfg, v, recorded, net, signalled, history, shut>>

\* INSERT INTO schema_migrations, and the commit; a version that another
\* instance has recorded since the check is an error.
RecordVersion ==
  /\ pc = "record"
  /\ \/ /\ v \notin recorded /\ Works /\ Goto("check")
        /\ v' = v + 1
        /\ tables' = tables \cup {v} /\ recorded' = recorded \cup {v}
     \/ v \in recorded /\ Works /\ Goto("failed") /\ UNCHANGED <<v, db>>
     \/ Fails /\ Goto("failed") /\ UNCHANGED <<v, db>>
  /\ UNCHANGED <<input, cfg, net, signalled, history, shut>>

\* Another instance migrates the same MySQL database.
OtherApplies ==
  /\ pc \in {"check", "ddl", "record"} /\ MySQL
  /\ tables = recorded /\ tables # Version
  /\ tables' = 1..Cardinality(tables) + 1
  /\ UNCHANGED <<input, cfg, pc, v, recorded, net, signalled, history, shut, faults>>

OtherRecords ==
  /\ pc \in {"check", "ddl", "record"} /\ MySQL
  /\ recorded' = tables /\ recorded' # recorded
  /\ UNCHANGED <<input, cfg, pc, v, tables, net, signalled, history, shut, faults>>

----------------------------------------------------------------------------
(* The start of the servers, and the history.                              *)

\* PruneSendLogs: the difference is a W-bit integer.
Signed(n) == ((n + 2^(W - 1)) % (2 * 2^(W - 1))) - 2^(W - 1)

\* Mutant: hours for days.
CutoffHours(days) == Signed(-Signed(days))

Cutoff(days) == Signed(-Signed(days * Day))

Pruned(days) == {age \in history : ~(-age < Cutoff(days))}

\* bcrypt refuses to hash a password of more than 72 bytes; UpsertDKIM refuses a
\* selector that is blank by now.
LongPassword == \E i \in DOMAIN cfg.accounts : cfg.accounts[i].password = "long"
BlankSelector == \E i \in DOMAIN cfg.dkim : cfg.dkim[i].selector = ""

\* seed: a long password gets through if the stored hash is one of its first 72
\* bytes, which UpsertAccounts leaves alone.  Then every goroutine starts; the
\* ticker of the deliverer refuses an interval that is not positive, and the
\* channel of processBatch a negative size.
Seed ==
  /\ pc = "seed"
  /\ LET panics == \/ cfg.num["poll_interval"] <= 0 \/ cfg.num["concurrency"] < 0
                   \/ cfg.api # <<>> /\ cfg.web = <<>>
     IN
     \/ /\ Fails \/ ((LongPassword \/ BlankSelector) /\ Works)
        /\ Goto("failed") /\ UNCHANGED lis
     \/ ~BlankSelector /\ panics /\ Works /\ Goto("panicked") /\ UNCHANGED lis
     \/ /\ ~BlankSelector /\ ~panics /\ Works /\ Goto("prune")
        /\ lis' = [s \in Server |->
                     IF s = "smtp" \/ cfg.api # <<>> THEN "opening" ELSE "none"]
  /\ UNCHANGED <<input, cfg, v, db, accepted, active, serveErr, signalled, history, shut>>

\* PruneSendLogs, unless history is kept for ever; its error is logged.
Prune ==
  LET days == cfg.num["send_history_days"] IN
  \/ days = 0 /\ Works /\ UNCHANGED history
  \/ days > 0 /\ Works /\ history' = Pruned(days)
  \/ days > 0 /\ Fails /\ UNCHANGED history

StartupPrune ==
  /\ pc = "prune"
  /\ Prune /\ Goto("serving")
  /\ UNCHANGED <<input, cfg, v, db, net, signalled, shut>>

HourlyPrune ==
  /\ pc \in Running \ {"prune"} /\ ~signalled
  /\ Prune
  /\ UNCHANGED <<input, cfg, pc, v, db, net, signalled, shut>>

\* net.Listen: the port may be taken, by another process or by another server of
\* this one, or be none: Load looks at no port, and at no SMTP address.  An HTTP
\* server that is shut down before returns ErrServerClosed, which Serve turns
\* into nil.
Listen(s) ==
  /\ pc \in Running /\ lis[s] = "opening"
  /\ \/ lis' = [lis EXCEPT ![s] = "open"] /\ UNCHANGED serveErr
     \/ /\ lis' = [lis EXCEPT ![s] = "done"]
        /\ serveErr' = Append(serveErr, "err")
  /\ UNCHANGED <<input, cfg, pc, v, db, accepted, active, signalled, history, shut, faults>>

----------------------------------------------------------------------------
(* The accept loop of the SMTP server and its sessions.                    *)

Accept ==
  /\ pc \in Running /\ lis["smtp"] = "open" /\ ~accepted
  /\ active < MaxConns
  /\ accepted' = TRUE
  /\ UNCHANGED <<input, cfg, pc, v, db, lis, active, serveErr, signalled, history, shut, faults>>

\* wg.Add and the goroutine, before the next Accept.
ServeConn ==
  /\ pc \in Running /\ accepted
  /\ accepted' = FALSE /\ active' = active + 1
  /\ UNCHANGED <<input, cfg, pc, v, db, lis, serveErr, signalled, history, shut, faults>>

SessionEnds ==
  /\ pc \in Running /\ active > 0
  /\ active' = active - 1
  /\ UNCHANGED <<input, cfg, pc, v, db, lis, accepted, serveErr, signalled, history, shut, faults>>

\* The goroutine of ServeWithListener that waits for ctx.
CloseListener ==
  /\ pc \in Running /\ signalled /\ lis["smtp"] = "open"
  /\ lis' = [lis EXCEPT !["smtp"] = "closed"]
  /\ UNCHANGED <<input, cfg, pc, v, db, accepted, active, serveErr, signalled, history, shut, faults>>

\* Mutant: the result is sent again and again.
ServeReturnsOften ==
  /\ pc \in Running /\ lis["smtp"] = "closed" /\ ~accepted /\ active = 0
  /\ serveErr' = Append(serveErr, "nil")
  /\ UNCHANGED <<input, cfg, pc, v, db, lis, accepted, active, signalled, history, shut, faults>>

\* Accept fails, the server is closed, and no session is left: Serve returns.
ServeReturns ==
  /\ pc \in Running /\ lis["smtp"] = "closed" /\ ~accepted /\ active = 0
  /\ serveErr' = Append(serveErr, "nil")
  /\ lis' = [lis EXCEPT !["smtp"] = "done"]
  /\ UNCHANGED <<input, cfg, pc, v, db, accepted, active, signalled, history, shut, faults>>

----------------------------------------------------------------------------
(* The end.                                                                *)

\* SIGINT or SIGTERM: before NotifyContext it ends the process.
Signal ==
  /\ pc \in Starting \cup {"prune", "serving"} /\ ~signalled
  /\ IF pc \in Running THEN signalled' = TRUE /\ UNCHANGED pc
     ELSE Goto("killed") /\ UNCHANGED signalled
  /\ UNCHANGED <<input, cfg, v, db, net, history, shut, faults>>

\* The select of run: a server that failed ends the process without Shutdown.
Select ==
  /\ pc = "serving"
  /\ \/ /\ serveErr # <<>>
        /\ Goto(IF Head(serveErr) = "err" THEN "error" ELSE "stopApi")
        /\ serveErr' = Tail(serveErr)
     \/ signalled /\ Goto("stopApi") /\ UNCHANGED serveErr
  /\ UNCHANGED <<input, cfg, v, db, lis, accepted, active, signalled, history, shut, faults>>

\* http.Server.Shutdown closes the listener and waits, for the requests or for
\* its 10 seconds.  It also stops a server that has not come to listening.
StopHttp(s, at, then) ==
  /\ pc = at /\ Goto(then)
  /\ lis' = [lis EXCEPT ![s] = IF @ = "none" THEN @ ELSE "done"]
  /\ UNCHANGED <<input, cfg, v, db, accepted, active, serveErr, signalled, history, shut, faults>>

\* Mutant: Shutdown waits without closing the listener.
StopSmtpOpen ==
  /\ pc = "stopSmtp" /\ Goto("waitSmtp")
  /\ UNCHANGED <<input, cfg, v, db, net, signalled, history, shut, faults>>

\* Shutdown of the SMTP server: a listener that is not there yet is not
\* closed.
StopSmtp ==
  /\ pc = "stopSmtp" /\ Goto("waitSmtp")
  /\ lis' = [lis EXCEPT !["smtp"] = IF @ = "open" THEN "closed" ELSE @]
  /\ shut' = IF lis["smtp"] = "opening" THEN "early" ELSE shut
  /\ UNCHANGED <<input, cfg, v, db, accepted, active, serveErr, signalled, history, faults>>

\* Mutant: no timeout.
WaitSmtpForever ==
  /\ pc = "waitSmtp" /\ active = 0 /\ Goto("last")
  /\ shut' = IF shut = "early" THEN shut ELSE "drained"
  /\ UNCHANGED <<input, cfg, v, db, net, signalled, history, faults>>

\* wg.Wait returns, or the 10 seconds are over.
WaitSmtp ==
  /\ pc = "waitSmtp" /\ Goto("last")
  /\ shut' \in IF shut = "early" THEN {"early"}
               ELSE {"timeout"} \cup (IF active = 0 THEN {"drained"} ELSE {})
  /\ UNCHANGED <<input, cfg, v, db, net, signalled, history, faults>>

\* Stats, and the deferred Close of the store.
Exit ==
  /\ pc = "last" /\ Goto("stopped")
  /\ UNCHANGED <<input, cfg, v, db, net, signalled, history, shut, faults>>

Main ==
  \/ ReadFile \/ ApplyEnv \/ Validate
  \/ Open \/ CheckVersion \/ ApplyDDL \/ RecordVersion \/ Seed
  \/ StartupPrune \/ Select
  \/ StopHttp("api", "stopApi", "stopPanel") \/ StopHttp("panel", "stopPanel", "stopSmtp")
  \/ StopSmtp \/ WaitSmtp \/ Exit

Next ==
  \/ Main
  \/ OtherApplies \/ OtherRecords
  \/ HourlyPrune
  \/ \E s \in Server : Listen(s)
  \/ Accept \/ ServeConn \/ SessionEnds \/ CloseListener \/ ServeReturns
  \/ Signal

\* main is a goroutine that runs whenever it can, and every wait in it has a
\* timeout.
Spec == Init /\ [][Next]_vars /\ WF_vars(Main)

----------------------------------------------------------------------------
\* Load has returned the configuration.
Loaded == pc \in (Starting \ {"file", "env", "validate"}) \cup Running

\* The documented precedence, "system defaults < YAML file < CARTEIRO_*
\* environment variables", holds setting by setting for every accepted input.
Precedence ==
  Loaded => /\ EffectiveSettings(cfg, input.file, input.env)
            /\ EffectiveEntries(cfg, input.file, input.env)

\* A configuration that was accepted brings the process to the start of its
\* servers.  Before that it fails only because the system failed it, or for what
\* validation lets through: a poll_interval that is not positive, "storage:"
\* without a value, a DKIM selector of blanks, a password of more than 72 bytes,
\* and on MySQL a data source name that cannot be parsed or a migration that
\* does not go through, refused by the server or done by another instance first.
AcceptedStarts ==
  /\ pc = "panicked" => \/ cfg.storage = <<>>
                        \/ cfg.num["poll_interval"] <= 0
  /\ pc = "failed" => \/ faults > 0
                      \/ MySQL /\ (Garbled \/ v \in Version)
                      \/ LongPassword \/ BlankSelector

\* Wherever a life ends, killed or not and with another instance at work, the
\* next one can migrate on: a recorded version has its table.
MigratesOn == LeftOver /\ (pc \in {"seed"} \cup Running => tables = Version)

\* A shutdown that did not time out has cut at most one session, one that was
\* between Accept and wg.Add, if the listener was up at all.
AtMostOneCut ==
  pc \in {"last", "stopped"} /\ shut = "drained" =>
    active + (IF accepted THEN 1 ELSE 0) <= 1

\* The history keeps what is within the window, and everything when the window
\* is 0, as long as the window fits a time.Duration.
WindowFits(days) == days * Day < 2^(W - 1)

HistoryKept ==
  LET days == cfg.num["send_history_days"] IN
  pc \in Running /\ WindowFits(days) =>
    {age \in 0..MaxAge : age <= days * Day \/ days = 0} \subseteq history

\* README.md: "how long the panel keeps the send history".
HistoryKeptAlways ==
  LET days == cfg.num["send_history_days"] IN
  pc \in Running =>
    {age \in 0..MaxAge : age <= days * Day \/ days = 0} \subseteq history

\* A signal, or a server that failed, ends the process.
StopsWhenTold == (signalled \/ "err" \in ToSet(serveErr)) ~> (pc \in Exited)
============================================================================
