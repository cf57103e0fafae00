------------------------------- MODULE Relay -------------------------------
(***************************************************************************)
(* The life of a message: submitted, recorded in the panel's history,      *)
(* queued, claimed, delivered domain by domain, postponed, dead-lettered,  *)
(* pruned, requeued by an operator; and its entry of the history, which is *)
(* deleted by age whatever has become of the message.                      *)
(*                                                                         *)
(* The actors are the deliverers of one or more carteiro instances that    *)
(* share a database (internal/relay), the SMTP session or API handler that *)
(* enqueues (internal/smtpd, internal/api) and the retry endpoint          *)
(* (internal/api).  A step is one SQL statement, or one conversation with  *)
(* an MX server: everything else the code does between two of them is      *)
(* local to one goroutine and is part of the step before.                  *)
(*                                                                         *)
(* A statement may fail without effect, or take effect and still report an *)
(* error (the connection broke after the commit); an instance may stop     *)
(* between any two steps (a crash, or a shutdown: main does not wait for   *)
(* the deliverer) and starts again by polling.                             *)
(***************************************************************************)
EXTENDS Storage

CONSTANTS
  Inst,          \* carteiro processes on the same database
  DomainOf,      \* DomainOf[r]: the MX domain of recipient r (domainOf)
  MaxAttempts,   \* delivery.max_attempts
  Concurrency,   \* delivery.concurrency
  DeadMax,       \* queue.dead_max, 0 for no limit
  HistoryDays,   \* send_history_days, 0 to keep every entry
  MaxCrashes,    \* bound on how often an instance stops
  MaxFaults,     \* bound on how many statements report an error
  MaxRequeues    \* bound on the operator's retries

\* config.go validates max_attempts and concurrency.
ASSUME RelayAssumption ==
  /\ MaxAttempts \in Nat \ {0}
  /\ Concurrency \in Nat \ {0}
  /\ DeadMax \in Nat
  /\ HistoryDays \in Nat
  /\ MaxCrashes \in Nat
  /\ MaxFaults \in Nat
  /\ MaxRequeues \in Nat

VARIABLES
  queue,         \* queue_messages: Msg -> Row
  job,           \* job[i][m]: the goroutine of instance i that handles m
  hist,          \* sends_log: the status and attempts columns
  submitting,    \* submitting[i]: recorded by i, the INSERT still to come
  retrying,      \* retrying[i]: requeued by i, MarkQueued still to come
  accepted,      \* accepted[m]: recipients an MX took the message for
  rejected,      \* rejected[m]: recipients an MX refused with a 5xx answer
  dup,           \* dup[m]: recipients that were sent the message again
  exposed,       \* exposed[m]: recipients whose acceptance may be forgotten
  crashes, faults, requeues

\* What the world outside has seen: no code reads these four.
outside == <<accepted, rejected, dup, exposed>>
web     == <<hist, submitting, retrying>>
vars    == <<queue, job, web, outside, crashes, faults, requeues>>

----------------------------------------------------------------------------
(***************************************************************************)
(* A goroutine's local state: where it is and its copy of the row.         *)
(* outcome is deliveredAny and permCount > 0, as a set; over and victims   *)
(* are the locals of pruneDead.                                            *)
(***************************************************************************)
PC == {"none", "cand", "ready", "group", "persist", "retry", "release",
       "resolve", "count", "victims", "delete", "markDead", "markDelivered"}

Job == [pc : PC, to : SUBSET Rcpt, permanent : SUBSET Rcpt, attempts : Nat,
        last_error : LastError, outcome : SUBSET {"delivered", "refused"},
        over : Nat, victims : SUBSET Msg]

\* A goroutine that has forgotten the row: not running, or finishing.
Tail(pc) == [pc |-> pc, to |-> {}, permanent |-> {}, attempts |-> 0,
             last_error |-> "none", outcome |-> {}, over |-> 0, victims |-> {}]

NoJob == Tail("none")

\* The places where a goroutine still answers for its copy of the row.
Working == {"cand", "ready", "group", "persist", "retry", "resolve"}

\* The places of a goroutine that holds a slot of the semaphore.
Running == PC \ {"none", "cand", "ready"}

Idle(i) == \A m \in Msg : job[i][m] = NoJob

(***************************************************************************)
(* The status of an entry of sends_log, or why there is none: never added  *)
(* (or dropped), or deleted by PruneSendLogs.  The code cannot tell the    *)
(* last two apart.                                                         *)
(***************************************************************************)
EntryStatus == {"none", "queued", "delivered", "dead", "pruned"}

Logged(entry) == entry.status \notin {"none", "pruned"}

NoEntry     == [status |-> "none", attempts |-> 0]
PrunedEntry == [status |-> "pruned", attempts |-> 0]

TypeOK ==
  /\ queue \in [Msg -> Row]
  /\ job \in [Inst -> [Msg -> Job]]
  /\ hist \in [Msg -> [status : EntryStatus, attempts : Nat]]
  /\ submitting \in [Inst -> SUBSET Msg]
  /\ retrying \in [Inst -> SUBSET Msg]
  /\ accepted \in [Msg -> SUBSET Rcpt]
  /\ rejected \in [Msg -> SUBSET Rcpt]
  /\ dup \in [Msg -> SUBSET Rcpt]
  /\ exposed \in [Msg -> SUBSET Rcpt]
  /\ crashes \in 0..MaxCrashes
  /\ faults \in 0..MaxFaults
  /\ requeues \in 0..MaxRequeues

Init ==
  /\ queue = [m \in Msg |-> NoRow("none")]
  /\ job = [i \in Inst |-> [m \in Msg |-> NoJob]]
  /\ hist = [m \in Msg |-> NoEntry]
  /\ submitting = [i \in Inst |-> {}]
  /\ retrying = [i \in Inst |-> {}]
  /\ accepted = [m \in Msg |-> {}]
  /\ rejected = [m \in Msg |-> {}]
  /\ dup = [m \in Msg |-> {}]
  /\ exposed = [m \in Msg |-> {}]
  /\ crashes = 0
  /\ faults = 0
  /\ requeues = 0

----------------------------------------------------------------------------
(***************************************************************************)
(* How a statement ends: "ok"; "failed", without effect; "lost", with its  *)
(* effect but reporting an error.                                          *)
(***************************************************************************)
Fate == {"ok", "failed", "lost"}

Statement(fate) ==
  IF fate = "ok" THEN faults' = faults
  ELSE faults < MaxFaults /\ faults' = faults + 1

\* The row of m after a statement that would make it row.
Write(m, row, fate) ==
  queue' = IF fate = "failed" THEN queue ELSE [queue EXCEPT ![m] = row]

SetJob(i, m, j) == job' = [job EXCEPT ![i][m] = j]

Goto(i, m, pc) == SetJob(i, m, [job[i][m] EXCEPT !.pc = pc])

\* What a failed statement, or a stop, may cause to be sent again: what an MX
\* has accepted and the row still asks for.
Forgotten(m) == accepted[m] \cap queue[m].to

Expose(m, fate) ==
  exposed' = IF fate = "ok" THEN exposed
             ELSE [exposed EXCEPT ![m] = @ \cup Forgotten(m)]

\* SetSendStatus, UpdateSendLogStatus and BumpSendAttempt update nothing when
\* the entry is missing, and their callers ignore every error.
HistStatus(m, s, fate) ==
  hist' = IF fate = "failed" \/ ~Logged(hist[m]) THEN hist
          ELSE [hist EXCEPT ![m].status = s]

----------------------------------------------------------------------------
(* Submission: the end of DATA in session.go, handleSend in api.go.        *)

\* The numbers are the order of the INSERTs.
Fresh(m) ==
  /\ queue[m].status = "none" /\ hist[m].status = "none"
  /\ \A i \in Inst : m \notin submitting[i]
  /\ \A n \in Msg : n > m => queue[n].status = "none"

\* Mutant: rec.Add is left for after the INSERT.
RecordLate(i, m, fate) ==
  /\ Fresh(m)
  /\ Statement(fate)
  /\ submitting' = [submitting EXCEPT ![i] = @ \cup {m}]
  /\ UNCHANGED <<queue, job, hist, retrying, outside, crashes, requeues>>

\* rec.Add.
Record(i, m, fate) ==
  /\ Fresh(m)
  /\ Statement(fate)
  /\ submitting' = [submitting EXCEPT ![i] = @ \cup {m}]
  /\ hist' = IF fate = "failed" THEN hist
             ELSE [hist EXCEPT ![m] = [status |-> "queued", attempts |-> 0]]
  /\ UNCHANGED <<queue, job, retrying, outside, crashes, requeues>>

\* store.EnqueueWithID, and rec.Drop when it reports an error.
EnqueueWithID(i, m, fate) ==
  /\ m \in submitting[i]
  /\ \A k \in Inst, n \in Msg : n < m => n \notin submitting[k]
  /\ \A n \in Msg : n > m => queue[n].status = "none"
  /\ Statement(fate)
  /\ Write(m, Inserted(m), fate)
  /\ submitting' = [submitting EXCEPT ![i] = @ \ {m}]
  /\ hist' = IF fate = "ok" THEN hist ELSE [hist EXCEPT ![m] = NoEntry]
  /\ UNCHANGED <<job, retrying, outside, crashes, requeues>>

----------------------------------------------------------------------------
(* processBatch and NextDue.                                               *)

Batch == IF Concurrency * 2 < 2 THEN 2 ELSE Concurrency * 2

\* What the SELECT reads of a row; nothing is claimed yet.
Scanned(row) ==
  [Tail("cand") EXCEPT !.to = row.to, !.permanent = row.permanent,
                       !.attempts = row.attempts, !.last_error = row.last_error]

\* The SELECT of NextDue.  The next batch starts when the last one has ended
\* (wg.Wait).
NextDue(i) ==
  /\ Idle(i)
  /\ job' = [job EXCEPT ![i] =
       [m \in Msg |-> IF m \in Candidates(queue, Batch) THEN Scanned(queue[m])
                      ELSE NoJob]]
  /\ UNCHANGED <<queue, web, outside, crashes, faults, requeues>>

FirstCandidate(i, m) ==
  /\ job[i][m].pc = "cand"
  /\ \A n \in Msg : job[i][n].pc = "cand" => m <= n

\* The claiming UPDATE: the row's columns were read earlier and are not read
\* again.
Claim(i, m) ==
  /\ FirstCandidate(i, m)
  /\ IF Claimable(queue[m])
     THEN /\ queue' = [queue EXCEPT ![m] = Claimed(queue[m])]
          /\ Goto(i, m, "ready")
     ELSE /\ SetJob(i, m, NoJob)
          /\ UNCHANGED queue
  /\ UNCHANGED <<web, outside, crashes, faults, requeues>>

\* A claim that reports an error: NextDue returns it, and the rows claimed
\* so far stay leased with nobody to deliver them.
ClaimFails(i, m, fate) ==
  /\ FirstCandidate(i, m)
  /\ fate # "ok" /\ Statement(fate)
  /\ Write(m, IF Claimable(queue[m]) THEN Claimed(queue[m]) ELSE queue[m], fate)
  /\ job' = [job EXCEPT ![i] = [n \in Msg |-> NoJob]]
  /\ UNCHANGED <<web, outside, crashes, requeues>>

\* Mutant: BumpAttempt is forgotten.
StartUncounted(i, m, fate) ==
  /\ job[i][m].pc = "ready"
  /\ \A n \in Msg : job[i][n].pc # "cand"
  /\ Cardinality({n \in Msg : job[i][n].pc \in Running}) < Concurrency
  /\ Statement(fate)
  /\ Goto(i, m, "group")
  /\ UNCHANGED <<queue, web, outside, crashes, requeues>>

\* A goroutine passes the semaphore; rec.BumpAttempt.
Start(i, m, fate) ==
  /\ job[i][m].pc = "ready"
  /\ \A n \in Msg : job[i][n].pc # "cand"
  /\ Cardinality({n \in Msg : job[i][n].pc \in Running}) < Concurrency
  /\ Statement(fate)
  /\ hist' = IF fate = "failed" \/ ~Logged(hist[m]) THEN hist
             ELSE [hist EXCEPT ![m].attempts = @ + 1]
  /\ Goto(i, m, "group")
  /\ UNCHANGED <<queue, submitting, retrying, outside, crashes, requeues>>

----------------------------------------------------------------------------
(* deliver: one iteration of the loop per domain.                          *)

\* splitByDomain.  Which domain comes first depends on the order of the list,
\* which failed attempts rotate: any may.
Groups(to) == {{r \in to : DomainOf[r] = DomainOf[s]} : s \in to}

\* An MX takes the message for the recipients R of m.
Accept(m, R) ==
  /\ accepted' = [accepted EXCEPT ![m] = @ \cup R]
  /\ dup' = [dup EXCEPT ![m] = @ \cup (R \cap accepted[m])]

\* deliverGroup returns no error: every recipient of the group is either
\* delivered or permanently refused.  Persist does nothing once no recipient
\* is left, so the loop ends there.
GroupAnswered(i, m) ==
  LET j == job[i][m] IN
  /\ j.pc = "group"
  /\ \E G \in Groups(j.to), D \in SUBSET Rcpt :
       LET left == j.to \ G IN
       /\ D \subseteq G
       /\ Accept(m, D)
       /\ rejected' = [rejected EXCEPT ![m] = @ \cup (G \ D)]
       /\ SetJob(i, m, [j EXCEPT
            !.pc = IF left = {} THEN "resolve" ELSE "persist",
            !.to = left,
            !.permanent = @ \cup (G \ D),
            !.outcome = @ \cup (IF D = {} THEN {} ELSE {"delivered"})
                          \cup (IF D = G THEN {} ELSE {"refused"})])
  /\ UNCHANGED <<queue, web, exposed, crashes, faults, requeues>>

\* Mutant: the failed group is not put back before the loop ends.
GroupFailedDropsGroup(i, m) ==
  /\ job[i][m].pc = "group"
  /\ \E G \in Groups(job[i][m].to), A \in SUBSET Rcpt :
       /\ A \subseteq G
       /\ Accept(m, A)
       /\ exposed' = [exposed EXCEPT ![m] = @ \cup A]
       /\ SetJob(i, m, [job[i][m] EXCEPT !.pc = "retry", !.to = @ \ G])
  /\ UNCHANGED <<queue, web, rejected, crashes, faults, requeues>>

\* deliverGroup returns an error: the whole group stays and the loop ends.
\* When only the answer to the message was lost, the MX did accept it for A.
GroupFailed(i, m) ==
  /\ job[i][m].pc = "group"
  /\ \E G \in Groups(job[i][m].to), A \in SUBSET Rcpt :
       /\ A \subseteq G
       /\ Accept(m, A)
       /\ exposed' = [exposed EXCEPT ![m] = @ \cup A]
  /\ Goto(i, m, "retry")
  /\ UNCHANGED <<queue, web, rejected, crashes, faults, requeues>>

\* Persist after a group; its error is logged and the loop goes on.
PersistProgress(i, m, fate) ==
  LET j == job[i][m] IN
  /\ j.pc = "persist"
  /\ Statement(fate)
  /\ Write(m, Persisted(queue[m], j.to, j.permanent, j.attempts, "due",
                        j.last_error), fate)
  /\ Expose(m, fate)
  /\ Goto(i, m, "group")
  /\ UNCHANGED <<web, accepted, rejected, dup, crashes, requeues>>

\* Where deadLetter goes after its UPDATE; an error ends the delivery with
\* the lease still held.
AfterBury(fate) ==
  IF fate # "ok" THEN NoJob
  ELSE IF DeadMax = 0 THEN Tail("markDead") ELSE Tail("count")

\* The attempts are exhausted: deadLetter.
GiveUp(i, m, fate) ==
  /\ job[i][m].pc = "retry"
  /\ job[i][m].attempts + 1 >= MaxAttempts
  /\ Statement(fate)
  /\ Write(m, Buried(queue[m], "exhausted"), fate)
  /\ Expose(m, fate)
  /\ SetJob(i, m, AfterBury(fate))
  /\ UNCHANGED <<web, accepted, rejected, dup, crashes, requeues>>

\* Mutant: Attempts++ is forgotten.
PostponeUncounted(i, m, fate) ==
  LET j == job[i][m] IN
  /\ j.pc = "retry"
  /\ j.attempts + 1 < MaxAttempts
  /\ Statement(fate)
  /\ Write(m, Persisted(queue[m], j.to, j.permanent, j.attempts, "later",
                        "transient"), fate)
  /\ Expose(m, fate)
  /\ SetJob(i, m, Tail("release"))
  /\ UNCHANGED <<web, accepted, rejected, dup, crashes, requeues>>

\* The next attempt is scheduled: Persist, whose error is only logged.
Postpone(i, m, fate) ==
  LET j == job[i][m] IN
  /\ j.pc = "retry"
  /\ j.attempts + 1 < MaxAttempts
  /\ Statement(fate)
  /\ Write(m, Persisted(queue[m], j.to, j.permanent, j.attempts + 1, "later",
                        "transient"), fate)
  /\ Expose(m, fate)
  /\ SetJob(i, m, Tail("release"))
  /\ UNCHANGED <<web, accepted, rejected, dup, crashes, requeues>>

Release(i, m, fate) ==
  /\ job[i][m].pc = "release"
  /\ Statement(fate)
  /\ Write(m, Released(queue[m]), fate)
  /\ SetJob(i, m, NoJob)
  /\ UNCHANGED <<web, outside, crashes, requeues>>

\* Mutant: one refusal is enough, deliveredAny is not looked at.
RejectAllPartly(i, m, fate) ==
  /\ job[i][m].pc = "resolve"
  /\ "refused" \in job[i][m].outcome
  /\ Statement(fate)
  /\ Write(m, Buried(queue[m], "rejected"), fate)
  /\ Expose(m, fate)
  /\ SetJob(i, m, AfterBury(fate))
  /\ UNCHANGED <<web, accepted, rejected, dup, crashes, requeues>>

\* Nobody accepted: deadLetter.
RejectAll(i, m, fate) ==
  /\ job[i][m].pc = "resolve"
  /\ job[i][m].outcome = {"refused"}
  /\ Statement(fate)
  /\ Write(m, Buried(queue[m], "rejected"), fate)
  /\ Expose(m, fate)
  /\ SetJob(i, m, AfterBury(fate))
  /\ UNCHANGED <<web, accepted, rejected, dup, crashes, requeues>>

\* Mutant: a delivery that succeeds returns without telling the history.
SucceedUnrecorded(i, m, fate) ==
  /\ job[i][m].pc = "resolve"
  /\ job[i][m].outcome # {"refused"}
  /\ Statement(fate)
  /\ Write(m, Succeeded(queue[m]), fate)
  /\ Expose(m, fate)
  /\ SetJob(i, m, NoJob)
  /\ UNCHANGED <<web, accepted, rejected, dup, crashes, requeues>>

\* Somebody accepted: the row is deleted.  An error returns at once.
Succeed(i, m, fate) ==
  /\ job[i][m].pc = "resolve"
  /\ job[i][m].outcome # {"refused"}
  /\ Statement(fate)
  /\ Write(m, Succeeded(queue[m]), fate)
  /\ Expose(m, fate)
  /\ SetJob(i, m, IF fate = "ok" THEN Tail("markDelivered") ELSE NoJob)
  /\ UNCHANGED <<web, accepted, rejected, dup, crashes, requeues>>

----------------------------------------------------------------------------
(* pruneDead, statement by statement, and the history's last update.  An   *)
(* error anywhere in pruneDead is returned by DeadLetter, and deadLetter   *)
(* then leaves the history alone.                                          *)

\* Mutant: the early return when nothing is over the cap is missing.
PruneCountUnchecked(i, m, fate) ==
  /\ job[i][m].pc = "count"
  /\ Statement(fate)
  /\ LET over == Cardinality(Dead(queue)) - DeadMax IN
     SetJob(i, m, IF fate # "ok" THEN NoJob
                  ELSE [Tail("victims") EXCEPT !.over = over])
  /\ UNCHANGED <<queue, web, outside, crashes, requeues>>

\* Mutant: one dead row too many is tolerated.
PruneCountOffByOne(i, m, fate) ==
  /\ job[i][m].pc = "count"
  /\ Statement(fate)
  /\ LET over == Cardinality(Dead(queue)) - DeadMax - 1 IN
     SetJob(i, m, IF fate # "ok" THEN NoJob
                  ELSE IF over <= 0 THEN Tail("markDead")
                  ELSE [Tail("victims") EXCEPT !.over = over])
  /\ UNCHANGED <<queue, web, outside, crashes, requeues>>

\* SELECT COUNT, then the early return when the cap is respected.
PruneCount(i, m, fate) ==
  /\ job[i][m].pc = "count"
  /\ Statement(fate)
  /\ LET over == Cardinality(Dead(queue)) - DeadMax IN
     SetJob(i, m, IF fate # "ok" THEN NoJob
                  ELSE IF over <= 0 THEN Tail("markDead")
                  ELSE [Tail("victims") EXCEPT !.over = over])
  /\ UNCHANGED <<queue, web, outside, crashes, requeues>>

\* SELECT id of the oldest dead rows, as many as the count said.
PruneSelect(i, m, fate) ==
  /\ job[i][m].pc = "victims"
  /\ Statement(fate)
  /\ LET victims == Oldest(Dead(queue), job[i][m].over) IN
     SetJob(i, m, IF fate # "ok" THEN NoJob
                  ELSE IF victims = {} THEN Tail("markDead")
                  ELSE [Tail("delete") EXCEPT !.victims = victims])
  /\ UNCHANGED <<queue, web, outside, crashes, requeues>>

PruneDelete(i, m, fate) ==
  LET victims == job[i][m].victims IN
  /\ job[i][m].pc = "delete"
  /\ Statement(fate)
  /\ \E v \in Oldest(victims, 1) :
       /\ Write(v, Pruned(queue[v]), fate)
       /\ SetJob(i, m, IF fate # "ok" THEN NoJob
                       ELSE IF victims = {v} THEN Tail("markDead")
                       ELSE [Tail("delete") EXCEPT !.victims = victims \ {v}])
  /\ UNCHANGED <<web, outside, crashes, requeues>>

MarkDead(i, m, fate) ==
  /\ job[i][m].pc = "markDead"
  /\ Statement(fate)
  /\ HistStatus(m, "dead", fate)
  /\ SetJob(i, m, NoJob)
  /\ UNCHANGED <<queue, submitting, retrying, outside, crashes, requeues>>

MarkDelivered(i, m, fate) ==
  /\ job[i][m].pc = "markDelivered"
  /\ Statement(fate)
  /\ HistStatus(m, "delivered", fate)
  /\ SetJob(i, m, NoJob)
  /\ UNCHANGED <<queue, submitting, retrying, outside, crashes, requeues>>

----------------------------------------------------------------------------
(* handleRequeue: the UPDATE, then the history.  At most one request per   *)
(* instance and message is between the two.                                *)

RequeueDead(i, m, fate) ==
  /\ requeues < MaxRequeues /\ m \notin retrying[i]
  /\ queue[m].status = "dead"
  /\ Statement(fate)
  /\ Write(m, Requeued(queue[m]), fate)
  /\ requeues' = requeues + 1
  /\ retrying' = IF fate = "ok" THEN [retrying EXCEPT ![i] = @ \cup {m}]
                 ELSE retrying
  /\ UNCHANGED <<job, hist, submitting, outside, crashes>>

MarkQueued(i, m, fate) ==
  /\ m \in retrying[i]
  /\ Statement(fate)
  /\ retrying' = [retrying EXCEPT ![i] = @ \ {m}]
  /\ hist' = IF fate = "failed" \/ ~Logged(hist[m]) THEN hist
             ELSE [hist EXCEPT ![m] = [status |-> "queued", attempts |-> 0]]
  /\ UNCHANGED <<queue, job, submitting, outside, crashes, requeues>>

----------------------------------------------------------------------------
(* The retention of the history: main, at the start and every hour.        *)

\* PruneSendLogs deletes the entries A that are older than the window,
\* whatever the queue says of their messages.  Which ones are that old is left
\* open.  Its error is only logged.
PruneSendLogs(A, fate) ==
  /\ HistoryDays > 0
  /\ A # {} /\ \A m \in A : Logged(hist[m])
  /\ Statement(fate)
  /\ hist' = IF fate = "failed" THEN hist
             ELSE [m \in Msg |-> IF m \in A THEN PrunedEntry ELSE hist[m]]
  /\ UNCHANGED <<queue, job, submitting, retrying, outside, crashes, requeues>>

----------------------------------------------------------------------------
(* What the instances do not control.                                      *)

\* An instance stops and starts again: everything in memory is gone.
Crash(i) ==
  /\ crashes < MaxCrashes
  /\ ~Idle(i) \/ submitting[i] # {} \/ retrying[i] # {}
  /\ crashes' = crashes + 1
  /\ exposed' = [m \in Msg |-> IF job[i][m].pc = "none" THEN exposed[m]
                               ELSE exposed[m] \cup Forgotten(m)]
  /\ job' = [job EXCEPT ![i] = [m \in Msg |-> NoJob]]
  /\ submitting' = [submitting EXCEPT ![i] = {}]
  /\ retrying' = [retrying EXCEPT ![i] = {}]
  /\ UNCHANGED <<queue, hist, accepted, rejected, dup, faults, requeues>>

\* now passes lease_until (LeaseTimeout after the claim), now passes
\* next_attempt.
LeaseExpires(m) ==
  /\ queue[m].lease = "held"
  /\ queue' = [queue EXCEPT ![m].lease = "free"]
  /\ UNCHANGED <<job, web, outside, crashes, faults, requeues>>

BackoffElapses(m) ==
  /\ queue[m].next_attempt = "later"
  /\ queue' = [queue EXCEPT ![m].next_attempt = "due"]
  /\ UNCHANGED <<job, web, outside, crashes, faults, requeues>>

----------------------------------------------------------------------------
\* A goroutine of instance i handling m.
JobStep(i, m) ==
  \/ Claim(i, m)
  \/ GroupAnswered(i, m)
  \/ GroupFailed(i, m)
  \/ \E fate \in Fate :
       \/ ClaimFails(i, m, fate)
       \/ Start(i, m, fate)
       \/ PersistProgress(i, m, fate)
       \/ GiveUp(i, m, fate)
       \/ Postpone(i, m, fate)
       \/ Release(i, m, fate)
       \/ RejectAll(i, m, fate)
       \/ Succeed(i, m, fate)
       \/ PruneCount(i, m, fate)
       \/ PruneSelect(i, m, fate)
       \/ PruneDelete(i, m, fate)
       \/ MarkDead(i, m, fate)
       \/ MarkDelivered(i, m, fate)

\* A request to instance i about m.
Request(i, m) ==
  \E fate \in Fate :
    \/ Record(i, m, fate)
    \/ EnqueueWithID(i, m, fate)
    \/ RequeueDead(i, m, fate)
    \/ MarkQueued(i, m, fate)

\* The hourly pruning of the history, of whichever instance.
Retention == \E A \in SUBSET Msg, fate \in Fate : PruneSendLogs(A, fate)

Deliverer(i) == NextDue(i) \/ \E m \in Msg : JobStep(i, m)

Next ==
  \/ \E i \in Inst : Deliverer(i) \/ Crash(i) \/ \E m \in Msg : Request(i, m)
  \/ \E m \in Msg : LeaseExpires(m) \/ BackoffElapses(m)
  \/ Retention

Spec == Init /\ [][Next]_vars

(***************************************************************************)
(* A deliverer that can take a step takes one: Run's ticker fires forever, *)
(* every network call has a deadline and every statement returns.  Time    *)
(* passes, so leases and back-offs end.  Nothing is assumed of clients, of *)
(* operators or of what the MX servers answer.                             *)
(***************************************************************************)
Fairness ==
  /\ \A i \in Inst : WF_vars(Deliverer(i))
  /\ \A m \in Msg : WF_vars(LeaseExpires(m)) /\ WF_vars(BackoffElapses(m))

FairSpec == Spec /\ Fairness

----------------------------------------------------------------------------
(* What the deliverer promises.                                            *)

Settled(m) == accepted[m] \cup rejected[m]

\* No recipient is ever dropped silently: one that has left the row's to_json,
\* and every one of a message that Succeed deleted, was accepted or refused
\* with a 5xx answer by its MX.  Persist and Succeed work from a copy of the
\* row that may be stale and check nothing.
NoLoss ==
  \A m \in Msg :
    /\ Present(queue[m]) => Envelope[m] \ queue[m].to \subseteq Settled(m)
    /\ queue[m].status = "done" => Envelope[m] \subseteq Settled(m)

\* The same of every goroutine's copy, which is what makes NoLoss inductive.
CopyNoLoss ==
  \A i \in Inst, m \in Msg :
    /\ job[i][m].pc \in Working =>
         Envelope[m] \ job[i][m].to \subseteq Settled(m)
    /\ job[i][m].pc = "resolve" => job[i][m].to = {}

\* Recipients are never invented, and no goroutine works on a message that was
\* never inserted.
InEnvelope ==
  \A m \in Msg :
    /\ queue[m].to \subseteq Envelope[m]
    /\ Settled(m) \subseteq Envelope[m]
    /\ \A i \in Inst :
         /\ job[i][m].to \subseteq Envelope[m]
         /\ job[i][m].pc \in Working => queue[m].status # "none"

\* A message is inserted once.
Submissions ==
  \A i \in Inst, m \in Msg : m \in submitting[i] =>
    /\ queue[m].status = "none"
    /\ \A k \in Inst : m \in submitting[k] => k = i

\* The inductive invariant behind NoLoss and ImplementsMailQueue.
Accounted == TypeOK /\ NoLoss /\ CopyNoLoss /\ InEnvelope /\ Submissions

\* A recipient is sent a message again only after a stop, a failed statement
\* or a lost answer between the MX's acceptance and the row's update: the
\* at-least-once window of NextDue's comment and of the README.
DuplicateWindow == \A m \in Msg : dup[m] \subseteq exposed[m]

\* Unless something failed, a held lease has a goroutine behind it: each of
\* deliver's exits gives the lease back or deletes the row.
ClaimNotOrphaned ==
  crashes = 0 /\ faults = 0 =>
    \A m \in Msg : queue[m].lease = "held" =>
      \E i \in Inst : job[i][m].pc \in (Working \ {"cand"})

\* A row dead because all its recipients rejected it asks a retry only for
\* recipients that an MX refused with a 5xx answer.  One of them may have the
\* message all the same, taken by an MX before it was refused, but only inside
\* the at-least-once window: that answer was lost.
RejectedWereRefused ==
  \A m \in Msg :
    queue[m].status = "dead" /\ queue[m].last_error = "rejected" =>
      /\ queue[m].to \subseteq rejected[m]
      /\ queue[m].to \cap accepted[m] \subseteq exposed[m]

\* With nothing in progress and nothing having failed, the dead rows respect
\* the cap, although each pruneDead works on a count of its own.
DeadCapped ==
  DeadMax > 0 /\ crashes = 0 /\ faults = 0 /\ (\A i \in Inst : Idle(i)) =>
    Cardinality(Dead(queue)) <= DeadMax

\* The panel's history and the queue agree once nothing is in progress and
\* nothing has failed (sends.go: "kept in sync with storage.Status*"), for
\* every entry that PruneSendLogs has not deleted.  A retry weakens this:
\* handleRequeue wakes the deliverer before MarkQueued, which may overwrite the
\* end of the new delivery, and MarkDead of the old one may come after it.
\* Even then nothing undelivered is shown as delivered, and nothing delivered
\* as dead.
HistoryInSync ==
  /\ crashes = 0 /\ faults = 0
  /\ \A i \in Inst : Idle(i) /\ submitting[i] = {} /\ retrying[i] = {}
  => \A m \in Msg :
       LET entry == hist[m].status
           row   == queue[m].status
       IN
       \/ entry = row
       \/ entry = "delivered" /\ row = "done"
       \/ entry = "dead" /\ row = "pruned"
       \/ entry = "pruned" /\ row # "none"
       \/ requeues > 0 /\ entry = "queued" /\ row # "none"
       \/ requeues > 0 /\ entry = "dead" /\ row = "queued"

\* Whatever the deliverers, retries and stops do, a row that was ever inserted
\* has its history entry, unless PruneSendLogs has deleted it: no delivery
\* within the retention finds nothing to update (the comment in handleData).
\* And unless an instance stopped between the two, an entry belongs to a
\* message that was queued or is about to be.
RecordedFirst ==
  /\ faults = 0 =>
       \A m \in Msg : queue[m].status # "none" =>
         Logged(hist[m]) \/ hist[m].status = "pruned"
  /\ faults = 0 /\ crashes = 0 =>
       \A m \in Msg : Logged(hist[m]) =>
         queue[m].status # "none" \/ \E i \in Inst : m \in submitting[i]

\* An entry that is still there has counted every attempt the queue has:
\* BumpAttempt comes before the attempt, Attempts++ after it, in another table.
\* (Without a retry request, whose MarkQueued resets the count.)
AttemptsRecorded ==
  faults = 0 /\ requeues = 0 =>
    \A m \in Msg : hist[m].status # "pruned" =>
      /\ hist[m].attempts >= queue[m].attempts
      /\ queue[m].status = "dead" /\ queue[m].last_error = "exhausted" =>
           hist[m].attempts >= MaxAttempts

\* Every queued message leaves the queue: delivered, or dead after at most
\* max_attempts tries, whatever the MX servers answer and however leases,
\* back-offs, stops and failed statements fall.
Drains ==
  \A m \in Msg : queue[m].status = "queued" ~> queue[m].status # "queued"

\* The deliverers, their leases and their copies implement the promise made
\* to the submitter, for any number of instances, stops and failures.
MQ == INSTANCE MailQueue WITH state <- [m \in Msg |-> queue[m].status],
                              settled <- [m \in Msg |-> Settled(m)]

ImplementsMailQueue == MQ!Spec
============================================================================
