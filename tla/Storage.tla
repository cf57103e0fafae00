------------------------------ MODULE Storage ------------------------------
(***************************************************************************)
(* The queue_messages table of internal/storage: what one row holds and    *)
(* what each SQL statement of queue.go does to it.  A statement is atomic; *)
(* the modules that extend this one decide how the statements interleave.  *)
(*                                                                         *)
(* Messages are numbered in the order of their created_at column, so the   *)
(* ORDER BY created_at of the queries is the order of the numbers.         *)
(*                                                                         *)
(* Time is abstract.  next_attempt is "due" (zero, or in the past) or      *)
(* "later"; lease_until is "free" (zero, or in the past) or "held".        *)
(* worker_id is written by the statements and read by none: left out.      *)
(***************************************************************************)
EXTENDS Integers, FiniteSets

CONSTANTS
  NMsg,          \* how many messages clients submit
  Rcpt,          \* recipient addresses
  Envelope       \* Envelope[m]: the recipients message m was submitted with

Msg == 1..NMsg

\* EnqueueWithID refuses an empty recipient list, and both its callers have
\* checked the list before.
ASSUME StorageAssumption ==
  /\ NMsg \in Nat
  /\ Envelope \in [Msg -> (SUBSET Rcpt) \ {{}}]

(***************************************************************************)
(* "queued" and "dead" are the two values of the status column.  The other *)
(* three are ways of not being in the table: never inserted, deleted by    *)
(* Succeed, deleted by pruneDead.  The code cannot tell them apart.        *)
(***************************************************************************)
Status == {"none", "queued", "dead", "done", "pruned"}

LastError == {"none", "transient", "rejected", "exhausted"}

Row == [status : Status, to : SUBSET Rcpt, permanent : SUBSET Rcpt,
        attempts : Nat, next_attempt : {"due", "later"},
        lease : {"free", "held"}, last_error : LastError]

Present(row) == row.status \in {"queued", "dead"}

\* A row that is not in the table; s tells why.
NoRow(s) ==
  [status |-> s, to |-> {}, permanent |-> {}, attempts |-> 0,
   next_attempt |-> "due", lease |-> "free", last_error |-> "none"]

\* The k smallest numbers of S: ORDER BY created_at ASC LIMIT k.
Oldest(S, k) == {m \in S : Cardinality({n \in S : n < m}) < k}

----------------------------------------------------------------------------
(* The statements of queue.go.                                             *)

\* EnqueueWithID: the INSERT.
Inserted(m) ==
  [NoRow("queued") EXCEPT !.to = Envelope[m]]

\* NextDue: the SELECT.  It looks at status and next_attempt, not at the lease.
Due(row) == row.status = "queued" /\ row.next_attempt = "due"

Candidates(table, limit) == Oldest({m \in Msg : Due(table[m])}, limit)

\* NextDue: the WHERE and the SET of the claiming UPDATE.
Claimable(row) == row.status = "queued" /\ row.lease = "free"

Claimed(row) == [row EXCEPT !.lease = "held"]

\* Mutant: the UPDATE of Persist forgets to_json.
PersistedWithoutTo(row, to, permanent, attempts, next, err) ==
  IF to = {} \/ ~Present(row) THEN row
  ELSE [row EXCEPT !.permanent = permanent, !.attempts = attempts,
                   !.next_attempt = next, !.last_error = err, !.lease = "free"]

\* Persist: returns early when no recipient is left; the UPDATE has no guard
\* on the status and always gives the lease back.
Persisted(row, to, permanent, attempts, next, err) ==
  IF to = {} \/ ~Present(row) THEN row
  ELSE [row EXCEPT !.to = to, !.permanent = permanent,
                   !.attempts = attempts, !.next_attempt = next,
                   !.last_error = err, !.lease = "free"]

\* Mutant: the DELETE of Succeed does not look at the status.
SucceededAnyStatus(row) == IF Present(row) THEN NoRow("done") ELSE row

\* Succeed: DELETE ... AND status = 'queued'.
Succeeded(row) == IF row.status = "queued" THEN NoRow("done") ELSE row

\* Release.
Released(row) == IF Present(row) THEN [row EXCEPT !.lease = "free"] ELSE row

\* Mutant: the UPDATE of DeadLetter keeps the lease.
BuriedKeepsLease(row, reason) ==
  IF ~Present(row) THEN row
  ELSE [row EXCEPT !.status = "dead", !.last_error = reason,
                   !.next_attempt = "due"]

\* DeadLetter: the UPDATE, without a guard on the status.
Buried(row, reason) ==
  IF ~Present(row) THEN row
  ELSE [row EXCEPT !.status = "dead", !.last_error = reason,
                   !.next_attempt = "due", !.lease = "free"]

\* RequeueDead: the UPDATE; it is guarded by status = 'dead'.
Requeued(row) ==
  [row EXCEPT !.status = "queued", !.attempts = 0, !.next_attempt = "due",
              !.last_error = "none", !.lease = "free"]

\* pruneDead: COUNT(*), the SELECT of the victims and the DELETE.
Dead(table) == {m \in Msg : table[m].status = "dead"}

Pruned(row) == IF row.status = "dead" THEN NoRow("pruned") ELSE row
============================================================================
