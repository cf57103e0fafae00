-------------------------- MODULE RelayQueueProofs --------------------------
(***************************************************************************)
(* Four more promises of Relay, for every value of the constants and any   *)
(* number of instances: no lease is left without a goroutine, every row    *)
(* has its entry in the history until the entry is pruned, an entry counts *)
(* every attempt, and the dead rows respect their cap.                     *)
(***************************************************************************)
EXTENDS RelayProofs

----------------------------------------------------------------------------
(* What a step does to the message it is about, and to the others.         *)

\* The step leaves message n and everybody's work on it alone.
Quiet(n) ==
  /\ queue'[n] = queue[n] /\ hist'[n] = hist[n]
  /\ \A k \in Inst : /\ job'[k][n] = job[k][n]
                     /\ n \in submitting'[k] <=> n \in submitting[k]
                     /\ n \in retrying'[k] <=> n \in retrying[k]

\* A step of the goroutine of i on m: the row, the goroutine and the history
\* entry become row, j and h, and nothing else changes in the database or in
\* anybody's memory.
Touch(i, m, row, j, h) ==
  /\ queue'[m] = row /\ hist'[m] = h
  /\ job'[i][m] = j
  /\ \A k \in Inst \ {i} : job'[k][m] = job[k][m]
  /\ UNCHANGED <<submitting, retrying, crashes, requeues>>
  /\ \A n \in Msg \ {m} : Quiet(n)

\* The row after a statement that ends with fate.
After(old, new, fate) == IF fate = "failed" THEN old ELSE new

\* The history entry after HistStatus.
Marked(h, s, fate) ==
  IF fate = "failed" \/ ~Logged(h) THEN h ELSE [h EXCEPT !.status = s]

\* The history entry after BumpAttempt.
Bumped(h, fate) ==
  IF fate = "failed" \/ ~Logged(h) THEN h
  ELSE [h EXCEPT !.attempts = @ + 1]

\* SetJob changes one goroutine.
LEMMA SetJobAt ==
  ASSUME TypeOK, NEW i \in Inst, NEW m \in Msg, NEW j, SetJob(i, m, j)
  PROVE  /\ job'[i][m] = j
         /\ \A k \in Inst \ {i} : job'[k][m] = job[k][m]
         /\ \A n \in Msg \ {m}, k \in Inst : job'[k][n] = job[k][n]
BY DEF TypeOK, SetJob

\* A statement changes one row.
LEMMA WriteAt ==
  ASSUME TypeOK, NEW m \in Msg, NEW row, NEW fate, Write(m, row, fate)
  PROVE  /\ queue'[m] = After(queue[m], row, fate)
         /\ \A n \in Msg \ {m} : queue'[n] = queue[n]
BY DEF TypeOK, Write, After

\* A step that only touches the row and the goroutine.
LEMMA TouchRow ==
  ASSUME TypeOK, NEW i \in Inst, NEW m \in Msg, NEW row, NEW fate, NEW j,
         Write(m, row, fate), SetJob(i, m, j),
         UNCHANGED <<web, crashes, requeues>>
  PROVE  Touch(i, m, After(queue[m], row, fate), j, hist[m])
<1>1. /\ job'[i][m] = j
      /\ \A k \in Inst \ {i} : job'[k][m] = job[k][m]
      /\ \A n \in Msg \ {m}, k \in Inst : job'[k][n] = job[k][n]
  BY SetJobAt
<1>2. /\ queue'[m] = After(queue[m], row, fate)
      /\ \A n \in Msg \ {m} : queue'[n] = queue[n]
  BY WriteAt
<1>3. UNCHANGED <<hist, submitting, retrying, crashes, requeues>>
  BY DEF web
<1> QED
  BY <1>1, <1>2, <1>3 DEF Touch, Quiet

\* A step that only touches the goroutine.
LEMMA TouchJob ==
  ASSUME TypeOK, NEW i \in Inst, NEW m \in Msg, NEW j,
         SetJob(i, m, j), UNCHANGED <<queue, web, crashes, requeues>>
  PROVE  Touch(i, m, queue[m], j, hist[m])
<1>1. /\ job'[i][m] = j
      /\ \A k \in Inst \ {i} : job'[k][m] = job[k][m]
      /\ \A n \in Msg \ {m}, k \in Inst : job'[k][n] = job[k][n]
  BY SetJobAt
<1>2. UNCHANGED <<queue, hist, submitting, retrying, crashes, requeues>>
  BY DEF web
<1> QED
  BY <1>1, <1>2 DEF Touch, Quiet

\* A step that touches the goroutine and the history.
LEMMA TouchHist ==
  ASSUME TypeOK, NEW i \in Inst, NEW m \in Msg, NEW j, NEW h,
         SetJob(i, m, j), hist' = [hist EXCEPT ![m] = h] \/ (hist' = hist /\ h = hist[m]),
         UNCHANGED <<queue, submitting, retrying, crashes, requeues>>
  PROVE  Touch(i, m, queue[m], j, h)
<1>1. /\ job'[i][m] = j
      /\ \A k \in Inst \ {i} : job'[k][m] = job[k][m]
      /\ \A n \in Msg \ {m}, k \in Inst : job'[k][n] = job[k][n]
  BY SetJobAt
<1>2. hist'[m] = h /\ \A n \in Msg \ {m} : hist'[n] = hist[n]
  BY DEF TypeOK
<1> QED
  BY <1>1, <1>2 DEF Touch, Quiet

----------------------------------------------------------------------------
(* The steps of a goroutine.                                               *)

\* NextDue's claiming UPDATE.
LEMMA TouchClaim ==
  ASSUME TypeOK, NEW i \in Inst, NEW m \in Msg, Claim(i, m)
  PROVE  /\ job[i][m].pc = "cand" /\ faults' = faults
         /\ \/ /\ Claimable(queue[m])
               /\ Touch(i, m, Claimed(queue[m]),
                        [job[i][m] EXCEPT !.pc = "ready"], hist[m])
            \/ /\ ~Claimable(queue[m])
               /\ Touch(i, m, queue[m], NoJob, hist[m])
<1>1. CASE Claimable(queue[m])
  <2>1. Write(m, Claimed(queue[m]), "ok")
    BY <1>1 DEF Claim, Write
  <2>2. SetJob(i, m, [job[i][m] EXCEPT !.pc = "ready"])
    BY <1>1 DEF Claim, Goto
  <2>3. Touch(i, m, After(queue[m], Claimed(queue[m]), "ok"),
              [job[i][m] EXCEPT !.pc = "ready"], hist[m])
    BY <2>1, <2>2, TouchRow DEF Claim
  <2>4. After(queue[m], Claimed(queue[m]), "ok") = Claimed(queue[m])
    BY DEF After
  <2> QED
    BY <1>1, <2>3, <2>4 DEF Claim, FirstCandidate
<1>2. CASE ~Claimable(queue[m])
  BY <1>2, TouchJob DEF Claim, FirstCandidate
<1> QED
  BY <1>1, <1>2

\* The start of deliver, with BumpAttempt.
LEMMA TouchStart ==
  ASSUME TypeOK, NEW i \in Inst, NEW m \in Msg, NEW fate, Start(i, m, fate)
  PROVE  /\ job[i][m].pc = "ready" /\ Statement(fate)
         /\ Touch(i, m, queue[m], [job[i][m] EXCEPT !.pc = "group"],
                  Bumped(hist[m], fate))
<1>1. SetJob(i, m, [job[i][m] EXCEPT !.pc = "group"])
  BY DEF Start, Goto
<1>2. \/ hist' = [hist EXCEPT ![m] = Bumped(hist[m], fate)]
      \/ hist' = hist /\ Bumped(hist[m], fate) = hist[m]
  BY DEF Start, Bumped
<1> QED
  BY <1>1, <1>2, TouchHist DEF Start

\* The last updates of the history.
LEMMA TouchMark ==
  ASSUME TypeOK, NEW i \in Inst, NEW m \in Msg, NEW fate,
         MarkDead(i, m, fate) \/ MarkDelivered(i, m, fate)
  PROVE  /\ Statement(fate)
         /\ \/ /\ job[i][m].pc = "markDead"
               /\ Touch(i, m, queue[m], NoJob, Marked(hist[m], "dead", fate))
            \/ /\ job[i][m].pc = "markDelivered"
               /\ Touch(i, m, queue[m], NoJob, Marked(hist[m], "delivered", fate))
<1>1. ASSUME NEW s, HistStatus(m, s, fate)
      PROVE  \/ hist' = [hist EXCEPT ![m] = Marked(hist[m], s, fate)]
             \/ hist' = hist /\ Marked(hist[m], s, fate) = hist[m]
  BY <1>1 DEF HistStatus, Marked
<1>2. CASE MarkDead(i, m, fate)
  BY <1>1, <1>2, TouchHist DEF MarkDead
<1>3. CASE MarkDelivered(i, m, fate)
  BY <1>1, <1>3, TouchHist DEF MarkDelivered
<1> QED
  BY <1>2, <1>3

\* The copy after a conversation that settled the group G, D of it delivered.
Answered(j, G, D) ==
  [j EXCEPT !.pc = IF j.to \ G = {} THEN "resolve" ELSE "persist",
            !.to = j.to \ G,
            !.permanent = @ \cup (G \ D),
            !.outcome = @ \cup (IF D = {} THEN {} ELSE {"delivered"})
                          \cup (IF D = G THEN {} ELSE {"refused"})]

\* A deliverGroup that returns no error.
LEMMA TouchAnswered ==
  ASSUME TypeOK, NEW i \in Inst, NEW m \in Msg, GroupAnswered(i, m)
  PROVE  /\ job[i][m].pc = "group" /\ faults' = faults
         /\ \E G \in Groups(job[i][m].to), D \in SUBSET Rcpt :
              /\ D \subseteq G
              /\ Accept(m, D)
              /\ rejected' = [rejected EXCEPT ![m] = @ \cup (G \ D)]
              /\ exposed' = exposed
              /\ Touch(i, m, queue[m], Answered(job[i][m], G, D), hist[m])
<1>1. PICK G \in Groups(job[i][m].to), D \in SUBSET Rcpt :
        /\ D \subseteq G
        /\ Accept(m, D)
        /\ rejected' = [rejected EXCEPT ![m] = @ \cup (G \ D)]
        /\ SetJob(i, m, Answered(job[i][m], G, D))
  BY DEF GroupAnswered, Answered
<1>2. Touch(i, m, queue[m], Answered(job[i][m], G, D), hist[m])
  <2> HIDE DEF Answered
  <2> QED
    BY <1>1, TouchJob DEF GroupAnswered
<1> QED
  BY <1>1, <1>2 DEF GroupAnswered

\* A deliverGroup that returns one.
LEMMA TouchFailed ==
  ASSUME TypeOK, NEW i \in Inst, NEW m \in Msg, GroupFailed(i, m)
  PROVE  /\ job[i][m].pc = "group" /\ faults' = faults
         /\ rejected' = rejected
         /\ \E A \in SUBSET Rcpt :
              /\ A \subseteq job[i][m].to
              /\ Accept(m, A)
              /\ exposed' = [exposed EXCEPT ![m] = @ \cup A]
         /\ job[i][m].to # {}
         /\ Touch(i, m, queue[m], [job[i][m] EXCEPT !.pc = "retry"], hist[m])
<1>1. PICK G \in Groups(job[i][m].to), A \in SUBSET Rcpt :
        /\ A \subseteq G
        /\ Accept(m, A)
        /\ exposed' = [exposed EXCEPT ![m] = @ \cup A]
  BY DEF GroupFailed
<1>2. G \subseteq job[i][m].to /\ job[i][m].to # {}
  BY <1>1 DEF Groups
<1>3. Touch(i, m, queue[m], [job[i][m] EXCEPT !.pc = "retry"], hist[m])
  BY TouchJob DEF GroupFailed, Goto
<1> QED
  BY <1>1, <1>2, <1>3 DEF GroupFailed

\* The statements of deliver, each with the place it is made from.
LEMMA TouchPersist ==
  ASSUME TypeOK, NEW i \in Inst, NEW m \in Msg, NEW fate,
         PersistProgress(i, m, fate)
  PROVE  /\ job[i][m].pc = "persist" /\ Statement(fate) /\ Expose(m, fate)
         /\ UNCHANGED <<accepted, rejected, dup>>
         /\ Touch(i, m,
                  After(queue[m],
                        Persisted(queue[m], job[i][m].to, job[i][m].permanent,
                                  job[i][m].attempts, "due", job[i][m].last_error),
                        fate),
                  [job[i][m] EXCEPT !.pc = "group"], hist[m])
<1>1. SetJob(i, m, [job[i][m] EXCEPT !.pc = "group"])
  BY DEF PersistProgress, Goto
<1> QED
  BY <1>1, TouchRow DEF PersistProgress

\* The postponement of the rest.
LEMMA TouchPostpone ==
  ASSUME TypeOK, NEW i \in Inst, NEW m \in Msg, NEW fate, Postpone(i, m, fate)
  PROVE  /\ job[i][m].pc = "retry" /\ Statement(fate) /\ Expose(m, fate)
         /\ UNCHANGED <<accepted, rejected, dup>>
         /\ Touch(i, m,
                  After(queue[m],
                        Persisted(queue[m], job[i][m].to, job[i][m].permanent,
                                  job[i][m].attempts + 1, "later", "transient"),
                        fate),
                  Tail("release"), hist[m])
BY TouchRow DEF Postpone

\* The release of the lease.
LEMMA TouchRelease ==
  ASSUME TypeOK, NEW i \in Inst, NEW m \in Msg, NEW fate, Release(i, m, fate)
  PROVE  /\ job[i][m].pc = "release" /\ Statement(fate)
         /\ UNCHANGED <<accepted, rejected, dup, exposed>>
         /\ Touch(i, m, After(queue[m], Released(queue[m]), fate), NoJob, hist[m])
BY TouchRow DEF Release, outside

\* deadLetter's UPDATE, for either reason.
LEMMA TouchBury ==
  ASSUME TypeOK, NEW i \in Inst, NEW m \in Msg, NEW fate,
         GiveUp(i, m, fate) \/ RejectAll(i, m, fate)
  PROVE  /\ Statement(fate) /\ Expose(m, fate)
         /\ UNCHANGED <<accepted, rejected, dup>>
         /\ \/ /\ job[i][m].pc = "retry"
               /\ job[i][m].attempts + 1 >= MaxAttempts
               /\ Touch(i, m, After(queue[m], Buried(queue[m], "exhausted"), fate),
                        AfterBury(fate), hist[m])
            \/ /\ job[i][m].pc = "resolve" /\ job[i][m].outcome = {"refused"}
               /\ Touch(i, m, After(queue[m], Buried(queue[m], "rejected"), fate),
                        AfterBury(fate), hist[m])
<1>1. CASE GiveUp(i, m, fate)
  BY <1>1, TouchRow DEF GiveUp
<1>2. CASE RejectAll(i, m, fate)
  BY <1>2, TouchRow DEF RejectAll
<1> QED
  BY <1>1, <1>2

\* The deletion of a row that is done.
LEMMA TouchSucceed ==
  ASSUME TypeOK, NEW i \in Inst, NEW m \in Msg, NEW fate, Succeed(i, m, fate)
  PROVE  /\ job[i][m].pc = "resolve" /\ job[i][m].outcome # {"refused"}
         /\ Statement(fate) /\ Expose(m, fate)
         /\ UNCHANGED <<accepted, rejected, dup>>
         /\ \E j \in {NoJob, Tail("markDelivered")} :
              /\ fate = "ok" => j = Tail("markDelivered")
              /\ Touch(i, m, After(queue[m], Succeeded(queue[m]), fate), j, hist[m])
<1>1. PICK j \in {NoJob, Tail("markDelivered")} :
        (fate = "ok" => j = Tail("markDelivered")) /\ SetJob(i, m, j)
  BY DEF Succeed
<1>2. Touch(i, m, After(queue[m], Succeeded(queue[m]), fate), j, hist[m])
  BY <1>1, TouchRow DEF Succeed
<1> QED
  BY <1>1, <1>2 DEF Succeed

\* The places of pruneDead and of what follows it.
Burying == {"count", "victims", "delete", "markDead"}

\* What pruneDead leaves of a goroutine.
PruneNext(j, fate) ==
  /\ j = NoJob \/ j.pc \in Burying
  /\ fate = "ok" => j.pc \in Burying
  /\ j.outcome = {}

\* The places after each statement of pruneDead.
LEMMA PruneNextJobs ==
  ASSUME NEW x, NEW fate
  PROVE  /\ PruneNext(Tail("markDead"), fate)
         /\ fate # "ok" => PruneNext(NoJob, fate)
         /\ PruneNext([Tail("victims") EXCEPT !.over = x], fate)
         /\ PruneNext([Tail("delete") EXCEPT !.victims = x], fate)
BY DEF PruneNext, Tail, NoJob, Burying

\* The two SELECTs of pruneDead.
LEMMA TouchPruneSelect ==
  ASSUME TypeOK, NEW i \in Inst, NEW m \in Msg, NEW fate,
         PruneCount(i, m, fate) \/ PruneSelect(i, m, fate)
  PROVE  /\ job[i][m].pc \in Burying /\ Statement(fate)
         /\ UNCHANGED <<accepted, rejected, dup, exposed>>
         /\ PruneNext(job'[i][m], fate)
         /\ Touch(i, m, queue[m], job'[i][m], hist[m])
<1>1. ASSUME NEW j, SetJob(i, m, j), PruneNext(j, fate),
             UNCHANGED <<queue, web, crashes, requeues>>
      PROVE  /\ PruneNext(job'[i][m], fate)
             /\ Touch(i, m, queue[m], job'[i][m], hist[m])
  <2>1. Touch(i, m, queue[m], j, hist[m])
    BY <1>1, TouchJob
  <2> QED
    BY <1>1, <2>1 DEF Touch
<1>2. CASE PruneCount(i, m, fate)
  <2> DEFINE over == Cardinality(Dead(queue)) - DeadMax
             j == IF fate # "ok" THEN NoJob
                  ELSE IF over <= 0 THEN Tail("markDead")
                  ELSE [Tail("victims") EXCEPT !.over = over]
  <2>1. SetJob(i, m, j)
    BY <1>2 DEF PruneCount
  <2>2. PruneNext(j, fate)
    BY PruneNextJobs
  <2>3. UNCHANGED <<queue, web, crashes, requeues>>
    BY <1>2 DEF PruneCount
  <2>4. /\ PruneNext(job'[i][m], fate)
        /\ Touch(i, m, queue[m], job'[i][m], hist[m])
    <3> HIDE DEF j
    <3> QED
      BY <1>1, <2>1, <2>2, <2>3
  <2> QED
    BY <1>2, <2>4 DEF PruneCount, Burying, outside
<1>3. CASE PruneSelect(i, m, fate)
  <2> DEFINE victims == Oldest(Dead(queue), job[i][m].over)
             j == IF fate # "ok" THEN NoJob
                  ELSE IF victims = {} THEN Tail("markDead")
                  ELSE [Tail("delete") EXCEPT !.victims = victims]
  <2>1. SetJob(i, m, j)
    BY <1>3 DEF PruneSelect
  <2>2. PruneNext(j, fate)
    BY PruneNextJobs
  <2>3. UNCHANGED <<queue, web, crashes, requeues>>
    BY <1>3 DEF PruneSelect
  <2>4. /\ PruneNext(job'[i][m], fate)
        /\ Touch(i, m, queue[m], job'[i][m], hist[m])
    <3> HIDE DEF j
    <3> QED
      BY <1>1, <2>1, <2>2, <2>3
  <2> QED
    BY <1>3, <2>4 DEF PruneSelect, Burying, outside
<1> QED
  BY <1>2, <1>3

\* The DELETE of pruneDead: the goroutine of m deletes the row of v, which may
\* be m's own or that of any other message.
LEMMA TouchPruneDelete ==
  ASSUME TypeOK, NEW i \in Inst, NEW m \in Msg, NEW fate,
         PruneDelete(i, m, fate)
  PROVE  /\ job[i][m].pc = "delete" /\ Statement(fate)
         /\ UNCHANGED <<hist, submitting, retrying, crashes, requeues>>
         /\ UNCHANGED <<accepted, rejected, dup, exposed>>
         /\ PruneNext(job'[i][m], fate)
         /\ \A k \in Inst \ {i} : job'[k][m] = job[k][m]
         /\ \A n \in Msg \ {m}, k \in Inst : job'[k][n] = job[k][n]
         /\ \A n \in Msg :
              \/ queue'[n] = queue[n]
              \/ queue[n].status = "dead" /\ queue'[n] = NoRow("pruned")
<1>0. job[i][m] \in Job
  BY DEF TypeOK
<1> DEFINE victims == job[i][m].victims
           j(v) == IF fate # "ok" THEN NoJob
                   ELSE IF victims = {v} THEN Tail("markDead")
                   ELSE [Tail("delete") EXCEPT !.victims = victims \ {v}]
<1>1. victims \in SUBSET Msg
  BY <1>0 DEF Job
<1>2. PICK v \in victims : Write(v, Pruned(queue[v]), fate) /\ SetJob(i, m, j(v))
  BY DEF PruneDelete, Oldest
<1>3. PruneNext(j(v), fate)
  BY PruneNextJobs
<1>4. /\ queue'[v] = After(queue[v], Pruned(queue[v]), fate)
      /\ \A n \in Msg \ {v} : queue'[n] = queue[n]
  BY <1>1, <1>2, WriteAt
<1>5. /\ job'[i][m] = j(v)
      /\ \A k \in Inst \ {i} : job'[k][m] = job[k][m]
      /\ \A n \in Msg \ {m}, k \in Inst : job'[k][n] = job[k][n]
  <2> HIDE DEF j
  <2> QED
    BY <1>2, SetJobAt
<1>6. \A n \in Msg : \/ queue'[n] = queue[n]
                     \/ queue[n].status = "dead" /\ queue'[n] = NoRow("pruned")
  BY <1>1, <1>4 DEF After, Pruned
<1>7. PruneNext(job'[i][m], fate)
  <2> HIDE DEF j
  <2> QED
    BY <1>3, <1>5
<1> HIDE DEF j
<1> QED
  BY <1>5, <1>6, <1>7 DEF PruneDelete, web, outside

----------------------------------------------------------------------------
(* Polls, stops, requests and the passing of time.                         *)

\* Every message's goroutine of i may change, nobody else's.
LEMMA TouchNextDue ==
  ASSUME TypeOK, NEW i \in Inst, NextDue(i)
  PROVE  /\ UNCHANGED <<queue, hist, submitting, retrying>>
         /\ UNCHANGED <<accepted, rejected, dup, exposed>>
         /\ UNCHANGED <<crashes, faults, requeues>>
         /\ \A n \in Msg, k \in Inst \ {i} : job'[k][n] = job[k][n]
         /\ \A n \in Msg : /\ job[i][n] = NoJob
                           /\ \/ job'[i][n] = NoJob
                              \/ Due(queue[n]) /\ job'[i][n] = Scanned(queue[n])
<1>1. \A n \in Candidates(queue, Batch) : Due(queue[n])
  BY DEF Candidates, Oldest
<1> QED
  BY <1>1 DEF NextDue, Idle, TypeOK, web, outside

\* A stop leaves the tables and the other instances alone.
LEMMA TouchCrash ==
  ASSUME TypeOK, NEW i \in Inst, Crash(i)
  PROVE  /\ crashes' = crashes + 1
         /\ UNCHANGED <<queue, hist, accepted, rejected, dup, faults, requeues>>
         /\ \A n \in Msg : exposed'[n] =
              IF job[i][n].pc = "none" THEN exposed[n]
              ELSE exposed[n] \cup (accepted[n] \cap queue[n].to)
         /\ \A n \in Msg, k \in Inst \ {i} : job'[k][n] = job[k][n]
         /\ \A n \in Msg : job'[i][n] = NoJob
         /\ \A k \in Inst : /\ submitting'[k] \subseteq submitting[k]
                            /\ retrying'[k] \subseteq retrying[k]
BY DEF Crash, TypeOK, Forgotten

\* An error while claiming gives the whole batch up.
LEMMA TouchClaimFails ==
  ASSUME TypeOK, NEW i \in Inst, NEW m \in Msg, NEW fate, ClaimFails(i, m, fate)
  PROVE  /\ faults' = faults + 1 /\ job[i][m].pc = "cand"
         /\ UNCHANGED <<hist, submitting, retrying, crashes, requeues>>
         /\ UNCHANGED <<accepted, rejected, dup, exposed>>
         /\ \A n \in Msg, k \in Inst \ {i} : job'[k][n] = job[k][n]
         /\ \A n \in Msg : job'[i][n] = NoJob
         /\ \A n \in Msg : \/ queue'[n] = queue[n]
                           \/ Claimable(queue[n]) /\ queue'[n] = Claimed(queue[n])
<1>1. \A n \in Msg : \/ queue'[n] = queue[n]
                     \/ Claimable(queue[n]) /\ queue'[n] = Claimed(queue[n])
  BY DEF ClaimFails, Write, TypeOK
<1>2. \A n \in Msg, k \in Inst : job'[k][n] = IF k = i THEN NoJob ELSE job[k][n]
  BY DEF ClaimFails, TypeOK
<1> QED
  BY <1>1, <1>2 DEF ClaimFails, FirstCandidate, Statement, web, outside

\* Time changes a lease or a due date.
LEMMA TouchTime ==
  ASSUME TypeOK, NEW m \in Msg, LeaseExpires(m) \/ BackoffElapses(m)
  PROVE  /\ UNCHANGED <<job, hist, submitting, retrying>>
         /\ UNCHANGED <<accepted, rejected, dup, exposed>>
         /\ UNCHANGED <<crashes, faults, requeues>>
         /\ \A n \in Msg :
              \/ queue'[n] = queue[n]
              \/ queue'[n] = [queue[n] EXCEPT !.lease = "free"]
              \/ queue'[n] = [queue[n] EXCEPT !.next_attempt = "due"]
<1>1. \A n \in Msg :
              \/ queue'[n] = queue[n]
              \/ queue'[n] = [queue[n] EXCEPT !.lease = "free"]
              \/ queue'[n] = [queue[n] EXCEPT !.next_attempt = "due"]
  BY DEF LeaseExpires, BackoffElapses, TypeOK
<1> QED
  BY <1>1 DEF LeaseExpires, BackoffElapses, web, outside

\* The retention changes nothing but entries that are there.
LEMMA TouchRetention ==
  ASSUME TypeOK, Retention
  PROVE  /\ UNCHANGED <<queue, job, submitting, retrying, crashes, requeues>>
         /\ UNCHANGED <<accepted, rejected, dup, exposed>>
         /\ \E fate \in Fate : Statement(fate)
         /\ \A n \in Msg : \/ hist'[n] = hist[n]
                           \/ Logged(hist[n]) /\ hist'[n] = PrunedEntry
<1>1. PICK A \in SUBSET Msg, fate \in Fate : PruneSendLogs(A, fate)
  BY DEF Retention
<1> QED
  BY <1>1 DEF PruneSendLogs, outside

\* The history entry a request writes.
Entry == [status |-> "queued", attempts |-> 0]

\* The statements of the requests.
LEMMA TouchRequest ==
  ASSUME TypeOK, NEW i \in Inst, NEW m \in Msg, NEW fate,
         \/ Record(i, m, fate) \/ EnqueueWithID(i, m, fate)
         \/ RequeueDead(i, m, fate) \/ MarkQueued(i, m, fate)
  PROVE  /\ UNCHANGED <<job, crashes>> /\ Statement(fate)
         /\ UNCHANGED <<accepted, rejected, dup, exposed>>
         /\ \A n \in Msg \ {m} : Quiet(n)
         /\ \/ /\ Fresh(m) /\ queue'[m] = queue[m]
               /\ hist'[m] = After(hist[m], Entry, fate)
               /\ \A k \in Inst : m \in submitting'[k] <=> k = i
               /\ UNCHANGED <<retrying, requeues>>
            \/ /\ m \in submitting[i]
               /\ queue'[m] = After(queue[m], Inserted(m), fate)
               /\ hist'[m] = IF fate = "ok" THEN hist[m] ELSE NoEntry
               /\ \A k \in Inst : m \in submitting'[k] <=> m \in submitting[k] /\ k # i
               /\ UNCHANGED <<retrying, requeues>>
            \/ /\ queue[m].status = "dead"
               /\ queue'[m] = After(queue[m], Requeued(queue[m]), fate)
               /\ hist'[m] = hist[m]
               /\ requeues' = requeues + 1
               /\ UNCHANGED submitting
            \/ /\ m \in retrying[i] /\ queue'[m] = queue[m]
               /\ hist'[m] \in {hist[m], Entry}
               /\ ~Logged(hist[m]) => hist'[m] = hist[m]
               /\ \A k \in Inst : retrying'[k] \subseteq retrying[k]
               /\ UNCHANGED <<submitting, requeues>>
<1>1. CASE Record(i, m, fate)
  <2>1. \A k \in Inst : m \in submitting'[k] <=> k = i
    BY <1>1 DEF Record, Fresh, TypeOK
  <2>2. \A n \in Msg \ {m}, k \in Inst : n \in submitting'[k] <=> n \in submitting[k]
    BY <1>1 DEF Record, TypeOK
  <2>3. /\ hist'[m] = After(hist[m], Entry, fate)
        /\ \A n \in Msg \ {m} : hist'[n] = hist[n]
    BY <1>1 DEF Record, TypeOK, After, Entry
  <2> QED
    BY <1>1, <2>1, <2>2, <2>3 DEF Record, Quiet, outside
<1>2. CASE EnqueueWithID(i, m, fate)
  <2>1. \A k \in Inst : m \in submitting'[k] <=> m \in submitting[k] /\ k # i
    BY <1>2 DEF EnqueueWithID, TypeOK
  <2>2. \A n \in Msg \ {m}, k \in Inst : n \in submitting'[k] <=> n \in submitting[k]
    BY <1>2 DEF EnqueueWithID, TypeOK
  <2>3. /\ hist'[m] = IF fate = "ok" THEN hist[m] ELSE NoEntry
        /\ \A n \in Msg \ {m} : hist'[n] = hist[n]
    BY <1>2 DEF EnqueueWithID, TypeOK
  <2>4. /\ queue'[m] = After(queue[m], Inserted(m), fate)
        /\ \A n \in Msg \ {m} : queue'[n] = queue[n]
    BY <1>2, WriteAt DEF EnqueueWithID
  <2> QED
    BY <1>2, <2>1, <2>2, <2>3, <2>4 DEF EnqueueWithID, Quiet, outside
<1>3. CASE RequeueDead(i, m, fate)
  <2>1. /\ queue'[m] = After(queue[m], Requeued(queue[m]), fate)
        /\ \A n \in Msg \ {m} : queue'[n] = queue[n]
    BY <1>3, WriteAt DEF RequeueDead
  <2>2. \A n \in Msg \ {m}, k \in Inst : n \in retrying'[k] <=> n \in retrying[k]
    BY <1>3 DEF RequeueDead, TypeOK
  <2> QED
    BY <1>3, <2>1, <2>2 DEF RequeueDead, Quiet, outside
<1>4. CASE MarkQueued(i, m, fate)
  <2>1. \A n \in Msg \ {m}, k \in Inst : n \in retrying'[k] <=> n \in retrying[k]
    BY <1>4 DEF MarkQueued, TypeOK
  <2>2. \A k \in Inst : retrying'[k] \subseteq retrying[k]
    BY <1>4 DEF MarkQueued, TypeOK
  <2>3. /\ hist'[m] \in {hist[m], Entry}
        /\ ~Logged(hist[m]) => hist'[m] = hist[m]
        /\ \A n \in Msg \ {m} : hist'[n] = hist[n]
    BY <1>4 DEF MarkQueued, TypeOK, Entry
  <2> QED
    BY <1>4, <2>1, <2>2, <2>3 DEF MarkQueued, Quiet, outside
<1> QED
  BY <1>1, <1>2, <1>3, <1>4

----------------------------------------------------------------------------
(* The columns and locals that the invariants below speak of.              *)

\* Each statement, column by column.
LEMMA RowFields ==
  ASSUME NEW row \in Row, NEW to, NEW perm, NEW k, NEW next, NEW err
  PROVE  /\ /\ Claimed(row).status = row.status /\ Claimed(row).lease = "held"
            /\ Claimed(row).attempts = row.attempts /\ Claimed(row).to = row.to
            /\ Claimed(row).last_error = row.last_error
         /\ \/ /\ to = {} \/ ~Present(row)
               /\ Persisted(row, to, perm, k, next, err) = row
            \/ /\ to # {} /\ Present(row)
               /\ Persisted(row, to, perm, k, next, err).status = row.status
               /\ Persisted(row, to, perm, k, next, err).lease = "free"
               /\ Persisted(row, to, perm, k, next, err).attempts = k
               /\ Persisted(row, to, perm, k, next, err).to = to
               /\ Persisted(row, to, perm, k, next, err).last_error = err
         /\ \/ row.status # "queued" /\ Succeeded(row) = row
            \/ row.status = "queued" /\ Succeeded(row) = NoRow("done")
         /\ \/ ~Present(row) /\ Released(row) = row
            \/ /\ Present(row)
               /\ Released(row).status = row.status /\ Released(row).lease = "free"
               /\ Released(row).attempts = row.attempts /\ Released(row).to = row.to
               /\ Released(row).last_error = row.last_error
         /\ \/ ~Present(row) /\ Buried(row, err) = row
            \/ /\ Present(row)
               /\ Buried(row, err).status = "dead" /\ Buried(row, err).lease = "free"
               /\ Buried(row, err).attempts = row.attempts
               /\ Buried(row, err).to = row.to /\ Buried(row, err).last_error = err
         /\ /\ Requeued(row).status = "queued" /\ Requeued(row).lease = "free"
            /\ Requeued(row).attempts = 0 /\ Requeued(row).to = row.to
            /\ Requeued(row).last_error = "none"
         /\ \/ row.status # "dead" /\ Pruned(row) = row
            \/ row.status = "dead" /\ Pruned(row) = NoRow("pruned")
         /\ /\ [row EXCEPT !.lease = "free"].status = row.status
            /\ [row EXCEPT !.lease = "free"].lease = "free"
            /\ [row EXCEPT !.lease = "free"].attempts = row.attempts
            /\ [row EXCEPT !.lease = "free"].to = row.to
            /\ [row EXCEPT !.lease = "free"].last_error = row.last_error
         /\ /\ [row EXCEPT !.next_attempt = "due"].status = row.status
            /\ [row EXCEPT !.next_attempt = "due"].lease = row.lease
            /\ [row EXCEPT !.next_attempt = "due"].attempts = row.attempts
            /\ [row EXCEPT !.next_attempt = "due"].to = row.to
            /\ [row EXCEPT !.next_attempt = "due"].last_error = row.last_error
<1>1. /\ Claimed(row).status = row.status /\ Claimed(row).lease = "held"
      /\ Claimed(row).attempts = row.attempts /\ Claimed(row).to = row.to
      /\ Claimed(row).last_error = row.last_error
  BY DEF Claimed, Row
<1>2. \/ /\ to = {} \/ ~Present(row)
         /\ Persisted(row, to, perm, k, next, err) = row
      \/ /\ to # {} /\ Present(row)
         /\ Persisted(row, to, perm, k, next, err).status = row.status
         /\ Persisted(row, to, perm, k, next, err).lease = "free"
         /\ Persisted(row, to, perm, k, next, err).attempts = k
         /\ Persisted(row, to, perm, k, next, err).to = to
         /\ Persisted(row, to, perm, k, next, err).last_error = err
  BY DEF Persisted, Row
<1>3. /\ \/ row.status # "queued" /\ Succeeded(row) = row
         \/ row.status = "queued" /\ Succeeded(row) = NoRow("done")
      /\ \/ row.status # "dead" /\ Pruned(row) = row
         \/ row.status = "dead" /\ Pruned(row) = NoRow("pruned")
  BY DEF Succeeded, Pruned
<1>4. \/ ~Present(row) /\ Released(row) = row
      \/ /\ Present(row)
         /\ Released(row).status = row.status /\ Released(row).lease = "free"
         /\ Released(row).attempts = row.attempts /\ Released(row).to = row.to
         /\ Released(row).last_error = row.last_error
  BY DEF Released, Row
<1>5. \/ ~Present(row) /\ Buried(row, err) = row
      \/ /\ Present(row)
         /\ Buried(row, err).status = "dead" /\ Buried(row, err).lease = "free"
         /\ Buried(row, err).attempts = row.attempts
         /\ Buried(row, err).to = row.to /\ Buried(row, err).last_error = err
  BY DEF Buried, Row
<1>6. /\ Requeued(row).status = "queued" /\ Requeued(row).lease = "free"
      /\ Requeued(row).attempts = 0 /\ Requeued(row).to = row.to
      /\ Requeued(row).last_error = "none"
  BY DEF Requeued, Row
<1>7. /\ [row EXCEPT !.lease = "free"].status = row.status
      /\ [row EXCEPT !.lease = "free"].lease = "free"
      /\ [row EXCEPT !.lease = "free"].attempts = row.attempts
      /\ [row EXCEPT !.lease = "free"].to = row.to
      /\ [row EXCEPT !.lease = "free"].last_error = row.last_error
  BY DEF Row
<1>8. /\ [row EXCEPT !.next_attempt = "due"].status = row.status
      /\ [row EXCEPT !.next_attempt = "due"].lease = row.lease
      /\ [row EXCEPT !.next_attempt = "due"].attempts = row.attempts
      /\ [row EXCEPT !.next_attempt = "due"].to = row.to
      /\ [row EXCEPT !.next_attempt = "due"].last_error = row.last_error
  BY DEF Row
<1> QED
  BY <1>1, <1>2, <1>3, <1>4, <1>5, <1>6, <1>7, <1>8

\* A row that is not there, and a new one.
LEMMA NewFields ==
  ASSUME NEW s, NEW m \in Msg
  PROVE  /\ NoRow(s).status = s /\ NoRow(s).lease = "free"
         /\ NoRow(s).attempts = 0 /\ NoRow(s).to = {}
         /\ NoRow(s).last_error = "none"
         /\ Inserted(m).status = "queued" /\ Inserted(m).lease = "free"
         /\ Inserted(m).attempts = 0 /\ Inserted(m).to = Envelope[m]
         /\ Inserted(m).last_error = "none"
BY DEF NoRow, Inserted

\* Each copy a goroutine may go on with, local by local.
LEMMA CopyFields ==
  ASSUME NEW j \in Job, NEW pc, NEW row \in Row
  PROVE  /\ /\ [j EXCEPT !.pc = pc].pc = pc /\ [j EXCEPT !.pc = pc].to = j.to
            /\ [j EXCEPT !.pc = pc].attempts = j.attempts
            /\ [j EXCEPT !.pc = pc].last_error = j.last_error
            /\ [j EXCEPT !.pc = pc].outcome = j.outcome
         /\ Tail(pc).pc = pc /\ Tail(pc).outcome = {}
         /\ NoJob.pc = "none" /\ NoJob.outcome = {}
         /\ /\ Scanned(row).pc = "cand" /\ Scanned(row).to = row.to
            /\ Scanned(row).attempts = row.attempts
            /\ Scanned(row).last_error = row.last_error
            /\ Scanned(row).outcome = {}
<1>1. /\ [j EXCEPT !.pc = pc].pc = pc /\ [j EXCEPT !.pc = pc].to = j.to
      /\ [j EXCEPT !.pc = pc].attempts = j.attempts
      /\ [j EXCEPT !.pc = pc].last_error = j.last_error
      /\ [j EXCEPT !.pc = pc].outcome = j.outcome
  BY DEF Job
<1>2. /\ Tail(pc).pc = pc /\ Tail(pc).outcome = {}
      /\ NoJob.pc = "none" /\ NoJob.outcome = {}
  BY DEF Tail, NoJob
<1>3. /\ Scanned(row).pc = "cand" /\ Scanned(row).to = row.to
      /\ Scanned(row).attempts = row.attempts
      /\ Scanned(row).last_error = row.last_error
      /\ Scanned(row).outcome = {}
  BY DEF Scanned, Tail
<1> QED
  BY <1>1, <1>2, <1>3

\* The goroutine after an answer, field by field.
LEMMA AnsweredFields ==
  ASSUME NEW j \in Job, NEW G, NEW D
  PROVE  /\ Answered(j, G, D).pc = IF j.to \ G = {} THEN "resolve" ELSE "persist"
         /\ Answered(j, G, D).to = j.to \ G
         /\ Answered(j, G, D).attempts = j.attempts
         /\ Answered(j, G, D).last_error = j.last_error
         /\ Answered(j, G, D).outcome =
              j.outcome \cup (IF D = {} THEN {} ELSE {"delivered"})
                        \cup (IF D = G THEN {} ELSE {"refused"})
BY DEF Answered, Job

\* The goroutine after deadLetter's UPDATE.
LEMMA AfterBuryFields ==
  ASSUME NEW fate
  PROVE  /\ AfterBury(fate).pc \in {"none", "count", "markDead"}
         /\ AfterBury(fate).outcome = {}
         /\ fate = "ok" => AfterBury(fate).pc \in {"count", "markDead"}
BY DEF AfterBury, Tail, NoJob

\* The counters of what went wrong never go back.
LEMMA Counting ==
  ASSUME TypeOK, Next
  PROVE  /\ crashes \in Nat /\ faults \in Nat /\ requeues \in Nat
         /\ crashes' >= crashes /\ faults' >= faults /\ requeues' >= requeues
<1>1. crashes \in Nat /\ faults \in Nat /\ requeues \in Nat
  BY DEF TypeOK
<1>2. ASSUME NEW fate, Statement(fate) PROVE faults' >= faults
  BY <1>1, <1>2 DEF Statement
<1>3. ASSUME NEW i \in Inst, NEW m \in Msg, JobStep(i, m)
      PROVE  crashes' = crashes /\ faults' >= faults /\ requeues' = requeues
  <2>1. CASE Claim(i, m) \/ GroupAnswered(i, m) \/ GroupFailed(i, m)
    <3>1. CASE Claim(i, m)
      BY <1>1, <3>1 DEF Claim
    <3>2. CASE GroupAnswered(i, m)
      BY <1>1, <3>2 DEF GroupAnswered
    <3>3. CASE GroupFailed(i, m)
      BY <1>1, <3>3 DEF GroupFailed
    <3> QED
      BY <2>1, <3>1, <3>2, <3>3
  <2>2. ASSUME NEW fate \in Fate,
               \/ ClaimFails(i, m, fate) \/ Start(i, m, fate)
               \/ PersistProgress(i, m, fate) \/ GiveUp(i, m, fate)
               \/ Postpone(i, m, fate) \/ Release(i, m, fate)
               \/ RejectAll(i, m, fate) \/ Succeed(i, m, fate)
        PROVE  crashes' = crashes /\ faults' >= faults /\ requeues' = requeues
    BY <1>2, <2>2 DEF ClaimFails, Start, PersistProgress, GiveUp, Postpone,
                      Release, RejectAll, Succeed
  <2>3. ASSUME NEW fate \in Fate,
               \/ PruneCount(i, m, fate) \/ PruneSelect(i, m, fate)
               \/ PruneDelete(i, m, fate) \/ MarkDead(i, m, fate)
               \/ MarkDelivered(i, m, fate)
        PROVE  crashes' = crashes /\ faults' >= faults /\ requeues' = requeues
    BY <1>2, <2>3 DEF PruneCount, PruneSelect, PruneDelete, MarkDead, MarkDelivered
  <2> QED
    BY <1>3, <2>1, <2>2, <2>3 DEF JobStep
<1>4. ASSUME NEW i \in Inst, NEW m \in Msg, Request(i, m)
      PROVE  crashes' = crashes /\ faults' >= faults /\ requeues' >= requeues
  BY <1>1, <1>2, <1>4 DEF Request, Record, EnqueueWithID, RequeueDead, MarkQueued
<1>5. ASSUME \/ \E i \in Inst : NextDue(i) \/ Crash(i)
             \/ \E m \in Msg : LeaseExpires(m) \/ BackoffElapses(m)
      PROVE  crashes' >= crashes /\ faults' = faults /\ requeues' = requeues
  BY <1>1, <1>5 DEF NextDue, Crash, LeaseExpires, BackoffElapses
<1>6. ASSUME Retention
      PROVE  crashes' = crashes /\ faults' >= faults /\ requeues' = requeues
  BY <1>2, <1>6, TouchRetention
<1> QED
  BY <1>1, <1>3, <1>4, <1>5, <1>6 DEF Next, Deliverer

----------------------------------------------------------------------------
(***************************************************************************)
(* No orphaned lease.  Three facts about one message carry each other: a   *)
(* leased row is queued, so that no statement of deliver meets a leased    *)
(* row it does not match; a goroutine that is about to Persist has         *)
(* recipients left, so that Persist does not return early with the lease   *)
(* held; and the lease has a goroutine behind it.                          *)
(***************************************************************************)
LeaseOf(n) ==
  /\ queue[n].lease = "held" => queue[n].status = "queued"
  /\ crashes = 0 /\ faults = 0 /\ queue[n].lease = "held" =>
       \E k \in Inst : job[k][n].pc \in Working \ {"cand"}
  /\ \A k \in Inst : job[k][n].pc \in {"persist", "retry"} => job[k][n].to # {}

LeaseSound == \A n \in Msg : LeaseOf(n)

\* What a step must respect so that no lease is orphaned.
LEMMA LeaseTouch ==
  ASSUME TypeOK, TypeOK', LeaseSound, faults' >= faults,
         NEW i \in Inst, NEW m \in Msg, NEW row, NEW j, NEW h,
         Touch(i, m, row, j, h),
         row.lease = "held" => row.status = "queued",
         faults' = 0 /\ row.lease = "held" =>
           \/ j.pc \in Working \ {"cand"}
           \/ queue[m].lease = "held" /\ job[i][m].pc \notin Working \ {"cand"},
         j.pc \in {"persist", "retry"} => j.to # {}
  PROVE  LeaseSound'
<1>0. faults \in Nat /\ faults' \in Nat
  BY DEF TypeOK
<1>1. ASSUME NEW n \in Msg, n # m PROVE LeaseOf(n)'
  <2>1. LeaseOf(n) /\ Quiet(n) /\ crashes' = crashes
    BY <1>1 DEF LeaseSound, Touch
  <2> QED
    BY <1>0, <2>1 DEF LeaseOf, Quiet
<1>2. LeaseOf(m)'
  <2>1. LeaseOf(m)
    BY DEF LeaseSound
  <2>2. row.lease = "held" /\ faults' = 0 /\ crashes = 0 =>
          \E k \in Inst : job'[k][m].pc \in Working \ {"cand"}
    BY <1>0, <2>1 DEF LeaseOf, Touch
  <2>3. \A k \in Inst : job'[k][m].pc \in {"persist", "retry"} => job'[k][m].to # {}
    BY <2>1 DEF LeaseOf, Touch
  <2> QED
    BY <2>2, <2>3 DEF LeaseOf, Touch
<1> QED
  BY <1>1, <1>2 DEF LeaseSound

\* Every step of a delivery respects it.
LEMMA LeaseJob ==
  ASSUME TypeOK, TypeOK', LeaseSound, faults' >= faults,
         NEW i \in Inst, NEW m \in Msg, JobStep(i, m)
  PROVE  LeaseSound'
<1>0. /\ queue[m] \in Row /\ job[i][m] \in Job /\ LeaseOf(m)
      /\ faults \in Nat /\ faults' \in Nat
  BY DEF TypeOK, LeaseSound
<1>a. /\ "ready" \in Working \ {"cand"} /\ "group" \in Working \ {"cand"}
      /\ "persist" \in Working \ {"cand"} /\ "retry" \in Working \ {"cand"}
      /\ "resolve" \in Working \ {"cand"}
      /\ \A pc \in Burying \cup {"cand", "none", "release", "markDelivered"} :
           pc \notin Working \ {"cand"} /\ pc \notin {"persist", "retry"}
  BY DEF Working, Burying
<1>f. ASSUME NEW fate, Statement(fate), faults' = 0 PROVE fate = "ok"
  BY <1>0, <1>f DEF Statement
<1> DEFINE at(pc) == [job[i][m] EXCEPT !.pc = pc]
<1>b. /\ \A pc : at(pc).pc = pc /\ at(pc).to = job[i][m].to
      /\ NoJob.pc = "none"
  BY <1>0, CopyFields
<1>1. CASE Claim(i, m)
  <2>1. CASE /\ Claimable(queue[m])
             /\ Touch(i, m, Claimed(queue[m]), at("ready"), hist[m])
    <3>1. Claimed(queue[m]).status = "queued"
      BY <1>0, <2>1, RowFields DEF Claimable
    <3> HIDE DEF at
    <3> QED
      BY <1>a, <1>b, <2>1, <3>1, LeaseTouch
  <2>2. CASE Touch(i, m, queue[m], NoJob, hist[m]) /\ job[i][m].pc = "cand"
    BY <1>0, <1>a, <2>2, CopyFields, LeaseTouch DEF LeaseOf
  <2> QED
    BY <1>1, <2>1, <2>2, TouchClaim
<1>2. CASE GroupAnswered(i, m)
  <2>1. PICK G, D :
          Touch(i, m, queue[m], Answered(job[i][m], G, D), hist[m])
    BY <1>2, TouchAnswered
  <2>2. Answered(job[i][m], G, D).pc \in {"persist", "resolve"}
    BY <1>0, AnsweredFields
  <2>3. Answered(job[i][m], G, D).pc = "persist" =>
          Answered(job[i][m], G, D).to # {}
    BY <1>0, AnsweredFields
  <2> QED
    BY <1>0, <1>a, <2>1, <2>2, <2>3, LeaseTouch DEF LeaseOf
<1>3. CASE GroupFailed(i, m)
  <2>1. Touch(i, m, queue[m], at("retry"), hist[m]) /\ job[i][m].to # {}
    BY <1>3, TouchFailed
  <2> HIDE DEF at
  <2> QED
    BY <1>0, <1>a, <1>b, <2>1, LeaseTouch DEF LeaseOf
<1>4. ASSUME NEW fate \in Fate, Start(i, m, fate) PROVE LeaseSound'
  <2>1. Touch(i, m, queue[m], at("group"), Bumped(hist[m], fate))
    BY <1>4, TouchStart
  <2> HIDE DEF at
  <2> QED
    BY <1>0, <1>a, <1>b, <2>1, LeaseTouch DEF LeaseOf
<1>5. ASSUME NEW fate \in Fate, PersistProgress(i, m, fate) PROVE LeaseSound'
  <2> DEFINE row == After(queue[m],
                        Persisted(queue[m], job[i][m].to, job[i][m].permanent,
                                  job[i][m].attempts, "due", job[i][m].last_error),
                        fate)
  <2>1. row.lease = "held" => row.status = "queued"
    BY <1>0, RowFields DEF After, LeaseOf
  <2>2. Touch(i, m, row, at("group"), hist[m])
    BY <1>5, TouchPersist
  <2> HIDE DEF row, at
  <2> QED
    BY <1>a, <1>b, <2>1, <2>2, LeaseTouch
<1>6. ASSUME NEW fate \in Fate, Postpone(i, m, fate) PROVE LeaseSound'
  <2> DEFINE row == After(queue[m],
                        Persisted(queue[m], job[i][m].to, job[i][m].permanent,
                                  job[i][m].attempts + 1, "later", "transient"),
                        fate)
  <2>1. row.lease = "held" => row.status = "queued"
    BY <1>0, RowFields DEF After, LeaseOf
  <2>2. /\ Touch(i, m, row, Tail("release"), hist[m])
        /\ job[i][m].pc = "retry" /\ Statement(fate)
    BY <1>6, TouchPostpone
  <2>3. fate = "ok" => row.lease # "held"
    BY <1>0, <2>2, RowFields DEF After, LeaseOf, Present
  <2> HIDE DEF row
  <2> QED
    BY <1>0, <1>a, <1>f, <2>1, <2>2, <2>3, CopyFields, LeaseTouch
<1>7. ASSUME NEW fate \in Fate, Release(i, m, fate) PROVE LeaseSound'
  <2> DEFINE row == After(queue[m], Released(queue[m]), fate)
  <2>1. row.lease = "held" => row.status = "queued"
    BY <1>0, RowFields DEF After, LeaseOf
  <2>2. /\ Touch(i, m, row, NoJob, hist[m])
        /\ job[i][m].pc = "release" /\ Statement(fate)
    BY <1>7, TouchRelease
  <2>3. fate = "ok" => row.lease # "held"
    BY <1>0, <2>2, RowFields DEF After, LeaseOf, Present
  <2> HIDE DEF row
  <2> QED
    BY <1>0, <1>a, <1>f, <2>1, <2>2, <2>3, CopyFields, LeaseTouch
<1>8. ASSUME NEW fate \in Fate, GiveUp(i, m, fate) \/ RejectAll(i, m, fate)
      PROVE  LeaseSound'
  <2> DEFINE row(err) == After(queue[m], Buried(queue[m], err), fate)
  <2>1. ASSUME NEW err PROVE row(err).lease = "held" => row(err).status = "queued"
    <3>1. \/ Buried(queue[m], err) = queue[m]
          \/ Buried(queue[m], err).lease = "free"
      BY <1>0, RowFields
    <3> QED
      BY <1>0, <3>1 DEF After, LeaseOf
  <2>2. /\ Touch(i, m, row("exhausted"), AfterBury(fate), hist[m])
           \/ Touch(i, m, row("rejected"), AfterBury(fate), hist[m])
        /\ Statement(fate)
    BY <1>8, TouchBury
  <2>3. ASSUME NEW err PROVE fate = "ok" => row(err).lease # "held"
    <3>1. \/ ~Present(queue[m]) /\ Buried(queue[m], err) = queue[m]
          \/ Buried(queue[m], err).lease = "free"
      BY <1>0, RowFields
    <3> QED
      BY <1>0, <3>1 DEF After, LeaseOf, Present
  <2>4. AfterBury(fate).pc \notin {"persist", "retry"}
    BY AfterBuryFields
  <2> HIDE DEF row
  <2> QED
    BY <1>0, <1>f, <2>1, <2>2, <2>3, <2>4, LeaseTouch
<1>9. ASSUME NEW fate \in Fate, Succeed(i, m, fate) PROVE LeaseSound'
  <2> DEFINE row == After(queue[m], Succeeded(queue[m]), fate)
  <2>1. row.lease = "held" => row.status = "queued"
    BY <1>0, RowFields, NewFields DEF After, LeaseOf
  <2>2. PICK j \in {NoJob, Tail("markDelivered")} :
          Touch(i, m, row, j, hist[m]) /\ Statement(fate)
    BY <1>9, TouchSucceed
  <2>3. fate = "ok" => row.lease # "held"
    BY <1>0, RowFields, NewFields DEF After, LeaseOf
  <2>4. j.pc \notin {"persist", "retry"}
    BY <1>0, CopyFields
  <2> HIDE DEF row
  <2> QED
    BY <1>0, <1>f, <2>1, <2>2, <2>3, <2>4, LeaseTouch
<1>10. ASSUME NEW fate \in Fate, PruneCount(i, m, fate) \/ PruneSelect(i, m, fate)
       PROVE  LeaseSound'
  <2>1. /\ job[i][m].pc \in Burying /\ PruneNext(job'[i][m], fate)
        /\ Touch(i, m, queue[m], job'[i][m], hist[m])
    BY <1>10, TouchPruneSelect
  <2>2. job'[i][m].pc \notin {"persist", "retry"}
    BY <1>0, <1>a, <2>1, CopyFields DEF PruneNext
  <2> QED
    BY <1>0, <1>a, <2>1, <2>2, LeaseTouch DEF LeaseOf
<1>11. ASSUME NEW fate \in Fate, MarkDead(i, m, fate) \/ MarkDelivered(i, m, fate)
       PROVE  LeaseSound'
  BY <1>0, <1>11, <1>a, TouchMark, CopyFields, LeaseTouch DEF LeaseOf, Burying
<1>12. ASSUME NEW fate \in Fate, PruneDelete(i, m, fate) PROVE LeaseSound'
  <2>1. /\ job[i][m].pc = "delete" /\ crashes' = crashes
        /\ PruneNext(job'[i][m], fate)
        /\ \A k \in Inst \ {i} : job'[k][m] = job[k][m]
        /\ \A n \in Msg \ {m}, k \in Inst : job'[k][n] = job[k][n]
    BY <1>12, TouchPruneDelete
  <2>2. \A n \in Msg : \/ queue'[n] = queue[n]
                       \/ queue'[n] = NoRow("pruned")
    BY <1>12, TouchPruneDelete
  <2>3. job'[i][m].pc \notin Working
    BY <1>0, <2>1, CopyFields DEF PruneNext, Burying, Working
  <2>4. \A n \in Msg, k \in Inst :
          job'[k][n] = job[k][n] \/ (job[k][n].pc \notin Working /\ job'[k][n].pc \notin Working)
    BY <1>a, <2>1, <2>3 DEF Working
  <2>5. ASSUME NEW n \in Msg PROVE LeaseOf(n)'
    <3>1. LeaseOf(n)
      BY DEF LeaseSound
    <3>2. queue'[n].lease = "held" => queue'[n] = queue[n]
      BY <2>2, NewFields
    <3>3. \A k \in Inst : job'[k][n].pc \in {"persist", "retry"} => job'[k][n].to # {}
      BY <1>a, <2>4, <3>1 DEF LeaseOf, Working
    <3>4. \A k \in Inst : job[k][n].pc \in Working \ {"cand"} =>
                            job'[k][n].pc \in Working \ {"cand"}
      BY <2>4
    <3> QED
      BY <1>0, <2>1, <3>1, <3>2, <3>3, <3>4 DEF LeaseOf
  <2> QED
    BY <2>5 DEF LeaseSound
<1>13. ASSUME NEW fate \in Fate, ClaimFails(i, m, fate) PROVE LeaseSound'
  <2>1. /\ faults' = faults + 1
        /\ \A n \in Msg, k \in Inst \ {i} : job'[k][n] = job[k][n]
        /\ \A n \in Msg : job'[i][n] = NoJob
        /\ \A n \in Msg : \/ queue'[n] = queue[n]
                          \/ Claimable(queue[n]) /\ queue'[n] = Claimed(queue[n])
    BY <1>13, TouchClaimFails
  <2>2. ASSUME NEW n \in Msg PROVE LeaseOf(n)'
    <3>1. LeaseOf(n) /\ queue[n] \in Row
      BY DEF LeaseSound, TypeOK
    <3>2. queue'[n].lease = "held" => queue'[n].status = "queued"
      BY <2>1, <3>1, RowFields DEF LeaseOf, Claimable
    <3>3. \A k \in Inst : job'[k][n].pc \in {"persist", "retry"} => job'[k][n].to # {}
      BY <1>b, <2>1, <3>1 DEF LeaseOf
    <3> QED
      BY <1>0, <2>1, <3>2, <3>3 DEF LeaseOf
  <2> QED
    BY <2>2 DEF LeaseSound
<1> QED
  BY <1>1, <1>2, <1>3, <1>4, <1>5, <1>6, <1>7, <1>8, <1>9, <1>10, <1>11, <1>12,
     <1>13 DEF JobStep

\* So do polling, stops, time and requests.
LEMMA LeaseOther ==
  ASSUME TypeOK, TypeOK', LeaseSound, faults' >= faults,
         \/ \E i \in Inst : NextDue(i) \/ Crash(i)
         \/ \E m \in Msg : LeaseExpires(m) \/ BackoffElapses(m)
         \/ \E i \in Inst, m \in Msg : Request(i, m)
         \/ Retention
  PROVE  LeaseSound'
<1> SUFFICES ASSUME NEW n \in Msg PROVE LeaseOf(n)'
  BY DEF LeaseSound
<1>0. /\ LeaseOf(n) /\ queue[n] \in Row /\ crashes \in Nat /\ crashes' \in Nat
      /\ faults \in Nat /\ faults' \in Nat
  BY DEF LeaseSound, TypeOK
<1>a. NoJob.pc = "none" /\ \A row \in Row : Scanned(row).pc = "cand"
  BY DEF NoJob, Tail, Scanned
<1>1. ASSUME NEW i \in Inst, NextDue(i) PROVE LeaseOf(n)'
  <2>1. /\ UNCHANGED <<queue, crashes, faults>>
        /\ \A k \in Inst \ {i} : job'[k][n] = job[k][n]
        /\ job[i][n] = NoJob
        /\ job'[i][n] = NoJob \/ job'[i][n] = Scanned(queue[n])
    BY <1>1, TouchNextDue
  <2> QED
    BY <1>0, <1>a, <2>1 DEF LeaseOf, Working
<1>2. ASSUME NEW i \in Inst, Crash(i) PROVE LeaseOf(n)'
  <2>1. /\ queue' = queue /\ crashes' = crashes + 1
        /\ \A k \in Inst \ {i} : job'[k][n] = job[k][n]
        /\ job'[i][n] = NoJob
    BY <1>2, TouchCrash
  <2>2. crashes' # 0
    BY <1>0, <2>1
  <2> QED
    BY <1>0, <1>a, <2>1, <2>2 DEF LeaseOf
<1>3. ASSUME NEW m \in Msg, LeaseExpires(m) \/ BackoffElapses(m) PROVE LeaseOf(n)'
  <2>1. /\ UNCHANGED <<job, crashes, faults>>
        /\ \/ queue'[n] = queue[n]
           \/ queue'[n] = [queue[n] EXCEPT !.lease = "free"]
           \/ queue'[n] = [queue[n] EXCEPT !.next_attempt = "due"]
    BY <1>3, TouchTime
  <2>2. queue'[n].status = queue[n].status
        /\ queue'[n].lease \in {"free", queue[n].lease}
    BY <1>0, <2>1 DEF Row
  <2> QED
    BY <1>0, <2>1, <2>2 DEF LeaseOf
<1>4. ASSUME NEW i \in Inst, NEW m \in Msg, Request(i, m) PROVE LeaseOf(n)'
  <2>1. PICK fate \in Fate : \/ Record(i, m, fate) \/ EnqueueWithID(i, m, fate)
                             \/ RequeueDead(i, m, fate) \/ MarkQueued(i, m, fate)
    BY <1>4 DEF Request
  <2>2. UNCHANGED <<job, crashes>>
    BY <2>1, TouchRequest
  <2>3. queue'[n] \in {queue[n], Inserted(n), Requeued(queue[n])}
    BY <2>1, TouchRequest DEF Quiet, After
  <2>4. queue'[n] = queue[n] \/ queue'[n].lease = "free"
    BY <1>0, <2>3, RowFields, NewFields
  <2> QED
    BY <1>0, <2>2, <2>4 DEF LeaseOf
<1>5. CASE Retention
  BY <1>0, <1>5, TouchRetention DEF LeaseOf
<1> QED
  BY <1>1, <1>2, <1>3, <1>4, <1>5

\* LeaseSound is an invariant, with the type invariant.
LEMMA LeaseInit == Init => LeaseSound
BY DEF Init, LeaseSound, LeaseOf, NoRow, NoJob, Tail

\* No step orphans a lease.
LEMMA LeaseNext == TypeOK /\ TypeOK' /\ LeaseSound /\ [Next]_vars => LeaseSound'
<1> SUFFICES ASSUME TypeOK, TypeOK', LeaseSound, [Next]_vars PROVE LeaseSound'
  OBVIOUS
<1>1. CASE UNCHANGED vars
  BY <1>1 DEF vars, LeaseSound, LeaseOf
<1>2. CASE Next
  BY <1>2, Counting, LeaseJob, LeaseOther DEF Next, Deliverer
<1> QED
  BY <1>1, <1>2

\* Unless an instance stopped or a statement failed, a leased row has a
\* goroutine that will give the lease back or delete the row, for any number
\* of instances stealing each other's expired leases.
THEOREM NoOrphanedClaim == Spec => []ClaimNotOrphaned
<1>1. LeaseSound => ClaimNotOrphaned
  BY DEF LeaseSound, LeaseOf, ClaimNotOrphaned
<1>2. Spec => []LeaseSound
  BY TypeInit, TypeNext, LeaseInit, LeaseNext, PTL DEF Spec
<1> QED
  BY <1>1, <1>2, PTL

----------------------------------------------------------------------------
(***************************************************************************)
(* The history.  A goroutine neither creates nor deletes an entry, nor     *)
(* does it make a row look as if it had never been inserted; submissions   *)
(* write the entry first; the retention leaves the mark of what it deletes.*)
(***************************************************************************)

\* The entry and the row of n are there after the step if they were before.
SamePresence(n) ==
  /\ queue'[n].status = "none" <=> queue[n].status = "none"
  /\ hist'[n].status = "none" <=> hist[n].status = "none"

\* A step that neither adds nor removes a row or an entry.
LEMMA PresenceTouch ==
  ASSUME NEW i \in Inst, NEW m \in Msg, NEW row, NEW j, NEW h,
         Touch(i, m, row, j, h),
         row.status = "none" <=> queue[m].status = "none",
         h.status = "none" <=> hist[m].status = "none"
  PROVE  submitting' = submitting /\ \A n \in Msg : SamePresence(n)
BY DEF Touch, Quiet, SamePresence

\* No step of a delivery adds a row or an entry.
LEMMA PresenceJob ==
  ASSUME TypeOK, NEW i \in Inst, NEW m \in Msg, JobStep(i, m)
  PROVE  submitting' = submitting /\ \A n \in Msg : SamePresence(n)
<1>0. /\ queue[m] \in Row
      /\ hist[m] \in [status : EntryStatus, attempts : Nat]
  BY DEF TypeOK
<1>1. CASE Claim(i, m)
  <2>1. Claimed(queue[m]).status = queue[m].status
    BY <1>0, SameAbsence
  <2>2. PICK row, j : /\ row \in {queue[m], Claimed(queue[m])}
                      /\ Touch(i, m, row, j, hist[m])
    <3>1. \/ \E j : Touch(i, m, Claimed(queue[m]), j, hist[m])
          \/ \E j : Touch(i, m, queue[m], j, hist[m])
      BY <1>1, TouchClaim
    <3> QED
      BY <3>1
  <2> QED
    BY <2>1, <2>2, PresenceTouch
<1>2. CASE GroupAnswered(i, m)
  <2>1. PICK j : Touch(i, m, queue[m], j, hist[m])
    BY <1>2, TouchAnswered
  <2> QED
    BY <2>1, PresenceTouch
<1>3. CASE GroupFailed(i, m)
  <2>1. PICK j : Touch(i, m, queue[m], j, hist[m])
    BY <1>3, TouchFailed
  <2> QED
    BY <2>1, PresenceTouch
<1>4. ASSUME NEW fate \in Fate, Start(i, m, fate)
      PROVE  submitting' = submitting /\ \A n \in Msg : SamePresence(n)
  <2>1. Bumped(hist[m], fate).status = hist[m].status
    BY <1>0 DEF Bumped
  <2>2. PICK j : Touch(i, m, queue[m], j, Bumped(hist[m], fate))
    BY <1>4, TouchStart
  <2> QED
    BY <2>1, <2>2, PresenceTouch
<1>5. ASSUME NEW fate \in Fate, PersistProgress(i, m, fate) \/ Postpone(i, m, fate)
      PROVE  submitting' = submitting /\ \A n \in Msg : SamePresence(n)
  <2>1. PICK row, j : row.status = queue[m].status /\ Touch(i, m, row, j, hist[m])
    <3>1. CASE PersistProgress(i, m, fate)
      <4> DEFINE row == After(queue[m],
                        Persisted(queue[m], job[i][m].to, job[i][m].permanent,
                                  job[i][m].attempts, "due", job[i][m].last_error),
                        fate)
      <4>1. row.status = queue[m].status
        BY <1>0, SameAbsence DEF After
      <4>2. PICK j : Touch(i, m, row, j, hist[m])
        BY <3>1, TouchPersist
      <4> HIDE DEF row
      <4> QED
        BY <4>1, <4>2
    <3>2. CASE Postpone(i, m, fate)
      <4> DEFINE row == After(queue[m],
                        Persisted(queue[m], job[i][m].to, job[i][m].permanent,
                                  job[i][m].attempts + 1, "later", "transient"),
                        fate)
      <4>1. row.status = queue[m].status
        BY <1>0, SameAbsence DEF After
      <4>2. PICK j : Touch(i, m, row, j, hist[m])
        BY <3>2, TouchPostpone
      <4> HIDE DEF row
      <4> QED
        BY <4>1, <4>2
    <3> QED
      BY <1>5, <3>1, <3>2
  <2> QED
    BY <2>1, PresenceTouch
<1>6. ASSUME NEW fate \in Fate,
             \/ Release(i, m, fate) \/ GiveUp(i, m, fate)
             \/ RejectAll(i, m, fate) \/ Succeed(i, m, fate)
      PROVE  submitting' = submitting /\ \A n \in Msg : SamePresence(n)
  <2>1. PICK row, j :
          /\ row \in {Released(queue[m]), Buried(queue[m], "exhausted"),
                      Buried(queue[m], "rejected"), Succeeded(queue[m])}
          /\ Touch(i, m, After(queue[m], row, fate), j, hist[m])
    BY <1>6, TouchRelease, TouchBury, TouchSucceed
  <2>2. row.status = "none" <=> queue[m].status = "none"
    BY <1>0, <2>1, SameAbsence
  <2>3. After(queue[m], row, fate).status = "none" <=> queue[m].status = "none"
    BY <2>2 DEF After
  <2> QED
    BY <2>1, <2>3, PresenceTouch
<1>7. ASSUME NEW fate \in Fate, PruneCount(i, m, fate) \/ PruneSelect(i, m, fate)
      PROVE  submitting' = submitting /\ \A n \in Msg : SamePresence(n)
  <2>1. Touch(i, m, queue[m], job'[i][m], hist[m])
    BY <1>7, TouchPruneSelect
  <2> QED
    BY <2>1, PresenceTouch
<1>8. ASSUME NEW fate \in Fate, MarkDead(i, m, fate) \/ MarkDelivered(i, m, fate)
      PROVE  submitting' = submitting /\ \A n \in Msg : SamePresence(n)
  <2>1. PICK s \in {"dead", "delivered"} :
          Touch(i, m, queue[m], NoJob, Marked(hist[m], s, fate))
    BY <1>8, TouchMark
  <2>2. Marked(hist[m], s, fate).status = "none" <=> hist[m].status = "none"
    BY <1>0, <2>1 DEF Marked, Logged
  <2> QED
    BY <2>1, <2>2, PresenceTouch
<1>9. ASSUME NEW fate \in Fate, PruneDelete(i, m, fate)
      PROVE  submitting' = submitting /\ \A n \in Msg : SamePresence(n)
  <2>1. /\ UNCHANGED <<hist, submitting>>
        /\ \A n \in Msg : \/ queue'[n] = queue[n]
                          \/ queue[n].status = "dead" /\ queue'[n] = NoRow("pruned")
    BY <1>9, TouchPruneDelete
  <2> QED
    BY <2>1, NewFields DEF SamePresence
<1>10. ASSUME NEW fate \in Fate, ClaimFails(i, m, fate)
       PROVE  submitting' = submitting /\ \A n \in Msg : SamePresence(n)
  <2>1. /\ UNCHANGED <<hist, submitting>>
        /\ \A n \in Msg : \/ queue'[n] = queue[n]
                          \/ queue'[n] = Claimed(queue[n])
    BY <1>10, TouchClaimFails
  <2>2. \A n \in Msg : queue[n] \in Row
    BY DEF TypeOK
  <2> QED
    BY <2>1, <2>2, SameAbsence DEF SamePresence
<1> QED
  BY <1>1, <1>2, <1>3, <1>4, <1>5, <1>6, <1>7, <1>8, <1>9, <1>10 DEF JobStep

\* RecordedFirst, and the submissions in progress, which RecordedFirst needs
\* when the INSERT comes.
RecordedOf(n) ==
  /\ faults = 0 =>
       /\ queue[n].status # "none" => hist[n].status # "none"
       /\ \A k \in Inst : n \in submitting[k] => hist[n].status # "none"
  /\ faults = 0 /\ crashes = 0 /\ hist[n].status # "none" =>
       queue[n].status # "none" \/ \E k \in Inst : n \in submitting[k]

Recorded == \A n \in Msg : RecordedOf(n)

\* No step puts a message into the queue before the history.
LEMMA RecordedNext == TypeOK /\ TypeOK' /\ Recorded /\ [Next]_vars => Recorded'
<1> SUFFICES ASSUME TypeOK, TypeOK', Recorded, [Next]_vars, NEW n \in Msg
             PROVE  RecordedOf(n)'
  BY DEF Recorded
<1>0. /\ RecordedOf(n) /\ queue[n] \in Row
      /\ crashes \in Nat /\ crashes' \in Nat /\ faults \in Nat /\ faults' \in Nat
  BY DEF Recorded, TypeOK
<1>a. ASSUME NEW fate, Statement(fate), faults' = 0 PROVE fate = "ok" /\ faults = 0
  BY <1>0, <1>a DEF Statement
<1>1. CASE UNCHANGED vars
  BY <1>0, <1>1 DEF vars, web, RecordedOf
<1>2. ASSUME NEW i \in Inst, NEW m \in Msg, JobStep(i, m), Next PROVE RecordedOf(n)'
  BY <1>0, <1>2, PresenceJob, Counting DEF RecordedOf, SamePresence
<1>3. ASSUME NEW i \in Inst, NextDue(i) PROVE RecordedOf(n)'
  BY <1>0, <1>3, TouchNextDue DEF RecordedOf
<1>4. ASSUME NEW i \in Inst, Crash(i) PROVE RecordedOf(n)'
  <2>1. /\ UNCHANGED <<queue, hist, faults>> /\ crashes' # 0
        /\ \A k \in Inst : submitting'[k] \subseteq submitting[k]
    BY <1>0, <1>4, TouchCrash
  <2> QED
    BY <1>0, <2>1 DEF RecordedOf
<1>5. ASSUME NEW m \in Msg, LeaseExpires(m) \/ BackoffElapses(m)
      PROVE  RecordedOf(n)'
  <2>1. /\ UNCHANGED <<hist, submitting, crashes, faults>>
        /\ \/ queue'[n] = queue[n]
           \/ queue'[n] = [queue[n] EXCEPT !.lease = "free"]
           \/ queue'[n] = [queue[n] EXCEPT !.next_attempt = "due"]
    BY <1>5, TouchTime
  <2>2. queue'[n].status = queue[n].status
    BY <1>0, <2>1 DEF Row
  <2> QED
    BY <1>0, <2>1, <2>2 DEF RecordedOf
<1>6. ASSUME NEW i \in Inst, NEW m \in Msg, Request(i, m) PROVE RecordedOf(n)'
  <2>1. PICK fate \in Fate : \/ Record(i, m, fate) \/ EnqueueWithID(i, m, fate)
                             \/ RequeueDead(i, m, fate) \/ MarkQueued(i, m, fate)
    BY <1>6 DEF Request
  <2>2. crashes' = crashes /\ Statement(fate)
    BY <2>1, TouchRequest
  <2>3. faults' = 0 => fate = "ok" /\ faults = 0
    BY <1>a, <2>2
  <2>4. CASE n # m
    <3>1. Quiet(n)
      BY <2>1, <2>4, TouchRequest
    <3> QED
      BY <1>0, <2>2, <2>3, <3>1 DEF RecordedOf, Quiet
  <2>5. CASE n = m
    <3>1. \/ /\ queue'[n] = queue[n]
             /\ hist'[n] = After(hist[n], Entry, fate)
             /\ \A k \in Inst : n \in submitting'[k] <=> k = i
          \/ /\ n \in submitting[i]
             /\ queue'[n] = After(queue[n], Inserted(n), fate)
             /\ hist'[n] = IF fate = "ok" THEN hist[n] ELSE NoEntry
             /\ \A k \in Inst : n \in submitting'[k] <=> n \in submitting[k] /\ k # i
          \/ /\ queue[n].status = "dead"
             /\ queue'[n] = After(queue[n], Requeued(queue[n]), fate)
             /\ hist'[n] = hist[n]
             /\ UNCHANGED submitting
          \/ /\ queue'[n] = queue[n]
             /\ hist'[n] \in {hist[n], Entry}
             /\ ~Logged(hist[n]) => hist'[n] = hist[n]
             /\ UNCHANGED submitting
      BY <2>1, <2>5, TouchRequest
    <3>2. /\ Entry.status = "queued" /\ Inserted(n).status = "queued"
          /\ Requeued(queue[n]).status = "queued"
      BY <1>0, RowFields, NewFields DEF Entry
    <3> QED
      BY <1>0, <2>2, <2>3, <3>1, <3>2 DEF RecordedOf, After, Logged
  <2> QED
    BY <2>4, <2>5
<1>7. ASSUME Retention, Next PROVE RecordedOf(n)'
  <2>1. hist'[n].status = "none" <=> hist[n].status = "none"
    BY <1>7, TouchRetention DEF Logged, PrunedEntry
  <2> QED
    BY <1>0, <1>7, <2>1, TouchRetention, Counting DEF RecordedOf
<1> QED
  BY <1>1, <1>2, <1>3, <1>4, <1>5, <1>6, <1>7 DEF Next, Deliverer

\* Whatever the deliverers, retries and stops do, a row that was ever inserted
\* has its entry in the history unless PruneSendLogs has deleted it, and unless
\* an instance stopped an entry belongs to a message that was queued or is
\* about to be.
THEOREM AlwaysRecordedFirst == Spec => []RecordedFirst
<1>1. Init => Recorded
  BY DEF Init, Recorded, RecordedOf, NoRow, NoEntry
<1>2. Recorded => RecordedFirst
  BY DEF Recorded, RecordedOf, RecordedFirst, Logged
<1>3. Spec => []Recorded
  BY <1>1, TypeInit, TypeNext, RecordedNext, PTL DEF Spec
<1> QED
  BY <1>2, <1>3, PTL

----------------------------------------------------------------------------
(***************************************************************************)
(* The history counts every attempt.  A copy may carry an old count into a *)
(* newer row, so the copies are part of the invariant: their count is not  *)
(* above the history's, and strictly below it once BumpAttempt has run.    *)
(* What a copy may carry as last_error is part of it too: an old           *)
(* "exhausted" written over a newer row would claim attempts that the      *)
(* history never counted.  Nothing is said of an entry that was deleted.   *)
(***************************************************************************)
Calm == faults = 0 /\ requeues = 0

Attempted == {"group", "persist", "retry", "resolve"}

CountRow(row, h, calm) ==
  /\ row.status = "none" => row.attempts = 0
  /\ row.status = "queued" => row.last_error \in {"none", "transient"}
  /\ calm /\ h.status # "pruned" =>
       /\ h.attempts >= row.attempts
       /\ row.status = "dead" /\ row.last_error = "exhausted" =>
            h.attempts >= MaxAttempts

CountCopy(j, h, calm) ==
  /\ j.pc \in Working => j.last_error \in {"none", "transient"}
  /\ calm /\ h.status # "pruned" =>
       /\ j.pc \in Working => h.attempts >= j.attempts
       /\ j.pc \in Attempted => h.attempts > j.attempts

CountedOf(n) ==
  /\ CountRow(queue[n], hist[n], Calm)
  /\ \A k \in Inst : /\ CountCopy(job[k][n], hist[n], Calm)
                     /\ Calm => n \notin retrying[k]

Counted == \A n \in Msg : CountedOf(n)

\* The count of a message that nobody delivers may only grow.
LEMMA CountTouch ==
  ASSUME TypeOK, TypeOK', Counted, Calm' => Calm,
         NEW i \in Inst, NEW m \in Msg, NEW row, NEW j, NEW h,
         Touch(i, m, row, j, h),
         h.attempts >= hist[m].attempts,
         hist[m].status = "pruned" => h.status = "pruned",
         CountRow(row, h, Calm'), CountCopy(j, h, Calm')
  PROVE  Counted'
<1>0. ASSUME NEW n \in Msg
      PROVE  /\ CountedOf(n) /\ hist[n].attempts \in Nat /\ hist'[n].attempts \in Nat
             /\ \A k \in Inst : job[k][n].attempts \in Nat
             /\ queue[n].attempts \in Nat /\ MaxAttempts \in Nat
  BY <1>0, RelayAssumption DEF Counted, TypeOK, Row, Job
<1>1. ASSUME NEW n \in Msg, n # m PROVE CountedOf(n)'
  <2>1. Quiet(n) /\ CountedOf(n)
    BY <1>0, <1>1 DEF Touch
  <2>2. CountRow(queue'[n], hist'[n], Calm')
    BY <2>1 DEF CountedOf, Quiet, CountRow
  <2>3. \A k \in Inst : CountCopy(job'[k][n], hist'[n], Calm')
    BY <2>1 DEF CountedOf, Quiet, CountCopy
  <2>4. \A k \in Inst : Calm' => n \notin retrying'[k]
    BY <2>1 DEF CountedOf, Quiet
  <2> QED
    BY <2>2, <2>3, <2>4 DEF CountedOf
<1>2. CountedOf(m)'
  <2>1. hist'[m] = h /\ queue'[m] = row /\ job'[i][m] = j /\ retrying' = retrying
    BY DEF Touch
  <2>2. ASSUME NEW k \in Inst, k # i PROVE CountCopy(job'[k][m], hist'[m], Calm')
    <3>1. job'[k][m] = job[k][m] /\ CountCopy(job[k][m], hist[m], Calm)
      BY <1>0, <2>2 DEF Touch, CountedOf
    <3> QED
      BY <1>0, <2>1, <3>1 DEF CountCopy
  <2>3. \A k \in Inst : Calm' => m \notin retrying'[k]
    BY <1>0, <2>1 DEF CountedOf
  <2> QED
    BY <2>1, <2>2, <2>3 DEF CountedOf
<1> QED
  BY <1>1, <1>2 DEF Counted

\* Every step of a delivery keeps the counts together.
LEMMA CountJob ==
  ASSUME Accounted, TypeOK', Recorded, Counted, Calm' => Calm,
         NEW i \in Inst, NEW m \in Msg, JobStep(i, m)
  PROVE  Counted'
<1>0. /\ TypeOK /\ queue[m] \in Row /\ job[i][m] \in Job
      /\ CountRow(queue[m], hist[m], Calm)
      /\ CountCopy(job[i][m], hist[m], Calm)
  BY DEF Counted, CountedOf, Accounted, TypeOK
<1>n. /\ hist[m].attempts \in Nat /\ queue[m].attempts \in Nat
      /\ job[i][m].attempts \in Nat /\ MaxAttempts \in Nat
      /\ hist[m] \in [status : EntryStatus, attempts : Nat]
      /\ hist[m].attempts >= hist[m].attempts
  BY <1>0, RelayAssumption DEF TypeOK, Row, Job
<1>f. ASSUME NEW fate, Statement(fate), Calm' PROVE fate = "ok"
  BY <1>0, <1>f DEF Statement, Calm, TypeOK
<1>t. ASSUME NEW j, j.pc \notin Working PROVE CountCopy(j, hist[m], Calm')
  BY <1>t DEF CountCopy, Working, Attempted
<1>r. CountRow(queue[m], hist[m], Calm')
  BY <1>0 DEF CountRow
<1>w. /\ {"cand", "ready"} \cup Attempted = Working
      /\ {"none", "release", "markDelivered"} \cap Working = {}
      /\ Burying \cap Working = {} /\ "ready" \notin Attempted
  BY DEF Working, Attempted, Burying
<1> DEFINE at(pc) == [job[i][m] EXCEPT !.pc = pc]
<1>b. /\ \A pc : /\ at(pc).pc = pc /\ at(pc).attempts = job[i][m].attempts
                 /\ at(pc).last_error = job[i][m].last_error
      /\ NoJob.pc = "none" /\ \A pc : Tail(pc).pc = pc
  BY <1>0, CopyFields
<1>1. CASE Claim(i, m)
  <2>1. CountRow(Claimed(queue[m]), hist[m], Calm')
    BY <1>0, <1>r, RowFields DEF CountRow
  <2>2. job[i][m].pc = "cand"
    BY <1>0, <1>1, TouchClaim
  <2>3. CountCopy(at("ready"), hist[m], Calm')
    <3> HIDE DEF at
    <3> QED
      BY <1>0, <1>b, <1>w, <2>2 DEF CountCopy
  <2>4. \/ Touch(i, m, Claimed(queue[m]), at("ready"), hist[m])
        \/ Touch(i, m, queue[m], NoJob, hist[m])
    BY <1>0, <1>1, TouchClaim
  <2> HIDE DEF at
  <2> QED
    BY <1>0, <1>b, <1>n, <1>r, <1>t, <1>w, <2>1, <2>3, <2>4, CountTouch
<1>2. CASE GroupAnswered(i, m)
  <2>1. PICK G, D : Touch(i, m, queue[m], Answered(job[i][m], G, D), hist[m])
    BY <1>0, <1>2, TouchAnswered
  <2>2. job[i][m].pc = "group"
    BY <1>0, <1>2, TouchAnswered
  <2>3. /\ Answered(job[i][m], G, D).pc \in Attempted
        /\ Answered(job[i][m], G, D).attempts = job[i][m].attempts
        /\ Answered(job[i][m], G, D).last_error = job[i][m].last_error
    BY <1>0, AnsweredFields DEF Attempted
  <2>4. CountCopy(Answered(job[i][m], G, D), hist[m], Calm')
    BY <1>0, <1>w, <2>2, <2>3 DEF CountCopy, Attempted
  <2> QED
    BY <1>0, <1>n, <1>r, <2>1, <2>4, CountTouch
<1>3. CASE GroupFailed(i, m)
  <2>1. Touch(i, m, queue[m], at("retry"), hist[m]) /\ job[i][m].pc = "group"
    BY <1>0, <1>3, TouchFailed
  <2> HIDE DEF at
  <2>2. CountCopy(at("retry"), hist[m], Calm')
    BY <1>0, <1>b, <1>w, <2>1 DEF CountCopy, Attempted
  <2> QED
    BY <1>0, <1>n, <1>r, <2>1, <2>2, CountTouch
<1>4. ASSUME NEW fate \in Fate, Start(i, m, fate) PROVE Counted'
  <2> DEFINE h == Bumped(hist[m], fate)
  <2>1. /\ Touch(i, m, queue[m], at("group"), h)
        /\ job[i][m].pc = "ready" /\ Statement(fate)
    BY <1>0, <1>4, TouchStart
  <2>2. /\ h.attempts \in Nat /\ h.attempts >= hist[m].attempts
        /\ h.status = hist[m].status
        /\ Logged(hist[m]) /\ fate = "ok" => h.attempts = hist[m].attempts + 1
    BY <1>n, SMT DEF Bumped
  <2>3. Calm' => Logged(hist[m]) \/ hist[m].status = "pruned"
    <3>1. queue[m].status # "none"
      BY <1>w, <2>1 DEF Accounted, InEnvelope
    <3> QED
      BY <3>1 DEF Recorded, RecordedOf, Calm, Logged
  <2> HIDE DEF at, h
  <2>4. CountRow(queue[m], h, Calm')
    BY <1>n, <1>r, <2>2 DEF CountRow
  <2>5. CountCopy(at("group"), h, Calm')
    BY <1>0, <1>b, <1>f, <1>n, <1>w, <2>1, <2>2, <2>3 DEF CountCopy
  <2> QED
    BY <1>0, <2>1, <2>2, <2>4, <2>5, CountTouch
<1>5. ASSUME NEW fate \in Fate, PersistProgress(i, m, fate) PROVE Counted'
  <2> DEFINE new == Persisted(queue[m], job[i][m].to, job[i][m].permanent,
                              job[i][m].attempts, "due", job[i][m].last_error)
             row == After(queue[m], new, fate)
  <2>1. Touch(i, m, row, at("group"), hist[m]) /\ job[i][m].pc = "persist"
    BY <1>0, <1>5, TouchPersist
  <2>2. \/ new = queue[m]
        \/ /\ new.status = queue[m].status /\ Present(queue[m])
           /\ new.attempts = job[i][m].attempts
           /\ new.last_error = job[i][m].last_error
    BY <1>0, RowFields
  <2> HIDE DEF new, at
  <2>3. CountRow(new, hist[m], Calm')
    BY <1>0, <1>n, <1>r, <1>w, <2>1, <2>2 DEF CountRow, CountCopy, Present, Attempted
  <2>4. CountRow(row, hist[m], Calm')
    BY <1>r, <2>3 DEF After
  <2>5. CountCopy(at("group"), hist[m], Calm')
    BY <1>0, <1>b, <1>w, <2>1 DEF CountCopy, Attempted
  <2> HIDE DEF row
  <2> QED
    BY <1>0, <1>n, <2>1, <2>4, <2>5, CountTouch
<1>6. ASSUME NEW fate \in Fate, Postpone(i, m, fate) PROVE Counted'
  <2> DEFINE new == Persisted(queue[m], job[i][m].to, job[i][m].permanent,
                              job[i][m].attempts + 1, "later", "transient")
             row == After(queue[m], new, fate)
  <2>1. Touch(i, m, row, Tail("release"), hist[m]) /\ job[i][m].pc = "retry"
    BY <1>0, <1>6, TouchPostpone
  <2>2. \/ new = queue[m]
        \/ /\ new.status = queue[m].status /\ Present(queue[m])
           /\ new.attempts = job[i][m].attempts + 1
           /\ new.last_error = "transient"
    BY <1>0, RowFields
  <2> HIDE DEF new
  <2>3. CountRow(new, hist[m], Calm')
    BY <1>0, <1>n, <1>r, <1>w, <2>1, <2>2 DEF CountRow, CountCopy, Present, Attempted
  <2>4. CountRow(row, hist[m], Calm')
    BY <1>r, <2>3 DEF After
  <2> HIDE DEF row
  <2> QED
    BY <1>0, <1>b, <1>n, <1>t, <1>w, <2>1, <2>4, CountTouch
<1>7. ASSUME NEW fate \in Fate, Release(i, m, fate) PROVE Counted'
  <2> DEFINE row == After(queue[m], Released(queue[m]), fate)
  <2>1. Touch(i, m, row, NoJob, hist[m])
    BY <1>0, <1>7, TouchRelease
  <2>2. CountRow(Released(queue[m]), hist[m], Calm')
    BY <1>0, <1>r, RowFields DEF CountRow
  <2>3. CountRow(row, hist[m], Calm')
    BY <1>r, <2>2 DEF After
  <2> HIDE DEF row
  <2> QED
    BY <1>0, <1>b, <1>n, <1>t, <1>w, <2>1, <2>3, CountTouch
<1>8. ASSUME NEW fate \in Fate, GiveUp(i, m, fate) \/ RejectAll(i, m, fate)
      PROVE  Counted'
  <2>1. PICK err \in {"exhausted", "rejected"} :
          /\ Touch(i, m, After(queue[m], Buried(queue[m], err), fate),
                   AfterBury(fate), hist[m])
          /\ err = "exhausted" => /\ job[i][m].pc = "retry"
                                  /\ job[i][m].attempts + 1 >= MaxAttempts
    BY <1>0, <1>8, TouchBury
  <2> DEFINE new == Buried(queue[m], err)
             row == After(queue[m], new, fate)
  <2>2. \/ new = queue[m]
        \/ /\ new.status = "dead" /\ new.last_error = err
           /\ new.attempts = queue[m].attempts
    BY <1>0, RowFields
  <2>3. Calm' /\ hist[m].status # "pruned" /\ err = "exhausted" =>
          hist[m].attempts >= MaxAttempts
    BY <1>0, <1>n, <2>1 DEF CountCopy, Attempted
  <2>4. CountRow(new, hist[m], Calm')
    <3> HIDE DEF new
    <3> QED
      BY <1>0, <1>n, <1>r, <2>1, <2>2, <2>3 DEF CountRow
  <2>5. CountRow(row, hist[m], Calm')
    BY <1>r, <2>4 DEF After
  <2>6. AfterBury(fate).pc \notin Working
    BY AfterBuryFields DEF Working
  <2>7. Touch(i, m, row, AfterBury(fate), hist[m])
    BY <2>1
  <2> HIDE DEF row
  <2> QED
    BY <1>0, <1>n, <1>t, <2>5, <2>6, <2>7, CountTouch
<1>9. ASSUME NEW fate \in Fate, Succeed(i, m, fate) PROVE Counted'
  <2> DEFINE row == After(queue[m], Succeeded(queue[m]), fate)
  <2>1. PICK j \in {NoJob, Tail("markDelivered")} : Touch(i, m, row, j, hist[m])
    BY <1>0, <1>9, TouchSucceed
  <2>2. CountRow(NoRow("done"), hist[m], Calm')
    BY <1>n, NewFields DEF CountRow
  <2>3. Succeeded(queue[m]) \in {queue[m], NoRow("done")}
    BY DEF Succeeded
  <2>4. CountRow(row, hist[m], Calm')
    BY <1>r, <2>2, <2>3 DEF After
  <2>5. j.pc \notin Working
    BY <1>b, <1>w, <2>1
  <2> HIDE DEF row
  <2> QED
    BY <1>0, <1>n, <1>t, <2>1, <2>4, <2>5, CountTouch
<1>10. ASSUME NEW fate \in Fate, PruneCount(i, m, fate) \/ PruneSelect(i, m, fate)
       PROVE  Counted'
  <2>1. /\ PruneNext(job'[i][m], fate)
        /\ Touch(i, m, queue[m], job'[i][m], hist[m])
    BY <1>0, <1>10, TouchPruneSelect
  <2>2. job'[i][m].pc \notin Working
    BY <1>b, <1>w, <2>1 DEF PruneNext
  <2> QED
    BY <1>0, <1>n, <1>r, <1>t, <2>1, <2>2, CountTouch
<1>11. ASSUME NEW fate \in Fate, MarkDead(i, m, fate) \/ MarkDelivered(i, m, fate)
       PROVE  Counted'
  <2>1. PICK s \in {"dead", "delivered"} :
          Touch(i, m, queue[m], NoJob, Marked(hist[m], s, fate))
    BY <1>0, <1>11, TouchMark
  <2> DEFINE h == Marked(hist[m], s, fate)
  <2>2. /\ h.attempts = hist[m].attempts
        /\ hist[m].status = "pruned" <=> h.status = "pruned"
    BY <1>n, <2>1 DEF Marked, Logged
  <2>3. CountRow(queue[m], h, Calm')
    BY <1>r, <2>2 DEF CountRow
  <2>4. CountCopy(NoJob, h, Calm')
    BY <1>b, <1>w DEF CountCopy, Attempted
  <2>5. Touch(i, m, queue[m], NoJob, h)
    BY <2>1
  <2> HIDE DEF h
  <2> QED
    BY <1>0, <1>n, <2>2, <2>3, <2>4, <2>5, CountTouch
<1>12. ASSUME NEW fate \in Fate, PruneDelete(i, m, fate) PROVE Counted'
  <2>1. /\ UNCHANGED <<hist, retrying>>
        /\ PruneNext(job'[i][m], fate)
        /\ \A k \in Inst \ {i} : job'[k][m] = job[k][m]
        /\ \A n \in Msg \ {m}, k \in Inst : job'[k][n] = job[k][n]
        /\ \A n \in Msg : queue'[n] = queue[n] \/ queue'[n] = NoRow("pruned")
    BY <1>0, <1>12, TouchPruneDelete
  <2>2. job'[i][m].pc \notin Working
    BY <1>b, <1>w, <2>1 DEF PruneNext
  <2>3. ASSUME NEW n \in Msg PROVE CountedOf(n)'
    <3>1. CountedOf(n) /\ hist[n].attempts \in Nat
      BY <1>0 DEF Counted, TypeOK
    <3>2. CountRow(queue'[n], hist[n], Calm')
      BY <2>1, <3>1, NewFields DEF CountRow, CountedOf
    <3>3. ASSUME NEW k \in Inst PROVE CountCopy(job'[k][n], hist[n], Calm')
      <4>1. job'[k][n] = job[k][n] \/ job'[k][n].pc \notin Working
        BY <2>1, <2>2
      <4> QED
        BY <1>w, <3>1, <4>1 DEF CountCopy, CountedOf
    <3> QED
      BY <2>1, <3>1, <3>2, <3>3 DEF CountedOf
  <2> QED
    BY <2>3 DEF Counted
<1>13. ASSUME NEW fate \in Fate, ClaimFails(i, m, fate) PROVE Counted'
  <2>1. /\ UNCHANGED <<hist, retrying>>
        /\ \A n \in Msg, k \in Inst \ {i} : job'[k][n] = job[k][n]
        /\ \A n \in Msg : job'[i][n] = NoJob
        /\ \A n \in Msg : queue'[n] = queue[n] \/ queue'[n] = Claimed(queue[n])
    BY <1>0, <1>13, TouchClaimFails
  <2>2. ASSUME NEW n \in Msg PROVE CountedOf(n)'
    <3>1. CountedOf(n) /\ queue[n] \in Row
      BY <1>0 DEF Counted, TypeOK
    <3>2. CountRow(Claimed(queue[n]), hist[n], Calm')
      BY <3>1, RowFields DEF CountRow, CountedOf
    <3>3. CountRow(queue'[n], hist[n], Calm')
      BY <2>1, <3>1, <3>2 DEF CountRow, CountedOf
    <3>4. ASSUME NEW k \in Inst PROVE CountCopy(job'[k][n], hist[n], Calm')
      <4>1. job'[k][n] = job[k][n] \/ job'[k][n].pc \notin Working
        BY <1>b, <1>w, <2>1
      <4> QED
        BY <1>w, <3>1, <4>1 DEF CountCopy, CountedOf
    <3> QED
      BY <2>1, <3>1, <3>3, <3>4 DEF CountedOf
  <2> QED
    BY <2>2 DEF Counted
<1> QED
  BY <1>1, <1>2, <1>3, <1>4, <1>5, <1>6, <1>7, <1>8, <1>9, <1>10, <1>11, <1>12,
     <1>13 DEF JobStep

\* So do polling, stops, time and requests.
LEMMA CountOther ==
  ASSUME Accounted, TypeOK', Counted, Calm' => Calm,
         \/ \E i \in Inst : NextDue(i) \/ Crash(i)
         \/ \E m \in Msg : LeaseExpires(m) \/ BackoffElapses(m)
         \/ \E i \in Inst, m \in Msg : Request(i, m)
         \/ Retention
  PROVE  Counted'
<1> SUFFICES ASSUME NEW n \in Msg PROVE CountedOf(n)'
  BY DEF Counted
<1>0. /\ TypeOK /\ queue[n] \in Row
      /\ CountRow(queue[n], hist[n], Calm)
      /\ \A k \in Inst : CountCopy(job[k][n], hist[n], Calm)
      /\ \A k \in Inst : Calm => n \notin retrying[k]
  BY DEF Counted, CountedOf, Accounted, TypeOK
<1>n. hist[n].attempts \in Nat /\ queue[n].attempts \in Nat
  BY <1>0 DEF TypeOK, Row
<1>r. CountRow(queue[n], hist[n], Calm')
  BY <1>0 DEF CountRow
<1>c. \A k \in Inst : CountCopy(job[k][n], hist[n], Calm')
  BY <1>0 DEF CountCopy
<1>j. CountCopy(NoJob, hist[n], Calm')
  BY DEF CountCopy, NoJob, Tail, Working, Attempted
<1>1. ASSUME NEW i \in Inst, NextDue(i) PROVE CountedOf(n)'
  <2>1. /\ UNCHANGED <<queue, hist, retrying>>
        /\ \A k \in Inst \ {i} : job'[k][n] = job[k][n]
        /\ \/ job'[i][n] = NoJob
           \/ Due(queue[n]) /\ job'[i][n] = Scanned(queue[n])
    BY <1>0, <1>1, TouchNextDue
  <2>2. Due(queue[n]) => CountCopy(Scanned(queue[n]), hist[n], Calm')
    <3>1. /\ Scanned(queue[n]).pc = "cand"
          /\ Scanned(queue[n]).attempts = queue[n].attempts
          /\ Scanned(queue[n]).last_error = queue[n].last_error
      BY DEF Scanned, Tail
    <3> QED
      BY <1>r, <3>1 DEF Due, CountRow, CountCopy, Attempted
  <2> QED
    BY <1>0, <1>r, <1>c, <1>j, <2>1, <2>2 DEF CountedOf
<1>2. ASSUME NEW i \in Inst, Crash(i) PROVE CountedOf(n)'
  <2>1. /\ UNCHANGED <<queue, hist>>
        /\ \A k \in Inst \ {i} : job'[k][n] = job[k][n]
        /\ job'[i][n] = NoJob
        /\ \A k \in Inst : retrying'[k] \subseteq retrying[k]
    BY <1>0, <1>2, TouchCrash
  <2> QED
    BY <1>0, <1>r, <1>c, <1>j, <2>1 DEF CountedOf
<1>3. ASSUME NEW m \in Msg, LeaseExpires(m) \/ BackoffElapses(m) PROVE CountedOf(n)'
  <2>1. /\ UNCHANGED <<job, hist, retrying>>
        /\ \/ queue'[n] = queue[n]
           \/ queue'[n] = [queue[n] EXCEPT !.lease = "free"]
           \/ queue'[n] = [queue[n] EXCEPT !.next_attempt = "due"]
    BY <1>0, <1>3, TouchTime
  <2>2. /\ queue'[n].status = queue[n].status
        /\ queue'[n].attempts = queue[n].attempts
        /\ queue'[n].last_error = queue[n].last_error
    BY <1>0, <2>1 DEF Row
  <2>3. CountRow(queue'[n], hist[n], Calm')
    BY <1>r, <2>2 DEF CountRow
  <2> QED
    BY <1>0, <1>c, <2>1, <2>3 DEF CountedOf
<1>4. ASSUME NEW i \in Inst, NEW m \in Msg, Request(i, m) PROVE CountedOf(n)'
  <2>1. PICK fate \in Fate : \/ Record(i, m, fate) \/ EnqueueWithID(i, m, fate)
                             \/ RequeueDead(i, m, fate) \/ MarkQueued(i, m, fate)
    BY <1>4 DEF Request
  <2>2. job' = job /\ Statement(fate)
    BY <1>0, <2>1, TouchRequest
  <2>3. Calm' => fate = "ok"
    BY <1>0, <2>2 DEF Statement, Calm, TypeOK
  <2>4. CASE n # m
    <3>1. Quiet(n)
      BY <1>0, <2>1, <2>4, TouchRequest
    <3> QED
      BY <1>0, <1>r, <1>c, <3>1 DEF CountedOf, Quiet
  <2>5. CASE n = m
    <3>0. \/ /\ Fresh(n) /\ queue'[n] = queue[n]
             /\ hist'[n] = After(hist[n], Entry, fate)
             /\ retrying' = retrying
          \/ /\ queue'[n] = After(queue[n], Inserted(n), fate)
             /\ hist'[n] = IF fate = "ok" THEN hist[n] ELSE NoEntry
             /\ retrying' = retrying
          \/ /\ queue'[n] = After(queue[n], Requeued(queue[n]), fate)
             /\ hist'[n] = hist[n]
             /\ requeues' = requeues + 1
          \/ /\ n \in retrying[i] /\ queue'[n] = queue[n]
             /\ \A k \in Inst : retrying'[k] \subseteq retrying[k]
      BY <1>0, <2>1, <2>5, TouchRequest
    <3>1. CASE /\ Fresh(n) /\ queue'[n] = queue[n]
               /\ hist'[n] = After(hist[n], Entry, fate)
               /\ retrying' = retrying
      <4>1. /\ queue[n].status = "none" /\ queue[n].attempts = 0
            /\ \A k \in Inst : job[k][n].pc \notin Working
        BY <1>0, <3>1 DEF Fresh, CountRow, Accounted, InEnvelope
      <4>2. hist'[n].attempts \in Nat
        BY DEF TypeOK
      <4>3. CountRow(queue'[n], hist'[n], Calm')
        BY <3>1, <4>1, <4>2 DEF CountRow
      <4>4. \A k \in Inst : CountCopy(job'[k][n], hist'[n], Calm')
        BY <2>2, <4>1 DEF CountCopy, Working, Attempted
      <4> QED
        BY <1>0, <3>1, <4>3, <4>4 DEF CountedOf
    <3>2. CASE /\ queue'[n] = After(queue[n], Inserted(n), fate)
               /\ hist'[n] = IF fate = "ok" THEN hist[n] ELSE NoEntry
               /\ retrying' = retrying
      <4>1. Calm' => hist'[n] = hist[n]
        BY <2>3, <3>2
      <4>2. CountRow(Inserted(n), hist[n], Calm')
        BY <1>n, NewFields DEF CountRow
      <4>3. CountRow(queue'[n], hist[n], Calm')
        BY <1>r, <3>2, <4>2 DEF After
      <4>4. CountRow(queue'[n], hist'[n], Calm')
        BY <4>1, <4>3 DEF CountRow
      <4>5. \A k \in Inst : CountCopy(job'[k][n], hist'[n], Calm')
        BY <1>c, <2>2, <4>1 DEF CountCopy
      <4> QED
        BY <1>0, <3>2, <4>4, <4>5 DEF CountedOf
    <3>3. CASE /\ queue'[n] = After(queue[n], Requeued(queue[n]), fate)
               /\ hist'[n] = hist[n]
               /\ requeues' = requeues + 1
      <4>1. ~Calm'
        BY <1>0, <3>3 DEF Calm, TypeOK
      <4>2. CountRow(Requeued(queue[n]), hist[n], Calm')
        BY <1>0, <4>1, RowFields DEF CountRow
      <4>3. CountRow(queue'[n], hist[n], Calm')
        BY <1>r, <3>3, <4>2 DEF After
      <4> QED
        BY <1>c, <2>2, <3>3, <4>1, <4>3 DEF CountedOf
    <3>4. CASE /\ n \in retrying[i] /\ queue'[n] = queue[n]
               /\ \A k \in Inst : retrying'[k] \subseteq retrying[k]
      <4>1. ~Calm'
        BY <1>0, <3>4
      <4>2. CountRow(queue'[n], hist'[n], Calm')
        BY <1>r, <3>4, <4>1 DEF CountRow
      <4>3. \A k \in Inst : CountCopy(job'[k][n], hist'[n], Calm')
        BY <1>c, <2>2, <4>1 DEF CountCopy
      <4> QED
        BY <4>1, <4>2, <4>3 DEF CountedOf
    <3> QED
      BY <3>0, <3>1, <3>2, <3>3, <3>4
  <2> QED
    BY <2>4, <2>5
<1>5. CASE Retention
  <2>1. /\ UNCHANGED <<queue, job, retrying>>
        /\ hist'[n] = hist[n] \/ hist'[n].status = "pruned"
    BY <1>0, <1>5, TouchRetention DEF PrunedEntry
  <2>2. CountRow(queue'[n], hist'[n], Calm')
    BY <1>r, <2>1 DEF CountRow
  <2>3. \A k \in Inst : CountCopy(job'[k][n], hist'[n], Calm')
    BY <1>c, <2>1 DEF CountCopy
  <2> QED
    BY <1>0, <2>1, <2>2, <2>3 DEF CountedOf
<1> QED
  BY <1>1, <1>2, <1>3, <1>4, <1>5

\* The counts agree at first.
LEMMA CountedInit == Init => Counted
<1> SUFFICES ASSUME Init, NEW n \in Msg PROVE CountedOf(n)
  BY DEF Counted
<1>1. /\ queue[n] = NoRow("none") /\ hist[n] = NoEntry
      /\ \A k \in Inst : job[k][n] = NoJob /\ retrying[k] = {}
  BY DEF Init
<1>2. CountRow(queue[n], hist[n], Calm)
  BY <1>1 DEF CountRow, NoRow, NoEntry
<1>3. \A k \in Inst : CountCopy(job[k][n], hist[n], Calm)
  BY <1>1 DEF CountCopy, NoJob, Tail, Working, Attempted
<1> QED
  BY <1>1, <1>2, <1>3 DEF CountedOf

\* No step takes them apart.
LEMMA CountedNext ==
  Accounted /\ TypeOK' /\ Recorded /\ Counted /\ [Next]_vars => Counted'
<1> SUFFICES ASSUME Accounted, TypeOK', Recorded, Counted, [Next]_vars
             PROVE  Counted'
  OBVIOUS
<1>1. CASE UNCHANGED vars
  BY <1>1 DEF vars, web, Counted, CountedOf, Calm
<1>2. CASE Next
  <2>1. Calm' => Calm
    BY <1>2, Counting DEF Accounted, Calm
  <2> QED
    BY <1>2, <2>1, CountJob, CountOther DEF Next, Deliverer
<1> QED
  BY <1>1, <1>2

\* An entry that is still there has counted every attempt the queue has, and
\* all of max_attempts when a message is given up, although the two counters are in
\* different tables and stale copies overwrite the queue's.
THEOREM AttemptsAlwaysRecorded == Spec => []AttemptsRecorded
<1>1. Counted => AttemptsRecorded
  BY DEF Counted, CountedOf, CountRow, AttemptsRecorded, Calm
<1>2. Init => Recorded
  BY DEF Init, Recorded, RecordedOf, NoRow, NoEntry
<1>3. Accounted => TypeOK
  BY DEF Accounted
<1>4. Spec => []Accounted
  BY AlwaysAccounted
<1>5. Spec => [](Recorded /\ Counted)
  BY <1>2, <1>3, <1>4, CountedInit, RecordedNext, CountedNext, PTL DEF Spec
<1> QED
  BY <1>1, <1>5, PTL

----------------------------------------------------------------------------
(***************************************************************************)
(* The cap on dead rows.  Between the three statements of pruneDead other  *)
(* instances bury, prune and requeue, so that a count and a list of        *)
(* victims may be out of date.  What remains true is that whenever the     *)
(* dead rows exceed the cap, some goroutine is on its way to delete        *)
(* enough: it has still to count, its count covers the excess, or all that *)
(* it will leave fits the cap.                                             *)
(***************************************************************************)

\* The rank of a number in a finite set is an injection, so that the LIMIT k of
\* pruneDead's SELECT leaves out all but the k smallest.
LEMMA OldestCut ==
  ASSUME NEW S \in SUBSET Nat, IsFiniteSet(S), NEW k \in Nat, NEW c \in Nat,
         Cardinality(S) <= c + k
  PROVE  Cardinality(S \ Oldest(S, k)) <= c
<1> DEFINE below(m) == {n \in S : n < m}
           rank == [m \in S |-> Cardinality(below(m))]
           T == S \ Oldest(S, k)
           N == Cardinality(S)
<1>0. N \in Nat
  BY FS_CardinalityType
<1>1. ASSUME NEW m \in S
      PROVE  /\ IsFiniteSet(below(m)) /\ rank[m] = Cardinality(below(m))
             /\ rank[m] \in Nat /\ rank[m] < N
  <2>1. below(m) \in SUBSET S /\ m \notin below(m)
    OBVIOUS
  <2>2. /\ IsFiniteSet(below(m))
        /\ Cardinality(below(m)) <= N /\ Cardinality(below(m)) # N
    <3> HIDE DEF below
    <3> QED
      BY <2>1, FS_Subset
  <2>3. Cardinality(below(m)) \in Nat
    BY <2>2, FS_CardinalityType
  <2>4. rank[m] = Cardinality(below(m))
    OBVIOUS
  <2> HIDE DEF below, N, rank
  <2> QED
    BY <1>0, <2>2, <2>3, <2>4
<1>2. ASSUME NEW m \in S, NEW n \in S, m < n PROVE rank[m] < rank[n]
  <2>1. /\ m \in Nat /\ n \in Nat
        /\ IsFiniteSet(below(n)) /\ rank[m] = Cardinality(below(m))
        /\ rank[n] = Cardinality(below(n)) /\ rank[m] \in Nat /\ rank[n] \in Nat
    BY <1>1
  <2>2. ASSUME NEW x \in below(m) PROVE x \in below(n)
    <3>1. x \in S /\ x \in Nat /\ x < m
      OBVIOUS
    <3>2. x < n
      BY <1>2, <2>1, <3>1
    <3> QED
      BY <3>1, <3>2
  <2>3. m \in below(n) /\ m \notin below(m)
    BY <1>2, <2>1
  <2> HIDE DEF below, rank
  <2>4. Cardinality(below(m)) <= Cardinality(below(n)) /\ below(m) # below(n)
    BY <2>1, <2>2, <2>3, FS_Subset
  <2>5. Cardinality(below(m)) # Cardinality(below(n))
    BY <2>1, <2>2, <2>4, FS_Subset
  <2> QED
    BY <2>1, <2>4, <2>5
<1>3. ASSUME NEW m \in T PROVE m \in S /\ rank[m] >= k
  <2>1. m \in S /\ ~(Cardinality(below(m)) < k)
    BY DEF Oldest
  <2> HIDE DEF below, rank
  <2> QED
    BY <1>1, <2>1
<1> DEFINE f == [m \in T |-> rank[m]]
<1>4. f \in Injection(T, k..(N - 1))
  <2> HIDE DEF rank, N, T
  <2>1. ASSUME NEW m \in T
        PROVE  m \in Nat /\ m \in S /\ f[m] = rank[m] /\ f[m] \in k..(N - 1)
    <3>1. m \in S /\ rank[m] >= k /\ f[m] = rank[m]
      BY <1>3
    <3>2. rank[m] \in Nat /\ rank[m] < N
      BY <1>1, <3>1
    <3> HIDE DEF f
    <3> QED
      BY <1>0, <3>1, <3>2
  <2>2. f \in [T -> k..(N - 1)]
    BY <2>1
  <2>3. \A m, n \in T : f[m] = f[n] => m = n
    <3> SUFFICES ASSUME NEW m \in T, NEW n \in T, m # n PROVE f[m] # f[n]
      OBVIOUS
    <3> HIDE DEF f
    <3>1. m < n \/ n < m
      BY <2>1
    <3>2. rank[m] \in Nat /\ rank[n] \in Nat
      BY <1>1, <2>1
    <3>3. rank[m] < rank[n] \/ rank[n] < rank[m]
      BY <1>2, <2>1, <3>1
    <3> QED
      BY <2>1, <3>2, <3>3
  <2> HIDE DEF f
  <2> QED
    BY <2>2, <2>3 DEF Injection, IsInjective
<1>5. /\ IsFiniteSet(k..(N - 1))
      /\ Cardinality(k..(N - 1)) = IF k > N - 1 THEN 0 ELSE N - 1 - k + 1
  <2> HIDE DEF N
  <2> QED
    BY <1>0, FS_Interval
<1>6. Cardinality(T) <= Cardinality(k..(N - 1)) /\ IsFiniteSet(T)
  <2> HIDE DEF T, N, f
  <2> QED
    BY <1>4, <1>5, FS_Injection
<1>7. Cardinality(T) \in Nat
  BY <1>6, FS_CardinalityType
<1> QED
  <2> HIDE DEF T, N
  <2>1. N <= c + k
    BY DEF N
  <2>2. Cardinality(T) <= c
    BY <1>0, <1>5, <1>6, <1>7, <2>1
  <2> QED
    BY <2>2 DEF T

\* The goroutine is going to bring the dead rows D below the cap.
Prunes(j, D) ==
  \/ j.pc = "count"
  \/ j.pc = "victims" /\ Cardinality(D) <= DeadMax + j.over
  \/ j.pc = "delete" /\ Cardinality(D \ j.victims) <= DeadMax

Capped ==
  DeadMax > 0 /\ crashes = 0 /\ faults = 0 =>
    \/ Cardinality(Dead(queue)) <= DeadMax
    \/ \E k \in Inst, n \in Msg : Prunes(job[k][n], Dead(queue))

\* The dead rows are finitely many numbers.
LEMMA DeadRows ==
  ASSUME NEW table
  PROVE  /\ Dead(table) \in SUBSET Nat /\ IsFiniteSet(Dead(table))
         /\ Cardinality(Dead(table)) \in Nat
<1>1. IsFiniteSet(Msg)
  BY FS_Interval, StorageAssumption DEF Msg
<1>2. Dead(table) \in SUBSET Msg /\ Msg \subseteq Nat
  BY StorageAssumption DEF Dead, Msg
<1> QED
  BY <1>1, <1>2, FS_Subset, FS_CardinalityType

\* Fewer dead rows are no harder to prune.
LEMMA PrunesFewer ==
  ASSUME NEW D, NEW E \in SUBSET D, IsFiniteSet(D), NEW j \in Job
  PROVE  /\ Prunes(j, D) => Prunes(j, E)
         /\ Cardinality(D) <= DeadMax => Cardinality(E) <= DeadMax
<1>1. /\ Cardinality(E) <= Cardinality(D) /\ IsFiniteSet(E)
      /\ Cardinality(E) \in Nat /\ Cardinality(D) \in Nat
  BY FS_Subset, FS_CardinalityType
<1>2. E \ j.victims \in SUBSET (D \ j.victims) /\ IsFiniteSet(D \ j.victims)
  BY FS_Difference
<1>3. /\ Cardinality(E \ j.victims) <= Cardinality(D \ j.victims)
      /\ Cardinality(E \ j.victims) \in Nat /\ Cardinality(D \ j.victims) \in Nat
  BY <1>2, FS_Subset, FS_CardinalityType
<1>4. j.over \in Nat /\ DeadMax \in Nat
  BY RelayAssumption DEF Job
<1> QED
  BY <1>1, <1>3, <1>4 DEF Prunes

\* A step that buries nobody and is not one of pruneDead.
LEMMA CapFrame ==
  ASSUME TypeOK, TypeOK', Capped, crashes' = 0 /\ faults' = 0 => crashes = 0 /\ faults = 0,
         \A n \in Msg : queue'[n].status = "dead" => queue[n].status = "dead",
         \A k \in Inst, n \in Msg :
           \/ job'[k][n] = job[k][n]
           \/ job[k][n].pc \notin {"count", "victims", "delete"}
  PROVE  Capped'
<1> SUFFICES ASSUME DeadMax > 0, crashes' = 0, faults' = 0
             PROVE  \/ Cardinality(Dead(queue')) <= DeadMax
                    \/ \E k \in Inst, n \in Msg : Prunes(job'[k][n], Dead(queue'))
  BY DEF Capped, Prunes, Dead
<1>1. Dead(queue') \in SUBSET Dead(queue) /\ IsFiniteSet(Dead(queue))
  BY DeadRows DEF Dead
<1>2. CASE Cardinality(Dead(queue)) <= DeadMax
  <2>1. NoJob \in Job
    BY NoJobJob
  <2> QED
    BY <1>1, <1>2, <2>1, PrunesFewer
<1>3. ASSUME NEW k \in Inst, NEW n \in Msg, Prunes(job[k][n], Dead(queue))
      PROVE  Prunes(job'[k][n], Dead(queue'))
  <2>1. job[k][n] \in Job /\ job'[k][n] = job[k][n]
    BY <1>3 DEF TypeOK, Prunes
  <2>2. Prunes(job[k][n], Dead(queue'))
    BY <1>1, <1>3, <2>1, PrunesFewer
  <2> QED
    BY <2>1, <2>2
<1> QED
  BY <1>2, <1>3 DEF Capped

\* A step of a goroutine that is not pruning and buries nobody.
LEMMA CapTouch ==
  ASSUME TypeOK, TypeOK', Capped, faults' >= faults,
         NEW i \in Inst, NEW m \in Msg, NEW row, NEW j, NEW h,
         Touch(i, m, row, j, h),
         job[i][m].pc \notin {"count", "victims", "delete"},
         row.status = "dead" => queue[m].status = "dead"
  PROVE  Capped'
<1>1. \A n \in Msg : queue'[n].status = "dead" => queue[n].status = "dead"
  BY DEF Touch, Quiet
<1>2. \A k \in Inst, n \in Msg :
        \/ job'[k][n] = job[k][n]
        \/ job[k][n].pc \notin {"count", "victims", "delete"}
  BY DEF Touch, Quiet
<1>3. faults \in Nat /\ faults' \in Nat /\ crashes' = crashes
  BY DEF TypeOK, Touch
<1>4. crashes' = 0 /\ faults' = 0 => crashes = 0 /\ faults = 0
  BY <1>3
<1> QED
  BY <1>1, <1>2, <1>4, CapFrame

\* The steps of deliver.
LEMMA CapDeliver ==
  ASSUME TypeOK, TypeOK', Capped, faults' >= faults,
         NEW i \in Inst, NEW m \in Msg, NEW fate \in Fate,
         \/ Claim(i, m) \/ GroupAnswered(i, m) \/ GroupFailed(i, m)
         \/ Start(i, m, fate) \/ PersistProgress(i, m, fate)
         \/ GiveUp(i, m, fate) \/ Postpone(i, m, fate) \/ Release(i, m, fate)
         \/ RejectAll(i, m, fate) \/ Succeed(i, m, fate)
         \/ MarkDead(i, m, fate) \/ MarkDelivered(i, m, fate)
  PROVE  Capped'
<1>0. /\ queue[m] \in Row /\ faults \in Nat /\ faults' \in Nat
  BY DEF TypeOK
<1>1. CASE Claim(i, m)
  <2>1. Claimed(queue[m]).status = queue[m].status
    BY <1>0, SameAbsence
  <2>2. PICK row, j : /\ row \in {queue[m], Claimed(queue[m])}
                      /\ Touch(i, m, row, j, hist[m])
    <3>1. \/ \E j : Touch(i, m, Claimed(queue[m]), j, hist[m])
          \/ \E j : Touch(i, m, queue[m], j, hist[m])
      BY <1>1, TouchClaim
    <3> QED
      BY <3>1
  <2>3. job[i][m].pc = "cand"
    BY <1>1, TouchClaim
  <2> QED
    BY <2>1, <2>2, <2>3, CapTouch
<1>2. CASE GroupAnswered(i, m) \/ GroupFailed(i, m) \/ Start(i, m, fate)
           \/ MarkDead(i, m, fate) \/ MarkDelivered(i, m, fate)
  <2>1. PICK j, h : Touch(i, m, queue[m], j, h)
    <3>1. CASE GroupAnswered(i, m)
      BY <3>1, TouchAnswered
    <3>2. CASE GroupFailed(i, m)
      BY <3>2, TouchFailed
    <3>3. CASE Start(i, m, fate)
      BY <3>3, TouchStart
    <3>4. CASE MarkDead(i, m, fate) \/ MarkDelivered(i, m, fate)
      BY <3>4, TouchMark
    <3> QED
      BY <1>2, <3>1, <3>2, <3>3, <3>4
  <2>2. job[i][m].pc \in {"group", "ready", "markDead", "markDelivered"}
    BY <1>2 DEF GroupAnswered, GroupFailed, Start, MarkDead, MarkDelivered
  <2> QED
    BY <2>1, <2>2, CapTouch
<1>3. CASE PersistProgress(i, m, fate)
  <2> DEFINE row == After(queue[m],
                        Persisted(queue[m], job[i][m].to, job[i][m].permanent,
                                  job[i][m].attempts, "due", job[i][m].last_error),
                        fate)
  <2>1. row.status = queue[m].status
    BY <1>0, SameAbsence DEF After
  <2>2. PICK j : Touch(i, m, row, j, hist[m])
    BY <1>3, TouchPersist
  <2>3. job[i][m].pc = "persist"
    BY <1>3, TouchPersist
  <2> HIDE DEF row
  <2> QED
    BY <2>1, <2>2, <2>3, CapTouch
<1>4. CASE Postpone(i, m, fate)
  <2> DEFINE row == After(queue[m],
                        Persisted(queue[m], job[i][m].to, job[i][m].permanent,
                                  job[i][m].attempts + 1, "later", "transient"),
                        fate)
  <2>1. row.status = queue[m].status
    BY <1>0, SameAbsence DEF After
  <2>2. Touch(i, m, row, Tail("release"), hist[m]) /\ job[i][m].pc = "retry"
    BY <1>4, TouchPostpone
  <2> HIDE DEF row
  <2> QED
    BY <2>1, <2>2, CapTouch
<1>5. CASE Release(i, m, fate) \/ Succeed(i, m, fate)
  <2>1. PICK row, j :
          /\ row \in {Released(queue[m]), Succeeded(queue[m])}
          /\ Touch(i, m, After(queue[m], row, fate), j, hist[m])
    BY <1>5, TouchRelease, TouchSucceed
  <2>2. job[i][m].pc \in {"release", "resolve"}
    BY <1>5 DEF Release, Succeed
  <2>3. row.status = "dead" => queue[m].status = "dead"
    <3>1. Released(queue[m]).status = queue[m].status
      BY <1>0, SameAbsence
    <3>2. Succeeded(queue[m]).status = "dead" => queue[m].status = "dead"
      BY NewFields DEF Succeeded
    <3> QED
      BY <2>1, <3>1, <3>2
  <2>4. After(queue[m], row, fate).status = "dead" => queue[m].status = "dead"
    BY <2>3 DEF After
  <2> QED
    BY <2>1, <2>2, <2>4, CapTouch
<1>6. CASE GiveUp(i, m, fate) \/ RejectAll(i, m, fate)
  <2>1. PICK row : Touch(i, m, row, AfterBury(fate), hist[m])
    BY <1>6, TouchBury
  <2>2. job'[i][m] = AfterBury(fate) /\ Statement(fate)
    BY <1>6, <2>1, TouchBury DEF Touch
  <2>3. DeadMax > 0 /\ faults' = 0 => job'[i][m].pc = "count"
    BY <1>0, <2>2, RelayAssumption DEF AfterBury, Tail, Statement
  <2> QED
    BY <2>3 DEF Capped, Prunes
<1> QED
  BY <1>1, <1>2, <1>3, <1>4, <1>5, <1>6

\* pruneDead itself.
LEMMA CapPrune ==
  ASSUME TypeOK, TypeOK', Capped, faults' >= faults, crashes' = crashes,
         NEW i \in Inst, NEW m \in Msg, NEW fate \in Fate,
         \/ PruneCount(i, m, fate) \/ PruneSelect(i, m, fate)
         \/ PruneDelete(i, m, fate)
  PROVE  Capped'
<1> SUFFICES ASSUME DeadMax > 0, crashes' = 0, faults' = 0
             PROVE  \/ Cardinality(Dead(queue')) <= DeadMax
                    \/ \E k \in Inst, n \in Msg : Prunes(job'[k][n], Dead(queue'))
  BY DEF Capped, Prunes, Dead
<1>0. /\ job[i][m] \in Job /\ faults = 0 /\ crashes = 0 /\ DeadMax \in Nat
  BY RelayAssumption DEF TypeOK
<1>1. fate = "ok"
  BY <1>0 DEF PruneCount, PruneSelect, PruneDelete, Statement
<1>2. /\ IsFiniteSet(Dead(queue)) /\ Dead(queue) \in SUBSET Nat
      /\ Cardinality(Dead(queue)) \in Nat
  BY DeadRows
<1>3. Dead(queue') \in SUBSET Dead(queue)
  <2>1. \A n \in Msg : \/ queue'[n] = queue[n]
                       \/ queue'[n] = NoRow("pruned")
    BY TouchPruneDelete DEF PruneCount, PruneSelect
  <2> QED
    BY <2>1, NewFields DEF Dead
<1>4. \A k \in Inst, n \in Msg : k # i \/ n # m => job'[k][n] = job[k][n]
  <2>1. CASE PruneDelete(i, m, fate)
    BY <2>1, TouchPruneDelete
  <2>2. CASE PruneCount(i, m, fate) \/ PruneSelect(i, m, fate)
    BY <2>2, TouchPruneSelect DEF Touch, Quiet
  <2> QED
    BY <2>1, <2>2
<1>5. CASE Cardinality(Dead(queue)) <= DeadMax
  BY <1>0, <1>2, <1>3, <1>5, PrunesFewer
<1>6. CASE \E k \in Inst, n \in Msg : (k # i \/ n # m) /\ Prunes(job[k][n], Dead(queue))
  <2>1. PICK k \in Inst, n \in Msg : (k # i \/ n # m) /\ Prunes(job[k][n], Dead(queue))
    BY <1>6
  <2>2. job[k][n] \in Job
    BY DEF TypeOK
  <2>3. Prunes(job[k][n], Dead(queue'))
    BY <1>2, <1>3, <2>1, <2>2, PrunesFewer
  <2> QED
    BY <1>4, <2>1, <2>3
<1>7. CASE Prunes(job[i][m], Dead(queue))
  <2>1. CASE PruneCount(i, m, fate)
    <3> DEFINE over == Cardinality(Dead(queue)) - DeadMax
    <3>1. SetJob(i, m, IF over <= 0 THEN Tail("markDead")
                       ELSE [Tail("victims") EXCEPT !.over = over])
      BY <1>1, <2>1 DEF PruneCount
    <3>2. CASE over <= 0
      BY <1>0, <1>2, <1>5, <3>2
    <3>3. CASE ~(over <= 0)
      <4>1. job'[i][m] = [Tail("victims") EXCEPT !.over = over]
        <5> DEFINE j == [Tail("victims") EXCEPT !.over = over]
        <5>1. SetJob(i, m, j)
          BY <3>1, <3>3
        <5> HIDE DEF j
        <5>2. job'[i][m] = j
          BY <5>1, SetJobAt
        <5> QED
          BY <5>2 DEF j
      <4>2. job'[i][m].pc = "victims" /\ job'[i][m].over = over
        <5> HIDE DEF over
        <5> QED
          BY <4>1 DEF Tail
      <4>3. Cardinality(Dead(queue)) <= DeadMax + over
        BY <1>0, <1>2
      <4>4. queue' = queue
        BY <2>1 DEF PruneCount
      <4> QED
        BY <4>2, <4>3, <4>4 DEF Prunes
    <3> QED
      BY <3>2, <3>3
  <2>2. CASE PruneSelect(i, m, fate)
    <3> DEFINE victims == Oldest(Dead(queue), job[i][m].over)
    <3>1. SetJob(i, m, IF victims = {} THEN Tail("markDead")
                       ELSE [Tail("delete") EXCEPT !.victims = victims])
      BY <1>1, <2>2 DEF PruneSelect
    <3>2. queue' = queue /\ job[i][m].pc = "victims"
      BY <2>2 DEF PruneSelect
    <3>3. Cardinality(Dead(queue)) <= DeadMax + job[i][m].over
      BY <1>7, <3>2 DEF Prunes
    <3>4. Cardinality(Dead(queue) \ victims) <= DeadMax
      <4>1. job[i][m].over \in Nat
        BY <1>0 DEF Job
      <4> QED
        BY <1>0, <1>2, <3>3, <4>1, OldestCut
    <3> HIDE DEF victims
    <3>5. CASE victims = {}
      <4>1. Dead(queue) \ victims = Dead(queue)
        BY <3>5
      <4> QED
        BY <3>2, <3>4, <4>1
    <3>6. CASE victims # {}
      <4> DEFINE j == [Tail("delete") EXCEPT !.victims = victims]
      <4>1. SetJob(i, m, j)
        BY <3>1, <3>6
      <4>2. j.pc = "delete" /\ j.victims = victims
        BY DEF Tail
      <4> HIDE DEF j
      <4>3. job'[i][m] = j
        BY <4>1, SetJobAt
      <4> QED
        BY <3>2, <3>4, <4>2, <4>3 DEF Prunes
    <3> QED
      BY <3>5, <3>6
  <2>3. CASE PruneDelete(i, m, fate)
    <3> DEFINE victims == job[i][m].victims
    <3>1. /\ job[i][m].pc = "delete" /\ victims \in SUBSET Msg
          /\ Cardinality(Dead(queue) \ victims) <= DeadMax
      BY <1>0, <1>7, <2>3 DEF PruneDelete, Prunes, Job
    <3>2. PICK v \in victims :
            /\ Write(v, Pruned(queue[v]), fate)
            /\ SetJob(i, m, IF victims = {v} THEN Tail("markDead")
                            ELSE [Tail("delete") EXCEPT !.victims = victims \ {v}])
      BY <1>1, <2>3 DEF PruneDelete, Oldest
    <3>3. /\ queue'[v] = Pruned(queue[v])
          /\ \A n \in Msg \ {v} : queue'[n] = queue[n]
      BY <1>1, <3>1, <3>2, WriteAt DEF After
    <3>4. Pruned(queue[v]).status # "dead"
      BY NewFields, <3>1 DEF Pruned
    <3>5. Dead(queue') = Dead(queue) \ {v}
      BY <3>1, <3>3, <3>4 DEF Dead
    <3> HIDE DEF victims
    <3>6. CASE victims = {v}
      BY <3>1, <3>5, <3>6
    <3>7. CASE victims # {v}
      <4> DEFINE j == [Tail("delete") EXCEPT !.victims = victims \ {v}]
      <4>1. SetJob(i, m, j)
        BY <3>2, <3>7
      <4>2. j.pc = "delete" /\ j.victims = victims \ {v}
        BY DEF Tail
      <4> HIDE DEF j
      <4>3. job'[i][m] = j
        BY <4>1, SetJobAt
      <4>4. Dead(queue') \ (victims \ {v}) = Dead(queue) \ victims
        BY <3>2, <3>5
      <4> QED
        BY <3>1, <4>2, <4>3, <4>4 DEF Prunes
    <3> QED
      BY <3>6, <3>7
  <2> QED
    BY <2>1, <2>2, <2>3
<1> QED
  BY <1>0, <1>5, <1>6, <1>7 DEF Capped

\* Everything else: a stop or a failed claim ends the promise, a request only
\* takes rows from the dead ones.
LEMMA CapOther ==
  ASSUME TypeOK, TypeOK', Capped, faults' >= faults,
         \/ \E i \in Inst : NextDue(i) \/ Crash(i)
         \/ \E m \in Msg : LeaseExpires(m) \/ BackoffElapses(m)
         \/ \E i \in Inst, m \in Msg : Request(i, m)
         \/ \E i \in Inst, m \in Msg, fate \in Fate : ClaimFails(i, m, fate)
         \/ Retention
  PROVE  Capped'
<1>0. /\ crashes \in Nat /\ crashes' \in Nat /\ faults \in Nat /\ faults' \in Nat
      /\ \A n \in Msg : queue[n] \in Row
  BY DEF TypeOK
<1>1. ASSUME NEW i \in Inst, NextDue(i) PROVE Capped'
  <2>1. /\ UNCHANGED <<queue, crashes, faults>>
        /\ \A n \in Msg, k \in Inst \ {i} : job'[k][n] = job[k][n]
        /\ \A n \in Msg : job[i][n] = NoJob
    BY <1>1, TouchNextDue
  <2>2. NoJob.pc = "none"
    BY DEF NoJob, Tail
  <2> QED
    BY <2>1, <2>2, CapFrame
<1>2. ASSUME NEW i \in Inst, Crash(i) PROVE Capped'
  <2>1. crashes' = crashes + 1
    BY <1>2, TouchCrash
  <2> QED
    BY <1>0, <2>1 DEF Capped
<1>3. ASSUME NEW m \in Msg, LeaseExpires(m) \/ BackoffElapses(m) PROVE Capped'
  <2>1. /\ UNCHANGED <<job, crashes, faults>>
        /\ \A n \in Msg :
           \/ queue'[n] = queue[n]
           \/ queue'[n] = [queue[n] EXCEPT !.lease = "free"]
           \/ queue'[n] = [queue[n] EXCEPT !.next_attempt = "due"]
    BY <1>3, TouchTime
  <2>2. ASSUME NEW n \in Msg PROVE queue'[n].status = queue[n].status
    <3>1. /\ [queue[n] EXCEPT !.lease = "free"].status = queue[n].status
          /\ [queue[n] EXCEPT !.next_attempt = "due"].status = queue[n].status
      BY <1>0, RowFields
    <3> QED
      BY <2>1, <3>1
  <2>3. \A k \in Inst, n \in Msg : job'[k][n] = job[k][n]
    BY <2>1
  <2> QED
    BY <2>1, <2>2, <2>3, CapFrame
<1>4. ASSUME NEW i \in Inst, NEW m \in Msg, Request(i, m) PROVE Capped'
  <2>1. PICK fate \in Fate : \/ Record(i, m, fate) \/ EnqueueWithID(i, m, fate)
                             \/ RequeueDead(i, m, fate) \/ MarkQueued(i, m, fate)
    BY <1>4 DEF Request
  <2>2. UNCHANGED <<job, crashes>>
    BY <2>1, TouchRequest
  <2>3. \A n \in Msg : queue'[n] \in {queue[n], Inserted(n), Requeued(queue[n])}
    BY <2>1, TouchRequest DEF Quiet, After
  <2>4. \A n \in Msg : Inserted(n).status = "queued"
    BY NewFields
  <2>5. \A n \in Msg : Requeued(queue[n]).status = "queued"
    BY <1>0 DEF Requeued, Row
  <2>6. \A n \in Msg : queue'[n].status = "dead" => queue[n].status = "dead"
    BY <2>3, <2>4, <2>5
  <2> QED
    BY <1>0, <2>2, <2>6, CapFrame
<1>5. ASSUME NEW i \in Inst, NEW m \in Msg, NEW fate \in Fate, ClaimFails(i, m, fate)
      PROVE  Capped'
  <2>1. faults' = faults + 1
    BY <1>5, TouchClaimFails
  <2> QED
    BY <1>0, <2>1 DEF Capped
<1>6. CASE Retention
  <2>1. UNCHANGED <<queue, job, crashes>>
    BY <1>6, TouchRetention
  <2> QED
    BY <1>0, <2>1, CapFrame
<1> QED
  BY <1>1, <1>2, <1>3, <1>4, <1>5, <1>6

\* No step leaves more dead rows than goroutines still have to prune.
LEMMA CappedNext == TypeOK /\ TypeOK' /\ Capped /\ [Next]_vars => Capped'
<1> SUFFICES ASSUME TypeOK, TypeOK', Capped, [Next]_vars PROVE Capped'
  OBVIOUS
<1>1. CASE UNCHANGED vars
  BY <1>1 DEF vars, Capped, Prunes, Dead
<1>2. ASSUME NEW i \in Inst, NEW m \in Msg, JobStep(i, m), faults' >= faults
      PROVE  Capped'
  <2>1. CASE Claim(i, m) \/ GroupAnswered(i, m) \/ GroupFailed(i, m)
    BY <1>2, <2>1, CapDeliver DEF Fate
  <2>2. ASSUME NEW fate \in Fate, ClaimFails(i, m, fate) PROVE Capped'
    BY <1>2, <2>2, CapOther
  <2>3. ASSUME NEW fate \in Fate,
               PruneCount(i, m, fate) \/ PruneSelect(i, m, fate) \/ PruneDelete(i, m, fate)
        PROVE  Capped'
    <3>1. crashes' = crashes
      BY <2>3 DEF PruneCount, PruneSelect, PruneDelete
    <3> QED
      BY <1>2, <2>3, <3>1, CapPrune
  <2>4. ASSUME NEW fate \in Fate,
               \/ Start(i, m, fate) \/ PersistProgress(i, m, fate)
               \/ GiveUp(i, m, fate) \/ Postpone(i, m, fate)
               \/ Release(i, m, fate) \/ RejectAll(i, m, fate)
               \/ Succeed(i, m, fate) \/ MarkDead(i, m, fate)
               \/ MarkDelivered(i, m, fate)
        PROVE  Capped'
    BY <1>2, <2>4, CapDeliver
  <2> QED
    BY <1>2, <2>1, <2>2, <2>3, <2>4 DEF JobStep
<1>3. CASE Next
  BY <1>2, <1>3, Counting, CapOther DEF Next, Deliverer
<1> QED
  BY <1>1, <1>3

\* At first there are none.
LEMMA CappedInit == Init => Capped
<1> SUFFICES ASSUME Init PROVE Capped
  OBVIOUS
<1>1. Dead(queue) = {}
  BY DEF Init, Dead, NoRow
<1> QED
  BY <1>1, FS_EmptySet, RelayAssumption DEF Capped

\* Once nothing is in progress and nothing has failed, there are at most
\* dead_max dead rows, although concurrent pruneDeads count, select and delete
\* in separate statements.
THEOREM DeadRowsCapped == Spec => []DeadCapped
<1>1. Capped => DeadCapped
  <2> SUFFICES ASSUME Capped, DeadMax > 0, crashes = 0, faults = 0,
                      \A i \in Inst : Idle(i)
               PROVE  Cardinality(Dead(queue)) <= DeadMax
    BY DEF DeadCapped
  <2>1. \A k \in Inst, n \in Msg : job[k][n].pc = "none"
    BY DEF Idle, NoJob, Tail
  <2> QED
    BY <2>1 DEF Capped, Prunes
<1>2. Spec => []Capped
  BY CappedInit, TypeInit, TypeNext, CappedNext, PTL DEF Spec
<1> QED
  BY <1>1, <1>2, PTL
=============================================================================
