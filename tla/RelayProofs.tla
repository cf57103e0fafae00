---------------------------- MODULE RelayProofs ----------------------------
(***************************************************************************)
(* Relay, for every number of instances, messages, recipients and domains, *)
(* every concurrency, cap and attempt limit, and any number of stops and   *)
(* failed statements: its variables keep their types, no recipient is      *)
(* dropped silently, and it implements MailQueue.                          *)
(***************************************************************************)
EXTENDS Relay, FiniteSetTheorems, TLAPS

----------------------------------------------------------------------------
(* The statements of Storage keep a row a row.                             *)

\* What each statement of queue.go writes is a row of the table.
LEMMA RowStatements ==
  ASSUME NEW row \in Row, NEW to \in SUBSET Rcpt, NEW perm \in SUBSET Rcpt,
         NEW n \in Nat, NEW next \in {"due", "later"}, NEW err \in LastError
  PROVE  /\ Claimed(row) \in Row
         /\ Persisted(row, to, perm, n, next, err) \in Row
         /\ Succeeded(row) \in Row
         /\ Released(row) \in Row
         /\ Buried(row, err) \in Row
         /\ Requeued(row) \in Row
         /\ Pruned(row) \in Row
<1>1. \A s \in Status : NoRow(s) \in Row
  BY DEF NoRow, Row, Status, LastError
<1>2. "done" \in Status /\ "pruned" \in Status
  BY DEF Status
<1>3. Claimed(row) \in Row
  BY DEF Claimed, Row
<1>4. Persisted(row, to, perm, n, next, err) \in Row
  BY DEF Persisted, Row
<1>5. Succeeded(row) \in Row /\ Pruned(row) \in Row
  BY <1>1, <1>2 DEF Succeeded, Pruned
<1>6. Released(row) \in Row
  BY DEF Released, Row
<1>7. Buried(row, err) \in Row
  BY DEF Buried, Row, Status
<1>8. Requeued(row) \in Row
  BY DEF Requeued, Row, Status, LastError
<1> QED
  BY <1>3, <1>4, <1>5, <1>6, <1>7, <1>8

\* EnqueueWithID inserts a row.
LEMMA InsertedRow ==
  ASSUME NEW m \in Msg
  PROVE  Inserted(m) \in Row
<1>1. Envelope[m] \in SUBSET Rcpt
  BY StorageAssumption
<1> QED
  BY <1>1 DEF Inserted, NoRow, Row, Status, LastError

\* What a goroutine keeps for its last statements is a job.
LEMMA TailJob ==
  ASSUME NEW pc \in PC
  PROVE  Tail(pc) \in Job
BY DEF Tail, Job, LastError

\* So is having nothing to do.
LEMMA NoJobJob == NoJob \in Job
BY TailJob DEF NoJob, PC

\* The dead rows can be counted.
LEMMA DeadFinite == Cardinality(Dead(queue)) \in Nat
<1>1. IsFiniteSet(Msg)
  BY FS_Interval, StorageAssumption DEF Msg
<1>2. Dead(queue) \subseteq Msg
  BY DEF Dead
<1> QED
  BY <1>1, <1>2, FS_Subset, FS_CardinalityType

----------------------------------------------------------------------------
(* What the shared pieces of the actions write has its type.               *)

\* A statement writes a row.
LEMMA WriteType ==
  ASSUME TypeOK, NEW m \in Msg, NEW row \in Row, NEW fate, Write(m, row, fate)
  PROVE  queue' \in [Msg -> Row]
BY DEF TypeOK, Write

\* A step of a goroutine leaves jobs.
LEMMA SetJobType ==
  ASSUME TypeOK, NEW i \in Inst, NEW m \in Msg, NEW j \in Job, SetJob(i, m, j)
  PROVE  job' \in [Inst -> [Msg -> Job]]
BY DEF TypeOK, SetJob

\* So does a move to another place.
LEMMA GotoType ==
  ASSUME TypeOK, NEW i \in Inst, NEW m \in Msg, NEW pc \in PC, Goto(i, m, pc)
  PROVE  job' \in [Inst -> [Msg -> Job]]
<1>1. job[i][m] \in Job
  BY DEF TypeOK
<1>2. [job[i][m] EXCEPT !.pc = pc] \in Job
  BY <1>1 DEF Job
<1> QED
  BY <1>2, SetJobType DEF Goto

\* The failing statements stay within their bound.
LEMMA StatementType ==
  ASSUME TypeOK, NEW fate, Statement(fate)
  PROVE  faults' \in 0..MaxFaults
BY RelayAssumption DEF TypeOK, Statement

\* Only recipients are exposed to a duplicate.
LEMMA ExposeType ==
  ASSUME TypeOK, NEW m \in Msg, NEW fate, Expose(m, fate)
  PROVE  exposed' \in [Msg -> SUBSET Rcpt]
BY DEF TypeOK, Expose, Forgotten

\* Only recipients are accepted.
LEMMA AcceptType ==
  ASSUME TypeOK, NEW m \in Msg, NEW R \in SUBSET Rcpt, Accept(m, R)
  PROVE  accepted' \in [Msg -> SUBSET Rcpt] /\ dup' \in [Msg -> SUBSET Rcpt]
BY DEF TypeOK, Accept

HistType == [Msg -> [status : EntryStatus, attempts : Nat]]

\* A status update leaves entries in the history.
LEMMA HistStatusType ==
  ASSUME TypeOK, NEW m \in Msg, NEW s \in {"queued", "delivered", "dead"},
         NEW fate, HistStatus(m, s, fate)
  PROVE  hist' \in HistType
BY DEF TypeOK, HistStatus, HistType, EntryStatus

----------------------------------------------------------------------------
(* Type correctness, action by action.                                     *)

\* The initial types.
LEMMA TypeInit == Init => TypeOK
<1> SUFFICES ASSUME Init PROVE TypeOK
  OBVIOUS
<1>1. queue \in [Msg -> Row]
  BY DEF Init, NoRow, Row, Status, LastError
<1>2. job \in [Inst -> [Msg -> Job]]
  BY NoJobJob DEF Init
<1>3. hist \in HistType
  BY DEF Init, HistType, NoEntry, EntryStatus
<1>4. crashes \in 0..MaxCrashes /\ faults \in 0..MaxFaults
      /\ requeues \in 0..MaxRequeues
  BY RelayAssumption DEF Init
<1> QED
  BY <1>1, <1>2, <1>3, <1>4 DEF TypeOK, Init, HistType

\* The submission and retry requests.
LEMMA TypeRequest ==
  ASSUME TypeOK, NEW i \in Inst, NEW m \in Msg, Request(i, m)
  PROVE  TypeOK'
<1>1. PICK fate \in Fate : \/ Record(i, m, fate)
                          \/ EnqueueWithID(i, m, fate)
                          \/ RequeueDead(i, m, fate)
                          \/ MarkQueued(i, m, fate)
  BY DEF Request
<1>2. CASE Record(i, m, fate)
  <2>1. hist' \in HistType
    BY <1>2 DEF Record, TypeOK, HistType, EntryStatus
  <2> QED
    BY <1>2, <2>1, StatementType DEF Record, TypeOK, outside, HistType
<1>3. CASE EnqueueWithID(i, m, fate)
  <2>1. hist' \in HistType
    BY <1>3 DEF EnqueueWithID, TypeOK, HistType, NoEntry, EntryStatus
  <2>2. queue' \in [Msg -> Row]
    BY <1>3, WriteType, InsertedRow DEF EnqueueWithID
  <2> QED
    BY <1>3, <2>1, <2>2, StatementType DEF EnqueueWithID, TypeOK, outside, HistType
<1>4. CASE RequeueDead(i, m, fate)
  <2>1. queue[m] \in Row
    BY DEF TypeOK
  <2>2. Requeued(queue[m]) \in Row
    BY <2>1 DEF Requeued, Row, Status, LastError
  <2>3. queue' \in [Msg -> Row]
    BY <1>4, <2>2, WriteType DEF RequeueDead
  <2>4. requeues' \in 0..MaxRequeues
    BY <1>4, RelayAssumption DEF RequeueDead, TypeOK
  <2> QED
    BY <1>4, <2>3, <2>4, StatementType DEF RequeueDead, TypeOK, outside
<1>5. CASE MarkQueued(i, m, fate)
  <2>1. hist' \in HistType
    BY <1>5 DEF MarkQueued, TypeOK, HistType, EntryStatus
  <2> QED
    BY <1>5, <2>1, StatementType DEF MarkQueued, TypeOK, outside, HistType
<1> QED
  BY <1>1, <1>2, <1>3, <1>4, <1>5

\* What follows deadLetter's UPDATE is a job.
LEMMA AfterBuryType ==
  ASSUME NEW fate
  PROVE  AfterBury(fate) \in Job
BY NoJobJob, TailJob DEF AfterBury, PC

\* The rows that deliver's statements write.
LEMMA DeliverRows ==
  ASSUME TypeOK, NEW i \in Inst, NEW m \in Msg
  PROVE  /\ Claimed(queue[m]) \in Row
         /\ Persisted(queue[m], job[i][m].to, job[i][m].permanent,
                      job[i][m].attempts, "due", job[i][m].last_error) \in Row
         /\ Persisted(queue[m], job[i][m].to, job[i][m].permanent,
                      job[i][m].attempts + 1, "later", "transient") \in Row
         /\ Succeeded(queue[m]) \in Row
         /\ Released(queue[m]) \in Row
         /\ Buried(queue[m], "exhausted") \in Row
         /\ Buried(queue[m], "rejected") \in Row
         /\ queue[m] \in Row
<1>1. queue[m] \in Row /\ job[i][m] \in Job
  BY DEF TypeOK
<1>2. /\ job[i][m].to \in SUBSET Rcpt /\ job[i][m].permanent \in SUBSET Rcpt
      /\ job[i][m].attempts \in Nat /\ job[i][m].attempts + 1 \in Nat
      /\ job[i][m].last_error \in LastError
  BY <1>1 DEF Job
<1>3. {"transient", "exhausted", "rejected"} \subseteq LastError
  BY DEF LastError
<1> QED
  BY <1>1, <1>2, <1>3, RowStatements

\* The actions of NextDue and of the semaphore.
LEMMA TypeClaim ==
  ASSUME TypeOK, NEW i \in Inst, NEW m \in Msg, NEW fate \in Fate,
         \/ Claim(i, m) \/ ClaimFails(i, m, fate) \/ Start(i, m, fate)
  PROVE  TypeOK'
<1>1. CASE Claim(i, m)
  <2>1. queue' \in [Msg -> Row]
    BY <1>1, DeliverRows DEF Claim, TypeOK
  <2>2. job' \in [Inst -> [Msg -> Job]]
    <3>1. CASE Claimable(queue[m])
      BY <1>1, <3>1, GotoType DEF Claim, PC
    <3>2. CASE ~Claimable(queue[m])
      BY <1>1, <3>2, SetJobType, NoJobJob DEF Claim
    <3> QED
      BY <3>1, <3>2
  <2> QED
    BY <1>1, <2>1, <2>2 DEF Claim, TypeOK, web, outside
<1>2. CASE ClaimFails(i, m, fate)
  <2>1. queue' \in [Msg -> Row]
    BY <1>2, DeliverRows, WriteType DEF ClaimFails
  <2>2. job' \in [Inst -> [Msg -> Job]]
    BY <1>2, NoJobJob DEF ClaimFails, TypeOK
  <2> QED
    BY <1>2, <2>1, <2>2, StatementType DEF ClaimFails, TypeOK, web, outside
<1>3. CASE Start(i, m, fate)
  <2>1. hist' \in HistType
    <3>1. hist[m] \in [status : EntryStatus, attempts : Nat]
      BY DEF TypeOK
    <3>2. [hist[m] EXCEPT !.attempts = @ + 1] \in [status : EntryStatus, attempts : Nat]
      BY <3>1
    <3> QED
      BY <1>3, <3>2 DEF Start, TypeOK, HistType
  <2>2. job' \in [Inst -> [Msg -> Job]]
    BY <1>3, GotoType DEF Start, PC
  <2> QED
    BY <1>3, <2>1, <2>2, StatementType DEF Start, TypeOK, outside, HistType
<1> QED
  BY <1>1, <1>2, <1>3

\* The conversation with an MX.
LEMMA TypeGroup ==
  ASSUME TypeOK, NEW i \in Inst, NEW m \in Msg,
         GroupAnswered(i, m) \/ GroupFailed(i, m)
  PROVE  TypeOK'
<1>0. job[i][m] \in Job
  BY DEF TypeOK
<1>1. CASE GroupAnswered(i, m)
  <2> DEFINE j == job[i][m]
  <2>1. PICK G \in Groups(j.to), D \in SUBSET Rcpt :
          /\ Accept(m, D)
          /\ rejected' = [rejected EXCEPT ![m] = @ \cup (G \ D)]
          /\ SetJob(i, m, [j EXCEPT
               !.pc = IF j.to \ G = {} THEN "resolve" ELSE "persist",
               !.to = j.to \ G,
               !.permanent = @ \cup (G \ D),
               !.outcome = @ \cup (IF D = {} THEN {} ELSE {"delivered"})
                             \cup (IF D = G THEN {} ELSE {"refused"})])
    BY <1>1 DEF GroupAnswered
  <2>2. G \in SUBSET Rcpt
    BY <1>0 DEF Groups, Job
  <2>3. job' \in [Inst -> [Msg -> Job]]
    <3>1. [j EXCEPT
               !.pc = IF j.to \ G = {} THEN "resolve" ELSE "persist",
               !.to = j.to \ G,
               !.permanent = @ \cup (G \ D),
               !.outcome = @ \cup (IF D = {} THEN {} ELSE {"delivered"})
                             \cup (IF D = G THEN {} ELSE {"refused"})] \in Job
      BY <1>0, <2>2 DEF Job, PC
    <3> QED
      BY <2>1, <3>1, SetJobType
  <2>4. rejected' \in [Msg -> SUBSET Rcpt]
    BY <2>1, <2>2 DEF TypeOK
  <2> QED
    BY <1>1, <2>1, <2>3, <2>4, AcceptType DEF GroupAnswered, TypeOK, web
<1>2. CASE GroupFailed(i, m)
  <2>1. PICK A \in SUBSET Rcpt :
          Accept(m, A) /\ exposed' = [exposed EXCEPT ![m] = @ \cup A]
    BY <1>2 DEF GroupFailed
  <2>2. job' \in [Inst -> [Msg -> Job]]
    BY <1>2, GotoType DEF GroupFailed, PC
  <2>3. exposed' \in [Msg -> SUBSET Rcpt]
    BY <2>1 DEF TypeOK
  <2> QED
    BY <1>2, <2>1, <2>2, <2>3, AcceptType DEF GroupFailed, TypeOK, web
<1> QED
  BY <1>1, <1>2

\* The statements that end an attempt.
LEMMA TypeEnd ==
  ASSUME TypeOK, NEW i \in Inst, NEW m \in Msg, NEW fate \in Fate,
         \/ PersistProgress(i, m, fate) \/ GiveUp(i, m, fate)
         \/ Postpone(i, m, fate) \/ Release(i, m, fate)
         \/ RejectAll(i, m, fate) \/ Succeed(i, m, fate)
  PROVE  TypeOK'
<1>1. CASE PersistProgress(i, m, fate)
  <2>1. queue' \in [Msg -> Row]
    BY <1>1, DeliverRows, WriteType DEF PersistProgress
  <2>2. job' \in [Inst -> [Msg -> Job]]
    BY <1>1, GotoType DEF PersistProgress, PC
  <2> QED
    BY <1>1, <2>1, <2>2, StatementType, ExposeType
    DEF PersistProgress, TypeOK, web
<1>2. CASE GiveUp(i, m, fate)
  <2>1. queue' \in [Msg -> Row]
    BY <1>2, DeliverRows, WriteType DEF GiveUp
  <2>2. job' \in [Inst -> [Msg -> Job]]
    BY <1>2, SetJobType, AfterBuryType DEF GiveUp
  <2> QED
    BY <1>2, <2>1, <2>2, StatementType, ExposeType DEF GiveUp, TypeOK, web
<1>3. CASE Postpone(i, m, fate)
  <2>1. queue' \in [Msg -> Row]
    BY <1>3, DeliverRows, WriteType DEF Postpone
  <2>2. job' \in [Inst -> [Msg -> Job]]
    BY <1>3, SetJobType, TailJob DEF Postpone, PC
  <2> QED
    BY <1>3, <2>1, <2>2, StatementType, ExposeType DEF Postpone, TypeOK, web
<1>4. CASE Release(i, m, fate)
  <2>1. queue' \in [Msg -> Row]
    BY <1>4, DeliverRows, WriteType DEF Release
  <2>2. job' \in [Inst -> [Msg -> Job]]
    BY <1>4, SetJobType, NoJobJob DEF Release
  <2> QED
    BY <1>4, <2>1, <2>2, StatementType DEF Release, TypeOK, web, outside
<1>5. CASE RejectAll(i, m, fate)
  <2>1. queue' \in [Msg -> Row]
    BY <1>5, DeliverRows, WriteType DEF RejectAll
  <2>2. job' \in [Inst -> [Msg -> Job]]
    BY <1>5, SetJobType, AfterBuryType DEF RejectAll
  <2> QED
    BY <1>5, <2>1, <2>2, StatementType, ExposeType DEF RejectAll, TypeOK, web
<1>6. CASE Succeed(i, m, fate)
  <2>1. queue' \in [Msg -> Row]
    BY <1>6, DeliverRows, WriteType DEF Succeed
  <2>2. job' \in [Inst -> [Msg -> Job]]
    <3>1. (IF fate = "ok" THEN Tail("markDelivered") ELSE NoJob) \in Job
      BY TailJob, NoJobJob DEF PC
    <3> QED
      BY <1>6, <3>1, SetJobType DEF Succeed
  <2> QED
    BY <1>6, <2>1, <2>2, StatementType, ExposeType DEF Succeed, TypeOK, web
<1> QED
  BY <1>1, <1>2, <1>3, <1>4, <1>5, <1>6

\* pruneDead and the last update of the history.
LEMMA TypePrune ==
  ASSUME TypeOK, NEW i \in Inst, NEW m \in Msg, NEW fate \in Fate,
         \/ PruneCount(i, m, fate) \/ PruneSelect(i, m, fate)
         \/ PruneDelete(i, m, fate) \/ MarkDead(i, m, fate)
         \/ MarkDelivered(i, m, fate)
  PROVE  TypeOK'
<1>0. job[i][m] \in Job
  BY DEF TypeOK
<1>1. CASE PruneCount(i, m, fate)
  <2> DEFINE over == Cardinality(Dead(queue)) - DeadMax
             j == IF fate # "ok" THEN NoJob
                  ELSE IF over <= 0 THEN Tail("markDead")
                  ELSE [Tail("victims") EXCEPT !.over = over]
  <2>1. over \in Int
    BY DeadFinite, RelayAssumption
  <2>2. ~(over <= 0) => [Tail("victims") EXCEPT !.over = over] \in Job
    <3> HIDE DEF over
    <3> QED
      BY <2>1, TailJob DEF Job, PC
  <2>3. j \in Job
    BY <2>2, TailJob, NoJobJob DEF PC
  <2>4. SetJob(i, m, j)
    BY <1>1 DEF PruneCount
  <2>5. job' \in [Inst -> [Msg -> Job]]
    <3> HIDE DEF j
    <3> QED
      BY <2>3, <2>4, SetJobType
  <2> QED
    BY <1>1, <2>5, StatementType DEF PruneCount, TypeOK, web, outside
<1>2. CASE PruneSelect(i, m, fate)
  <2> DEFINE victims == Oldest(Dead(queue), job[i][m].over)
             j == IF fate # "ok" THEN NoJob
                  ELSE IF victims = {} THEN Tail("markDead")
                  ELSE [Tail("delete") EXCEPT !.victims = victims]
  <2>1. victims \in SUBSET Msg
    BY DEF Oldest, Dead
  <2>2. [Tail("delete") EXCEPT !.victims = victims] \in Job
    <3> HIDE DEF victims
    <3> QED
      BY <2>1, TailJob DEF Job, PC
  <2>3. j \in Job
    BY <2>2, TailJob, NoJobJob DEF PC
  <2>4. SetJob(i, m, j)
    BY <1>2 DEF PruneSelect
  <2>5. job' \in [Inst -> [Msg -> Job]]
    <3> HIDE DEF j
    <3> QED
      BY <2>3, <2>4, SetJobType
  <2> QED
    BY <1>2, <2>5, StatementType DEF PruneSelect, TypeOK, web, outside
<1>3. CASE PruneDelete(i, m, fate)
  <2> DEFINE victims == job[i][m].victims
             j(v) == IF fate # "ok" THEN NoJob
                     ELSE IF victims = {v} THEN Tail("markDead")
                     ELSE [Tail("delete") EXCEPT !.victims = victims \ {v}]
  <2>1. victims \in SUBSET Msg
    BY <1>0 DEF Job
  <2>2. PICK v \in Msg : Write(v, Pruned(queue[v]), fate) /\ SetJob(i, m, j(v))
    BY <1>3, <2>1 DEF PruneDelete, Oldest
  <2>3. [Tail("delete") EXCEPT !.victims = victims \ {v}] \in Job
    <3> HIDE DEF victims
    <3> QED
      BY <2>1, TailJob DEF Job, PC
  <2>4. j(v) \in Job
    BY <2>3, TailJob, NoJobJob DEF PC
  <2>5. job' \in [Inst -> [Msg -> Job]]
    <3> HIDE DEF j
    <3> QED
      BY <2>2, <2>4, SetJobType
  <2>6. queue' \in [Msg -> Row]
    <3>1. queue[v] \in Row
      BY DEF TypeOK
    <3>2. Pruned(queue[v]) \in Row
      BY <3>1 DEF Pruned, NoRow, Row, Status, LastError
    <3> QED
      BY <2>2, <3>2, WriteType
  <2> QED
    BY <1>3, <2>5, <2>6, StatementType DEF PruneDelete, TypeOK, web, outside
<1>4. CASE MarkDead(i, m, fate)
  <2>1. job' \in [Inst -> [Msg -> Job]]
    BY <1>4, SetJobType, NoJobJob DEF MarkDead
  <2> QED
    BY <1>4, <2>1, StatementType, HistStatusType
    DEF MarkDead, TypeOK, outside, HistType
<1>5. CASE MarkDelivered(i, m, fate)
  <2>1. job' \in [Inst -> [Msg -> Job]]
    BY <1>5, SetJobType, NoJobJob DEF MarkDelivered
  <2> QED
    BY <1>5, <2>1, StatementType, HistStatusType
    DEF MarkDelivered, TypeOK, outside, HistType
<1> QED
  BY <1>1, <1>2, <1>3, <1>4, <1>5

\* Polls, stops, the passing of time and the retention of the history.
LEMMA TypeOther ==
  ASSUME TypeOK,
         \/ \E i \in Inst : NextDue(i) \/ Crash(i)
         \/ \E m \in Msg : LeaseExpires(m) \/ BackoffElapses(m)
         \/ Retention
  PROVE  TypeOK'
<1>1. ASSUME NEW i \in Inst, NextDue(i) PROVE TypeOK'
  <2>1. \A m \in Msg : Scanned(queue[m]) \in Job
    <3> SUFFICES ASSUME NEW m \in Msg PROVE Scanned(queue[m]) \in Job
      OBVIOUS
    <3>1. queue[m] \in Row
      BY DEF TypeOK
    <3> QED
      BY <3>1, TailJob DEF Scanned, Row, Job, PC
  <2>2. job' \in [Inst -> [Msg -> Job]]
    BY <1>1, <2>1, NoJobJob DEF NextDue, TypeOK
  <2> QED
    BY <1>1, <2>2 DEF NextDue, TypeOK, web, outside
<1>2. ASSUME NEW i \in Inst, Crash(i) PROVE TypeOK'
  <2>1. job' \in [Inst -> [Msg -> Job]]
    BY <1>2, NoJobJob DEF Crash, TypeOK
  <2>2. exposed' \in [Msg -> SUBSET Rcpt]
    BY <1>2 DEF Crash, TypeOK, Forgotten
  <2>3. crashes' \in 0..MaxCrashes
    BY <1>2, RelayAssumption DEF Crash, TypeOK
  <2> QED
    BY <1>2, <2>1, <2>2, <2>3 DEF Crash, TypeOK
<1>3. ASSUME NEW m \in Msg, LeaseExpires(m) \/ BackoffElapses(m) PROVE TypeOK'
  <2>1. queue[m] \in Row
    BY DEF TypeOK
  <2>2. /\ [queue[m] EXCEPT !.lease = "free"] \in Row
        /\ [queue[m] EXCEPT !.next_attempt = "due"] \in Row
    BY <2>1 DEF Row
  <2>3. queue' \in [Msg -> Row]
    BY <1>3, <2>2 DEF LeaseExpires, BackoffElapses, TypeOK
  <2> QED
    BY <1>3, <2>3 DEF LeaseExpires, BackoffElapses, TypeOK, web, outside
<1>4. ASSUME NEW A, NEW fate \in Fate, PruneSendLogs(A, fate) PROVE TypeOK'
  <2>1. hist' \in HistType
    BY <1>4 DEF PruneSendLogs, TypeOK, HistType, PrunedEntry, EntryStatus
  <2> QED
    BY <1>4, <2>1, StatementType DEF PruneSendLogs, TypeOK, outside, HistType
<1> QED
  BY <1>1, <1>2, <1>3, <1>4 DEF Retention

\* Every step keeps the types.
LEMMA TypeNext == TypeOK /\ [Next]_vars => TypeOK'
<1> SUFFICES ASSUME TypeOK, [Next]_vars PROVE TypeOK'
  OBVIOUS
<1>1. CASE UNCHANGED vars
  BY <1>1 DEF vars, web, outside, TypeOK
<1>2. ASSUME NEW i \in Inst, NEW m \in Msg, JobStep(i, m) PROVE TypeOK'
  BY <1>2, TypeClaim, TypeGroup, TypeEnd, TypePrune DEF JobStep, Fate
<1> QED
  BY <1>1, <1>2, TypeRequest, TypeOther DEF Next, Deliverer

\* Every variable of the relay keeps its type: no column, local variable or
\* counter leaves its range, whatever the interleaving.
THEOREM TypeCorrect == Spec => []TypeOK
BY TypeInit, TypeNext, PTL DEF Spec

----------------------------------------------------------------------------
(***************************************************************************)
(* No recipient is dropped.  A row, or a goroutine's copy of it, is good   *)
(* for a set S of settled recipients when whoever it no longer asks for is *)
(* in S.  The statements keep rows good, S only grows, and a copy may      *)
(* therefore overwrite a newer row without losing anybody: it can only     *)
(* ask again for somebody already settled.                                 *)
(***************************************************************************)
GoodRow(row, n, S) ==
  /\ Present(row) => Envelope[n] \ row.to \subseteq S
  /\ row.status = "done" => Envelope[n] \subseteq S
  /\ row.to \subseteq Envelope[n]

GoodCopy(j, n, S) ==
  /\ j.pc \in Working => Envelope[n] \ j.to \subseteq S
  /\ j.pc = "resolve" => j.to = {}
  /\ j.to \subseteq Envelope[n]

\* The statements that do not touch the recipients keep a row good.
LEMMA GoodStatements ==
  ASSUME NEW row \in Row, NEW n \in Msg, NEW S, GoodRow(row, n, S),
         NEW err \in LastError
  PROVE  /\ GoodRow(Claimed(row), n, S)
         /\ GoodRow(Released(row), n, S)
         /\ GoodRow(Buried(row, err), n, S)
         /\ GoodRow(Pruned(row), n, S)
         /\ row.status = "dead" => GoodRow(Requeued(row), n, S)
         /\ GoodRow([row EXCEPT !.lease = "free"], n, S)
         /\ GoodRow([row EXCEPT !.next_attempt = "due"], n, S)
<1>1. GoodRow(Claimed(row), n, S)
  BY DEF GoodRow, Claimed, Row, Present
<1>2. GoodRow(Released(row), n, S)
  BY DEF GoodRow, Released, Row, Present
<1>3. GoodRow(Buried(row, err), n, S)
  BY DEF GoodRow, Buried, Row, Present
<1>4. GoodRow(Pruned(row), n, S)
  BY DEF GoodRow, Pruned, NoRow, Row, Present
<1>5. row.status = "dead" => GoodRow(Requeued(row), n, S)
  BY DEF GoodRow, Requeued, Row, Present
<1>6. /\ GoodRow([row EXCEPT !.lease = "free"], n, S)
      /\ GoodRow([row EXCEPT !.next_attempt = "due"], n, S)
  BY DEF GoodRow, Row, Present
<1> QED
  BY <1>1, <1>2, <1>3, <1>4, <1>5, <1>6

\* Persist and Succeed, from a good copy.
LEMMA GoodPersist ==
  ASSUME NEW row \in Row, NEW n \in Msg, NEW S, GoodRow(row, n, S),
         NEW j \in Job, GoodCopy(j, n, S), j.pc \in Working,
         NEW k, NEW next, NEW err
  PROVE  /\ GoodRow(Persisted(row, j.to, j.permanent, k, next, err), n, S)
         /\ j.pc = "resolve" => GoodRow(Succeeded(row), n, S)
<1>1. GoodRow(Persisted(row, j.to, j.permanent, k, next, err), n, S)
  BY DEF GoodRow, GoodCopy, Persisted, Row, Present
<1>2. j.pc = "resolve" => GoodRow(Succeeded(row), n, S)
  <2>1. j.pc = "resolve" => Envelope[n] \subseteq S
    BY DEF GoodCopy
  <2> QED
    BY <2>1 DEF GoodRow, Succeeded, NoRow, Present
<1> QED
  BY <1>1, <1>2

\* No statement but the INSERT creates a row.
LEMMA SameAbsence ==
  ASSUME NEW row \in Row, NEW to, NEW perm, NEW k, NEW next, NEW err
  PROVE  /\ Claimed(row).status = row.status
         /\ Persisted(row, to, perm, k, next, err).status = row.status
         /\ Released(row).status = row.status
         /\ Succeeded(row).status = "none" <=> row.status = "none"
         /\ Buried(row, err).status = "none" <=> row.status = "none"
         /\ Pruned(row).status = "none" <=> row.status = "none"
<1>1. Claimed(row).status = row.status
  BY DEF Claimed, Row
<1>2. Persisted(row, to, perm, k, next, err).status = row.status
  BY DEF Persisted, Row
<1>3. Released(row).status = row.status
  BY DEF Released, Row
<1>4. Succeeded(row).status = "none" <=> row.status = "none"
  BY DEF Succeeded, NoRow, Row
<1>5. Buried(row, err).status = "none" <=> row.status = "none"
  BY DEF Buried, Present, Row
<1>6. Pruned(row).status = "none" <=> row.status = "none"
  BY DEF Pruned, NoRow, Row
<1> QED
  BY <1>1, <1>2, <1>3, <1>4, <1>5, <1>6

\* A goroutine past its delivery has nothing left to get wrong.
LEMMA GoodTail ==
  ASSUME NEW pc \in PC \ Working, NEW n \in Msg, NEW S
  PROVE  GoodCopy(Tail(pc), n, S) /\ Tail(pc).pc \notin Working
BY DEF GoodCopy, Tail, Working

\* What Accounted says of one row and of one copy.
LEMMA AccountedGood ==
  ASSUME Accounted, NEW i \in Inst, NEW m \in Msg
  PROVE  /\ queue[m] \in Row /\ GoodRow(queue[m], m, Settled(m))
         /\ job[i][m] \in Job /\ GoodCopy(job[i][m], m, Settled(m))
         /\ job[i][m].pc \in Working => queue[m].status # "none"
BY DEF Accounted, TypeOK, NoLoss, CopyNoLoss, InEnvelope, GoodRow, GoodCopy

\* A step that creates no row, keeps good what it writes and submits nothing
\* preserves Accounted.
LEMMA LocalStep ==
  ASSUME Accounted, TypeOK',
         \A n \in Msg : Settled(n) \subseteq Settled(n)'
                        /\ Settled(n)' \subseteq Envelope[n],
         \A n \in Msg : \/ queue'[n] = queue[n]
                        \/ /\ GoodRow(queue'[n], n, Settled(n)')
                           /\ queue'[n].status = "none" <=>
                                queue[n].status = "none",
         \A k \in Inst, n \in Msg :
           \/ job'[k][n] = job[k][n]
           \/ /\ GoodCopy(job'[k][n], n, Settled(n)')
              /\ job'[k][n].pc \in Working => queue[n].status # "none",
         \A k \in Inst : submitting'[k] \subseteq submitting[k]
  PROVE  Accounted'
<1>1. ASSUME NEW n \in Msg
      PROVE  /\ GoodRow(queue'[n], n, Settled(n)')
             /\ queue'[n].status = "none" <=> queue[n].status = "none"
  BY <1>1 DEF Accounted, NoLoss, InEnvelope, GoodRow
<1>2. ASSUME NEW k \in Inst, NEW n \in Msg
      PROVE  /\ GoodCopy(job'[k][n], n, Settled(n)')
             /\ job'[k][n].pc \in Working => queue[n].status # "none"
  BY <1>2 DEF Accounted, CopyNoLoss, InEnvelope, GoodCopy
<1>3. NoLoss'
  BY <1>1 DEF NoLoss, GoodRow
<1>4. CopyNoLoss'
  BY <1>2 DEF CopyNoLoss, GoodCopy
<1>5. InEnvelope'
  BY <1>1, <1>2 DEF InEnvelope, GoodRow, GoodCopy
<1>6. Submissions'
  BY <1>1 DEF Accounted, Submissions
<1> QED
  BY <1>3, <1>4, <1>5, <1>6 DEF Accounted

\* The frames that Write, SetJob and an unchanged outside world give LocalStep.
LEMMA WriteFrame ==
  ASSUME Accounted, NEW m \in Msg, NEW row, NEW fate, Write(m, row, fate),
         GoodRow(row, m, Settled(m)'),
         row.status = "none" <=> queue[m].status = "none"
  PROVE  \A n \in Msg : \/ queue'[n] = queue[n]
                        \/ /\ GoodRow(queue'[n], n, Settled(n)')
                           /\ queue'[n].status = "none" <=>
                                queue[n].status = "none"
BY DEF Accounted, TypeOK, Write

\* A step of one goroutine leaves the other copies as good as they were.
LEMMA SetJobFrame ==
  ASSUME Accounted, NEW i \in Inst, NEW m \in Msg, NEW j, SetJob(i, m, j),
         GoodCopy(j, m, Settled(m)'),
         j.pc \in Working => queue[m].status # "none"
  PROVE  \A k \in Inst, n \in Msg :
           \/ job'[k][n] = job[k][n]
           \/ /\ GoodCopy(job'[k][n], n, Settled(n)')
              /\ job'[k][n].pc \in Working => queue[n].status # "none"
<1>1. job'[i][m] = j
  BY DEF Accounted, TypeOK, SetJob
<1>2. \A k \in Inst, n \in Msg : ~(k = i /\ n = m) => job'[k][n] = job[k][n]
  BY DEF Accounted, TypeOK, SetJob
<1> QED
  BY <1>1, <1>2

\* Who is settled stays settled while no MX answers.
LEMMA SettledFrame ==
  ASSUME Accounted, UNCHANGED <<accepted, rejected>>
  PROVE  \A n \in Msg : /\ Settled(n)' = Settled(n)
                        /\ Settled(n) \subseteq Settled(n)'
                        /\ Settled(n)' \subseteq Envelope[n]
BY DEF Accounted, InEnvelope, Settled

\* What follows deadLetter's UPDATE is no delivery.
LEMMA AfterBuryGood ==
  ASSUME NEW fate, NEW n \in Msg, NEW S
  PROVE  GoodCopy(AfterBury(fate), n, S) /\ AfterBury(fate).pc \notin Working
<1>1. {"none", "markDead", "count"} \subseteq PC \ Working
  BY DEF PC, Working
<1> QED
  BY <1>1, GoodTail DEF AfterBury, NoJob

\* Where a good copy goes next without changing its recipients.
LEMMA GoodGoto ==
  ASSUME NEW j \in Job, NEW n \in Msg, NEW S, GoodCopy(j, n, S),
         j.pc \in Working, NEW pc \in {"ready", "group", "retry"}
  PROVE  GoodCopy([j EXCEPT !.pc = pc], n, S)
BY DEF GoodCopy, Job, Working

\* Claiming and starting lose nobody.
LEMMA LossClaim ==
  ASSUME Accounted, TypeOK', NEW i \in Inst, NEW m \in Msg, NEW fate \in Fate,
         \/ Claim(i, m) \/ ClaimFails(i, m, fate) \/ Start(i, m, fate)
  PROVE  Accounted'
<1>0. UNCHANGED <<accepted, rejected, submitting>>
  BY DEF Claim, ClaimFails, Start, web, outside
<1>1. /\ \A n \in Msg : Settled(n)' = Settled(n)
      /\ \A n \in Msg : Settled(n) \subseteq Settled(n)'
                        /\ Settled(n)' \subseteq Envelope[n]
  BY <1>0, SettledFrame
<1>2. /\ queue[m] \in Row /\ GoodRow(queue[m], m, Settled(m)')
      /\ job[i][m] \in Job /\ GoodCopy(job[i][m], m, Settled(m)')
      /\ job[i][m].pc \in Working => queue[m].status # "none"
  BY <1>1, AccountedGood
<1>3. /\ GoodRow(Claimed(queue[m]), m, Settled(m)')
      /\ Claimed(queue[m]).status = queue[m].status
  BY <1>2, GoodStatements, SameAbsence DEF LastError
<1>4. /\ \A n \in Msg : \A S : GoodCopy(NoJob, n, S)
      /\ NoJob.pc \notin Working
  BY GoodTail DEF NoJob, PC, Working
<1>5. CASE Claim(i, m)
  <2>1. CASE Claimable(queue[m])
    <3>1. SetJob(i, m, [job[i][m] EXCEPT !.pc = "ready"])
      BY <1>5, <2>1 DEF Claim, Goto
    <3>2. job[i][m].pc \in Working
      BY <1>5 DEF Claim, FirstCandidate, Working
    <3>3. GoodCopy([job[i][m] EXCEPT !.pc = "ready"], m, Settled(m)')
      BY <1>2, <3>2, GoodGoto
    <3>4. queue[m].status # "none"
      BY <2>1 DEF Claimable
    <3>5. Write(m, Claimed(queue[m]), "ok")
      BY <1>5, <2>1 DEF Claim, Write
    <3> QED
      BY <1>0, <1>1, <1>3, <3>1, <3>3, <3>4, <3>5, WriteFrame, SetJobFrame,
         LocalStep
  <2>2. CASE ~Claimable(queue[m])
    BY <1>0, <1>1, <1>4, <1>5, <2>2, SetJobFrame, LocalStep DEF Claim
  <2> QED
    BY <2>1, <2>2
<1>6. CASE ClaimFails(i, m, fate)
  <2>1. \A k \in Inst, n \in Msg :
          job'[k][n] = job[k][n] \/ job'[k][n] = NoJob
    BY <1>6 DEF ClaimFails, Accounted, TypeOK
  <2>2. Write(m, IF Claimable(queue[m]) THEN Claimed(queue[m]) ELSE queue[m], fate)
    BY <1>6 DEF ClaimFails
  <2>3. \A n \in Msg : \/ queue'[n] = queue[n]
                       \/ /\ GoodRow(queue'[n], n, Settled(n)')
                          /\ queue'[n].status = "none" <=>
                               queue[n].status = "none"
    BY <1>2, <1>3, <2>2, WriteFrame
  <2> QED
    BY <1>0, <1>1, <1>4, <2>1, <2>3, LocalStep
<1>7. CASE Start(i, m, fate)
  <2>1. SetJob(i, m, [job[i][m] EXCEPT !.pc = "group"]) /\ queue' = queue
    BY <1>7 DEF Start, Goto
  <2>2. job[i][m].pc \in Working
    BY <1>7 DEF Start, Working
  <2>3. GoodCopy([job[i][m] EXCEPT !.pc = "group"], m, Settled(m)')
    BY <1>2, <2>2, GoodGoto
  <2> QED
    BY <1>0, <1>1, <1>2, <2>1, <2>2, <2>3, SetJobFrame, LocalStep
<1> QED
  BY <1>5, <1>6, <1>7

\* An answer settles what it removes from the copy; a failed conversation
\* removes nothing.
LEMMA LossGroup ==
  ASSUME Accounted, TypeOK', NEW i \in Inst, NEW m \in Msg,
         GroupAnswered(i, m) \/ GroupFailed(i, m)
  PROVE  Accounted'
<1> DEFINE j == job[i][m]
<1>1. /\ j \in Job /\ GoodCopy(j, m, Settled(m))
      /\ j.pc \in Working /\ queue[m].status # "none"
  BY AccountedGood DEF GroupAnswered, GroupFailed, Working
<1>2. \A n \in Msg : Settled(n) \subseteq Envelope[n]
  BY DEF Accounted, InEnvelope
<1>3. \A G \in Groups(j.to) : G \subseteq Envelope[m]
  BY <1>1 DEF Groups, GoodCopy
<1>4. queue' = queue /\ submitting' = submitting
  BY DEF GroupAnswered, GroupFailed, web
<1>5. /\ accepted \in [Msg -> SUBSET Rcpt] /\ rejected \in [Msg -> SUBSET Rcpt]
  BY DEF Accounted, TypeOK
<1>6. CASE GroupAnswered(i, m)
  <2>1. PICK G \in Groups(j.to), D \in SUBSET Rcpt :
          /\ D \subseteq G
          /\ Accept(m, D)
          /\ rejected' = [rejected EXCEPT ![m] = @ \cup (G \ D)]
          /\ SetJob(i, m, [j EXCEPT
               !.pc = IF j.to \ G = {} THEN "resolve" ELSE "persist",
               !.to = j.to \ G,
               !.permanent = @ \cup (G \ D),
               !.outcome = @ \cup (IF D = {} THEN {} ELSE {"delivered"})
                             \cup (IF D = G THEN {} ELSE {"refused"})])
    BY <1>6 DEF GroupAnswered
  <2>2. /\ \A n \in Msg : n # m => Settled(n)' = Settled(n)
        /\ Settled(m)' = Settled(m) \cup G
    BY <1>5, <2>1 DEF Settled, Accept
  <2>3. \A n \in Msg : Settled(n) \subseteq Settled(n)'
                       /\ Settled(n)' \subseteq Envelope[n]
    BY <1>2, <1>3, <2>2
  <2>4. GoodCopy([j EXCEPT
               !.pc = IF j.to \ G = {} THEN "resolve" ELSE "persist",
               !.to = j.to \ G,
               !.permanent = @ \cup (G \ D),
               !.outcome = @ \cup (IF D = {} THEN {} ELSE {"delivered"})
                             \cup (IF D = G THEN {} ELSE {"refused"})],
               m, Settled(m)')
    BY <1>1, <2>2 DEF GoodCopy, Job
  <2> QED
    BY <1>1, <1>4, <2>1, <2>3, <2>4, SetJobFrame, LocalStep
<1>7. CASE GroupFailed(i, m)
  <2>1. PICK G \in Groups(j.to), A \in SUBSET Rcpt : A \subseteq G /\ Accept(m, A)
    BY <1>7 DEF GroupFailed
  <2>2. rejected' = rejected /\ SetJob(i, m, [j EXCEPT !.pc = "retry"])
    BY <1>7 DEF GroupFailed, Goto
  <2>3. /\ \A n \in Msg : n # m => Settled(n)' = Settled(n)
        /\ Settled(m)' = Settled(m) \cup A
    BY <1>5, <2>1, <2>2 DEF Settled, Accept
  <2>4. \A n \in Msg : Settled(n) \subseteq Settled(n)'
                       /\ Settled(n)' \subseteq Envelope[n]
    BY <1>2, <1>3, <2>1, <2>3
  <2>5. GoodCopy(j, m, Settled(m)')
    BY <1>1, <2>3 DEF GoodCopy
  <2>6. GoodCopy([j EXCEPT !.pc = "retry"], m, Settled(m)')
    BY <1>1, <2>5, GoodGoto
  <2> QED
    BY <1>1, <1>4, <2>2, <2>4, <2>6, SetJobFrame, LocalStep
<1> QED
  BY <1>6, <1>7

\* The statements that end a delivery lose nobody.
LEMMA LossEnd ==
  ASSUME Accounted, TypeOK', NEW i \in Inst, NEW m \in Msg, NEW fate \in Fate,
         \/ PersistProgress(i, m, fate) \/ GiveUp(i, m, fate)
         \/ Postpone(i, m, fate) \/ Release(i, m, fate)
         \/ RejectAll(i, m, fate) \/ Succeed(i, m, fate)
  PROVE  Accounted'
<1> DEFINE j == job[i][m]
<1>0. UNCHANGED <<accepted, rejected, submitting>>
  BY DEF PersistProgress, GiveUp, Postpone, Release, RejectAll, Succeed,
     web, outside
<1>1. /\ \A n \in Msg : Settled(n)' = Settled(n)
      /\ \A n \in Msg : Settled(n) \subseteq Settled(n)'
                        /\ Settled(n)' \subseteq Envelope[n]
  BY <1>0, SettledFrame
<1>2. /\ queue[m] \in Row /\ GoodRow(queue[m], m, Settled(m)')
      /\ j \in Job /\ GoodCopy(j, m, Settled(m)')
      /\ j.pc \in Working => queue[m].status # "none"
  BY <1>1, AccountedGood
<1>3. {"persist", "retry", "resolve"} \subseteq Working
      /\ {"none", "release", "markDelivered"} \subseteq PC \ Working
      /\ {"exhausted", "rejected"} \subseteq LastError
  BY DEF Working, PC, LastError
<1>4. CASE PersistProgress(i, m, fate)
  <2> DEFINE row == Persisted(queue[m], j.to, j.permanent, j.attempts, "due",
                              j.last_error)
  <2>1. Write(m, row, fate) /\ SetJob(i, m, [j EXCEPT !.pc = "group"])
        /\ j.pc \in Working
    BY <1>3, <1>4 DEF PersistProgress, Goto
  <2>2. GoodRow(row, m, Settled(m)') /\ row.status = queue[m].status
    BY <1>2, <2>1, GoodPersist, SameAbsence
  <2>3. GoodCopy([j EXCEPT !.pc = "group"], m, Settled(m)')
    BY <1>2, <2>1, GoodGoto
  <2> HIDE DEF row
  <2> QED
    BY <1>0, <1>1, <1>2, <2>1, <2>2, <2>3, WriteFrame, SetJobFrame, LocalStep
<1>5. CASE GiveUp(i, m, fate)
  <2>1. GoodRow(Buried(queue[m], "exhausted"), m, Settled(m)')
        /\ (Buried(queue[m], "exhausted").status = "none" <=>
              queue[m].status = "none")
    BY <1>2, <1>3, GoodStatements, SameAbsence
  <2> QED
    BY <1>0, <1>1, <1>5, <2>1, AfterBuryGood, WriteFrame, SetJobFrame, LocalStep
    DEF GiveUp
<1>6. CASE Postpone(i, m, fate)
  <2> DEFINE row == Persisted(queue[m], j.to, j.permanent, j.attempts + 1,
                              "later", "transient")
  <2>1. Write(m, row, fate) /\ SetJob(i, m, Tail("release")) /\ j.pc \in Working
    BY <1>3, <1>6 DEF Postpone
  <2>2. GoodRow(row, m, Settled(m)') /\ row.status = queue[m].status
    BY <1>2, <2>1, GoodPersist, SameAbsence
  <2>3. GoodCopy(Tail("release"), m, Settled(m)') /\ Tail("release").pc \notin Working
    BY <1>3, GoodTail
  <2> HIDE DEF row
  <2> QED
    BY <1>0, <1>1, <2>1, <2>2, <2>3, WriteFrame, SetJobFrame, LocalStep
<1>7. CASE Release(i, m, fate)
  <2>1. GoodRow(Released(queue[m]), m, Settled(m)')
        /\ Released(queue[m]).status = queue[m].status
    BY <1>2, <1>3, GoodStatements, SameAbsence
  <2>2. GoodCopy(NoJob, m, Settled(m)') /\ NoJob.pc \notin Working
    BY <1>3, GoodTail DEF NoJob
  <2> QED
    BY <1>0, <1>1, <1>7, <2>1, <2>2, WriteFrame, SetJobFrame, LocalStep
    DEF Release
<1>8. CASE RejectAll(i, m, fate)
  <2>1. GoodRow(Buried(queue[m], "rejected"), m, Settled(m)')
        /\ (Buried(queue[m], "rejected").status = "none" <=>
              queue[m].status = "none")
    BY <1>2, <1>3, GoodStatements, SameAbsence
  <2> QED
    BY <1>0, <1>1, <1>8, <2>1, AfterBuryGood, WriteFrame, SetJobFrame, LocalStep
    DEF RejectAll
<1>9. CASE Succeed(i, m, fate)
  <2> DEFINE k == IF fate = "ok" THEN Tail("markDelivered") ELSE NoJob
  <2>1. Write(m, Succeeded(queue[m]), fate) /\ SetJob(i, m, k) /\ j.pc = "resolve"
    BY <1>9 DEF Succeed
  <2>2. GoodRow(Succeeded(queue[m]), m, Settled(m)')
        /\ (Succeeded(queue[m]).status = "none" <=> queue[m].status = "none")
    BY <1>2, <1>3, <2>1, GoodPersist, SameAbsence
  <2>3. GoodCopy(k, m, Settled(m)') /\ k.pc \notin Working
    BY <1>3, GoodTail DEF NoJob
  <2> HIDE DEF k
  <2> QED
    BY <1>0, <1>1, <2>1, <2>2, <2>3, WriteFrame, SetJobFrame, LocalStep
<1> QED
  BY <1>4, <1>5, <1>6, <1>7, <1>8, <1>9

\* Pruning and the history lose nobody.
LEMMA LossPrune ==
  ASSUME Accounted, TypeOK', NEW i \in Inst, NEW m \in Msg, NEW fate \in Fate,
         \/ PruneCount(i, m, fate) \/ PruneSelect(i, m, fate)
         \/ PruneDelete(i, m, fate) \/ MarkDead(i, m, fate)
         \/ MarkDelivered(i, m, fate)
  PROVE  Accounted'
<1>0. UNCHANGED <<accepted, rejected, submitting>>
  BY DEF PruneCount, PruneSelect, PruneDelete, MarkDead, MarkDelivered,
     web, outside
<1>1. /\ \A n \in Msg : Settled(n)' = Settled(n)
      /\ \A n \in Msg : Settled(n) \subseteq Settled(n)'
                        /\ Settled(n)' \subseteq Envelope[n]
  BY <1>0, SettledFrame
<1>2. {"none", "markDead", "victims", "delete"} \subseteq PC \ Working
  BY DEF Working, PC
<1>3. ASSUME NEW x, NEW vs, NEW n \in Msg, NEW S
      PROVE  /\ GoodCopy([Tail("victims") EXCEPT !.over = x], n, S)
             /\ [Tail("victims") EXCEPT !.over = x].pc \notin Working
             /\ GoodCopy([Tail("delete") EXCEPT !.victims = vs], n, S)
             /\ [Tail("delete") EXCEPT !.victims = vs].pc \notin Working
  BY DEF GoodCopy, Tail, Working
<1>4. ASSUME NEW n \in Msg, NEW S
      PROVE  /\ GoodCopy(NoJob, n, S) /\ NoJob.pc \notin Working
             /\ GoodCopy(Tail("markDead"), n, S)
             /\ Tail("markDead").pc \notin Working
  BY <1>2, GoodTail DEF NoJob
<1>5. \E j : /\ SetJob(i, m, j)
             /\ GoodCopy(j, m, Settled(m)')
             /\ j.pc \notin Working
  <2>1. CASE PruneCount(i, m, fate)
    BY <1>3, <1>4, <2>1 DEF PruneCount
  <2>2. CASE PruneSelect(i, m, fate)
    BY <1>3, <1>4, <2>2 DEF PruneSelect
  <2>3. CASE PruneDelete(i, m, fate)
    BY <1>3, <1>4, <2>3 DEF PruneDelete
  <2>4. CASE MarkDead(i, m, fate) \/ MarkDelivered(i, m, fate)
    BY <1>4, <2>4 DEF MarkDead, MarkDelivered
  <2> QED
    BY <2>1, <2>2, <2>3, <2>4
<1>6. \A k \in Inst, n \in Msg :
        \/ job'[k][n] = job[k][n]
        \/ /\ GoodCopy(job'[k][n], n, Settled(n)')
           /\ job'[k][n].pc \in Working => queue[n].status # "none"
  BY <1>5, SetJobFrame
<1>7. CASE queue' = queue
  BY <1>0, <1>1, <1>6, <1>7, LocalStep
<1>8. CASE PruneDelete(i, m, fate)
  <2>1. job[i][m].victims \in SUBSET Msg
    <3>1. job[i][m] \in Job
      BY DEF Accounted, TypeOK
    <3> QED
      BY <3>1 DEF Job
  <2>2. PICK v \in Msg : Write(v, Pruned(queue[v]), fate)
    BY <1>8, <2>1 DEF PruneDelete, Oldest
  <2>3. queue[v] \in Row /\ GoodRow(queue[v], v, Settled(v)')
    BY <1>1, AccountedGood
  <2>4. GoodRow(Pruned(queue[v]), v, Settled(v)')
        /\ (Pruned(queue[v]).status = "none" <=> queue[v].status = "none")
    BY <2>3, GoodStatements, SameAbsence DEF LastError
  <2> QED
    BY <1>0, <1>1, <1>6, <2>2, <2>4, WriteFrame, LocalStep
<1> QED
  BY <1>7, <1>8 DEF PruneCount, PruneSelect, MarkDead, MarkDelivered

\* Polling, stops and the passing of time lose nobody.
LEMMA LossOther ==
  ASSUME Accounted, TypeOK',
         \/ \E i \in Inst : NextDue(i) \/ Crash(i)
         \/ \E m \in Msg : LeaseExpires(m) \/ BackoffElapses(m)
         \/ Retention
  PROVE  Accounted'
<1>0. UNCHANGED <<accepted, rejected>>
  BY DEF NextDue, Crash, LeaseExpires, BackoffElapses, Retention, PruneSendLogs, outside
<1>1. /\ \A n \in Msg : Settled(n)' = Settled(n)
      /\ \A n \in Msg : Settled(n) \subseteq Settled(n)'
                        /\ Settled(n)' \subseteq Envelope[n]
  BY <1>0, SettledFrame
<1>2. \A n \in Msg : \A S : GoodCopy(NoJob, n, S)
  BY GoodTail DEF NoJob, PC, Working
<1>3. NoJob.pc \notin Working
  BY DEF NoJob, Tail, Working
<1>4. ASSUME NEW i \in Inst, NextDue(i) PROVE Accounted'
  <2>1. ASSUME NEW n \in Msg, n \in Candidates(queue, Batch)
        PROVE  /\ GoodCopy(Scanned(queue[n]), n, Settled(n)')
               /\ queue[n].status # "none"
    <3>1. queue[n].status = "queued"
      BY <2>1 DEF Candidates, Oldest, Due
    <3>2. GoodRow(queue[n], n, Settled(n)')
      BY <1>1, <1>4, AccountedGood
    <3> QED
      BY <3>1, <3>2 DEF GoodRow, GoodCopy, Scanned, Tail, Present
  <2>2. \A k \in Inst, n \in Msg :
          \/ job'[k][n] = job[k][n]
          \/ job'[k][n] = NoJob
          \/ n \in Candidates(queue, Batch) /\ job'[k][n] = Scanned(queue[n])
    BY <1>4 DEF NextDue, Accounted, TypeOK
  <2>3. UNCHANGED <<queue, submitting>>
    BY <1>4 DEF NextDue, web
  <2> QED
    BY <1>1, <1>2, <1>3, <2>1, <2>2, <2>3, LocalStep
<1>5. ASSUME NEW i \in Inst, Crash(i) PROVE Accounted'
  <2>1. \A k \in Inst, n \in Msg : job'[k][n] = job[k][n] \/ job'[k][n] = NoJob
    BY <1>5 DEF Crash, Accounted, TypeOK
  <2>2. \A k \in Inst : submitting'[k] \subseteq submitting[k]
    BY <1>5 DEF Crash, Accounted, TypeOK
  <2>3. queue' = queue
    BY <1>5 DEF Crash
  <2> QED
    BY <1>1, <1>2, <1>3, <2>1, <2>2, <2>3, LocalStep
<1>6. ASSUME NEW m \in Msg, LeaseExpires(m) \/ BackoffElapses(m)
      PROVE  Accounted'
  <2>1. \/ queue' = [queue EXCEPT ![m] = [queue[m] EXCEPT !.lease = "free"]]
        \/ queue' = [queue EXCEPT ![m] = [queue[m] EXCEPT !.next_attempt = "due"]]
    BY <1>6 DEF LeaseExpires, BackoffElapses
  <2>2. queue[m] \in Row /\ GoodRow(queue[m], m, Settled(m)')
    BY <1>1 DEF Accounted, TypeOK, NoLoss, InEnvelope, GoodRow
  <2>3. /\ GoodRow([queue[m] EXCEPT !.lease = "free"], m, Settled(m)')
        /\ GoodRow([queue[m] EXCEPT !.next_attempt = "due"], m, Settled(m)')
    BY <2>2, GoodStatements DEF LastError
  <2>4. /\ [queue[m] EXCEPT !.lease = "free"].status = queue[m].status
        /\ [queue[m] EXCEPT !.next_attempt = "due"].status = queue[m].status
    BY <2>2 DEF Row
  <2>5. PICK row : /\ Write(m, row, "ok")
                   /\ GoodRow(row, m, Settled(m)')
                   /\ row.status = queue[m].status
    BY <2>1, <2>3, <2>4 DEF Write
  <2>6. UNCHANGED <<job, submitting>>
    BY <1>6 DEF LeaseExpires, BackoffElapses, web
  <2> QED
    BY <1>1, <2>5, <2>6, WriteFrame, LocalStep
<1>7. CASE Retention
  <2>1. UNCHANGED <<queue, job, submitting>>
    BY <1>7 DEF Retention, PruneSendLogs
  <2> QED
    BY <1>1, <2>1, LocalStep
<1> QED
  BY <1>4, <1>5, <1>6, <1>7

\* Requests lose nobody.
LEMMA LossRequest ==
  ASSUME Accounted, TypeOK', NEW i \in Inst, NEW m \in Msg, Request(i, m)
  PROVE  Accounted'
<1>1. PICK fate \in Fate : \/ Record(i, m, fate)
                          \/ EnqueueWithID(i, m, fate)
                          \/ RequeueDead(i, m, fate)
                          \/ MarkQueued(i, m, fate)
  BY DEF Request
<1>2. UNCHANGED <<accepted, rejected, job>>
  BY <1>1 DEF Record, EnqueueWithID, RequeueDead, MarkQueued, outside
<1>3. /\ \A n \in Msg : Settled(n)' = Settled(n)
      /\ \A n \in Msg : Settled(n) \subseteq Settled(n)'
                        /\ Settled(n)' \subseteq Envelope[n]
  BY <1>2, SettledFrame
<1>4. CASE Record(i, m, fate)
  <2>1. queue' = queue
    BY <1>4 DEF Record
  <2>2. NoLoss' /\ CopyNoLoss' /\ InEnvelope'
    BY <1>2, <1>3, <2>1 DEF Accounted, NoLoss, CopyNoLoss, InEnvelope
  <2>3. Submissions'
    BY <1>4, <2>1 DEF Accounted, TypeOK, Submissions, Record, Fresh
  <2> QED
    BY <2>2, <2>3 DEF Accounted
<1>5. CASE EnqueueWithID(i, m, fate)
  <2>1. \/ queue' = queue
        \/ queue' = [queue EXCEPT ![m] = Inserted(m)]
    BY <1>5 DEF EnqueueWithID, Write
  <2>2. GoodRow(Inserted(m), m, Settled(m)) /\ Inserted(m).status # "none"
    BY DEF GoodRow, Inserted, NoRow, Present
  <2>3. NoLoss'
    BY <1>3, <2>1, <2>2 DEF Accounted, TypeOK, NoLoss, GoodRow
  <2>4. CopyNoLoss'
    BY <1>2, <1>3 DEF Accounted, CopyNoLoss
  <2>5. InEnvelope'
    BY <1>2, <1>3, <2>1, <2>2 DEF Accounted, TypeOK, InEnvelope, GoodRow
  <2>6. Submissions'
    <3>1. \A n \in Msg : n # m => queue'[n] = queue[n]
      BY <2>1 DEF Accounted, TypeOK
    <3>2. \A k \in Inst : /\ submitting'[k] \subseteq submitting[k]
                          /\ m \notin submitting'[k]
      BY <1>5 DEF EnqueueWithID, Accounted, TypeOK, Submissions
    <3> QED
      BY <3>1, <3>2 DEF Accounted, Submissions
  <2> QED
    BY <2>3, <2>4, <2>5, <2>6 DEF Accounted
<1>6. CASE RequeueDead(i, m, fate)
  <2>1. queue[m] \in Row /\ GoodRow(queue[m], m, Settled(m)')
        /\ queue[m].status = "dead"
    BY <1>3, <1>6, AccountedGood DEF RequeueDead
  <2>2. GoodRow(Requeued(queue[m]), m, Settled(m)')
    BY <2>1, GoodStatements DEF LastError
  <2>3. Requeued(queue[m]).status = "queued"
    BY <2>1 DEF Requeued, Row
  <2>4. Write(m, Requeued(queue[m]), fate) /\ submitting' = submitting
    BY <1>6 DEF RequeueDead
  <2> QED
    BY <1>2, <1>3, <2>1, <2>2, <2>3, <2>4, WriteFrame, LocalStep
<1>7. CASE MarkQueued(i, m, fate)
  BY <1>2, <1>3, <1>7, LocalStep DEF MarkQueued
<1> QED
  BY <1>1, <1>4, <1>5, <1>6, <1>7

\* The invariant holds at first.
LEMMA AccountedInit == Init => Accounted
<1> SUFFICES ASSUME Init PROVE Accounted
  OBVIOUS
<1>1. TypeOK
  BY TypeInit
<1>2. NoLoss
  BY DEF Init, NoLoss, NoRow, Present
<1>3. CopyNoLoss
  BY DEF Init, CopyNoLoss, NoJob, Tail, Working
<1>4. InEnvelope
  BY DEF Init, InEnvelope, NoRow, NoJob, Tail, Working, Settled
<1>5. Submissions
  BY DEF Init, Submissions
<1> QED
  BY <1>1, <1>2, <1>3, <1>4, <1>5 DEF Accounted

\* Every step keeps it.
LEMMA AccountedNext == Accounted /\ [Next]_vars => Accounted'
<1> SUFFICES ASSUME Accounted, [Next]_vars PROVE Accounted'
  OBVIOUS
<1>0. TypeOK'
  BY TypeNext DEF Accounted
<1>1. CASE UNCHANGED vars
  BY <1>0, <1>1 DEF vars, web, outside, Accounted, NoLoss, CopyNoLoss,
     InEnvelope, Submissions, Settled
<1>2. ASSUME NEW i \in Inst, NEW m \in Msg, JobStep(i, m) PROVE Accounted'
  BY <1>0, <1>2, LossClaim, LossGroup, LossEnd, LossPrune DEF JobStep, Fate
<1> QED
  BY <1>0, <1>1, <1>2, LossRequest, LossOther DEF Next, Deliverer

\* The inductive invariant holds of the relay.
THEOREM AlwaysAccounted == Spec => []Accounted
BY AccountedInit, AccountedNext, PTL DEF Spec

\* No recipient is dropped silently, for every number of instances and every
\* interleaving of their statements, stops and failures.
THEOREM NothingLost == Spec => []NoLoss
<1>1. Accounted => NoLoss
  BY DEF Accounted
<1> QED
  BY AlwaysAccounted, <1>1, PTL

----------------------------------------------------------------------------
(***************************************************************************)
(* Refinement: a statement moves at most one message along the edges of    *)
(* MailQueue, an answer of an MX settles some recipients of one message,   *)
(* and every other step stutters.                                          *)
(***************************************************************************)
Edge(from, to) ==
  \/ from = to
  \/ from = "none" /\ to = "queued"
  \/ from = "queued" /\ to = "dead"
  \/ from = "dead" /\ to = "queued"
  \/ from = "dead" /\ to = "pruned"

\* The statuses that deadLetter, pruneDead and RequeueDead lead to.
LEMMA StatementEdges ==
  ASSUME NEW row \in Row, NEW err
  PROVE  /\ Edge(row.status, Buried(row, err).status)
         /\ Edge(row.status, Pruned(row).status)
         /\ row.status = "dead" => Edge(row.status, Requeued(row).status)
<1>1. Edge(row.status, Buried(row, err).status)
  BY DEF Edge, Buried, Present, Row
<1>2. Edge(row.status, Pruned(row).status)
  BY DEF Edge, Pruned, NoRow
<1>3. row.status = "dead" => Edge(row.status, Requeued(row).status)
  BY DEF Edge, Requeued, Row
<1> QED
  BY <1>1, <1>2, <1>3

\* One message moves.
LEMMA MoveStep ==
  ASSUME Accounted, UNCHANGED <<accepted, rejected>>, NEW m \in Msg, NEW row,
         NEW fate, Write(m, row, fate),
         \/ Edge(queue[m].status, row.status)
         \/ /\ queue[m].status = "queued" /\ row.status = "done"
            /\ Envelope[m] \subseteq Settled(m)
  PROVE  [MQ!Next]_(MQ!mqVars)
<1> DEFINE st == [n \in Msg |-> queue[n].status]
           se == [n \in Msg |-> Settled(n)]
<1>1. se' = se
  BY DEF Settled
<1>2. CASE queue' = queue
  BY <1>1, <1>2 DEF MQ!mqVars
<1>3. CASE queue' = [queue EXCEPT ![m] = row]
  <2>1. st' = [st EXCEPT ![m] = row.status]
    BY <1>3 DEF Accounted, TypeOK
  <2>2. st[m] = queue[m].status /\ se[m] = Settled(m)
    OBVIOUS
  <2>3. CASE row.status = queue[m].status
    <3>1. st' = st
      BY <2>1, <2>2, <2>3
    <3> QED
      BY <1>1, <3>1 DEF MQ!mqVars
  <2>4. CASE row.status # queue[m].status
    <3>1. CASE row.status = "done"
      <4>1. se[m] = Envelope[m] /\ st[m] = "queued"
        BY <2>2, <2>4, <3>1 DEF Edge, Accounted, InEnvelope
      <4>2. MQ!Finish(m)
        BY <1>1, <2>1, <3>1, <4>1 DEF MQ!Finish, MQ!Move
      <4> QED
        BY <4>2 DEF MQ!Next
    <3>2. CASE row.status # "done"
      <4>1. MQ!Submit(m) \/ MQ!Bury(m) \/ MQ!Revive(m) \/ MQ!Discard(m)
        BY <1>1, <2>1, <2>2, <2>4, <3>2
        DEF Edge, MQ!Submit, MQ!Bury, MQ!Revive, MQ!Discard, MQ!Move
      <4> QED
        BY <4>1 DEF MQ!Next
    <3> QED
      BY <3>1, <3>2
  <2> QED
    BY <2>3, <2>4
<1> QED
  BY <1>2, <1>3 DEF Write

\* Some recipients of one message are settled.
LEMMA SettleStep ==
  ASSUME Accounted, Accounted', queue' = queue, NEW m \in Msg,
         queue[m].status # "none", Settled(m) \subseteq Settled(m)',
         \A n \in Msg : n # m => Settled(n)' = Settled(n)
  PROVE  [MQ!Next]_(MQ!mqVars)
<1> DEFINE st == [n \in Msg |-> queue[n].status]
           se == [n \in Msg |-> Settled(n)]
           R == Settled(m)' \ Settled(m)
<1>1. st' = st /\ st[m] # "none"
  OBVIOUS
<1>2. R \subseteq Envelope[m] \ se[m]
  BY DEF Accounted, InEnvelope
<1>3. se' = [se EXCEPT ![m] = @ \cup R]
  OBVIOUS
<1>4. MQ!Settle(m, R)
  BY <1>1, <1>2, <1>3 DEF MQ!Settle
<1> QED
  BY <1>2, <1>4 DEF MQ!Next

\* Nothing of what MailQueue talks about changes.
LEMMA StutterStep ==
  ASSUME UNCHANGED <<accepted, rejected>>,
         \A n \in Msg : queue'[n].status = queue[n].status
  PROVE  [MQ!Next]_(MQ!mqVars)
BY DEF MQ!mqVars, Settled

\* A step of a delivery is a step of MailQueue or a stutter.
LEMMA RefineJob ==
  ASSUME Accounted, Accounted', NEW i \in Inst, NEW m \in Msg, JobStep(i, m)
  PROVE  [MQ!Next]_(MQ!mqVars)
<1> DEFINE j == job[i][m]
<1>1. /\ queue[m] \in Row
      /\ j \in Job /\ GoodCopy(j, m, Settled(m))
      /\ j.pc \in Working => queue[m].status # "none"
  BY AccountedGood
<1>2. CASE GroupAnswered(i, m) \/ GroupFailed(i, m)
  <2>1. queue' = queue /\ queue[m].status # "none"
    BY <1>1, <1>2 DEF GroupAnswered, GroupFailed, Working
  <2>2. accepted \in [Msg -> SUBSET Rcpt] /\ rejected \in [Msg -> SUBSET Rcpt]
    BY DEF Accounted, TypeOK
  <2>3. /\ \E R : Accept(m, R)
        /\ rejected' = rejected \/ \E R : rejected' = [rejected EXCEPT ![m] = @ \cup R]
    BY <1>2 DEF GroupAnswered, GroupFailed
  <2>4. /\ Settled(m) \subseteq Settled(m)'
        /\ \A n \in Msg : n # m => Settled(n)' = Settled(n)
    BY <2>2, <2>3 DEF Settled, Accept
  <2> QED
    BY <2>1, <2>4, SettleStep
<1>3. ASSUME NEW fate \in Fate,
             \/ Claim(i, m) \/ ClaimFails(i, m, fate) \/ Start(i, m, fate)
             \/ PersistProgress(i, m, fate) \/ Postpone(i, m, fate)
             \/ Release(i, m, fate) \/ PruneCount(i, m, fate)
             \/ PruneSelect(i, m, fate) \/ MarkDead(i, m, fate)
             \/ MarkDelivered(i, m, fate)
      PROVE  [MQ!Next]_(MQ!mqVars)
  <2>1. UNCHANGED <<accepted, rejected>>
    BY <1>3 DEF Claim, ClaimFails, Start, PersistProgress, Postpone, Release,
       PruneCount, PruneSelect, MarkDead, MarkDelivered, outside
  <2>2. \/ queue' = queue
        \/ \E row : /\ queue' = [queue EXCEPT ![m] = row]
                    /\ row.status = queue[m].status
    <3>1. CASE Claim(i, m)
      BY <1>1, <3>1, SameAbsence DEF Claim
    <3>2. CASE ClaimFails(i, m, fate)
      BY <1>1, <3>2, SameAbsence DEF ClaimFails, Write
    <3>3. CASE PersistProgress(i, m, fate)
      <4> DEFINE row == Persisted(queue[m], j.to, j.permanent, j.attempts, "due",
                                  j.last_error)
      <4>1. Write(m, row, fate)
        BY <3>3 DEF PersistProgress
      <4>2. row.status = queue[m].status
        BY <1>1, SameAbsence
      <4> HIDE DEF row
      <4> QED
        BY <4>1, <4>2 DEF Write
    <3>4. CASE Postpone(i, m, fate)
      <4> DEFINE row == Persisted(queue[m], j.to, j.permanent, j.attempts + 1,
                                  "later", "transient")
      <4>1. Write(m, row, fate)
        BY <3>4 DEF Postpone
      <4>2. row.status = queue[m].status
        BY <1>1, SameAbsence
      <4> HIDE DEF row
      <4> QED
        BY <4>1, <4>2 DEF Write
    <3>5. CASE Release(i, m, fate)
      BY <1>1, <3>5, SameAbsence DEF Release, Write
    <3>6. CASE \/ Start(i, m, fate) \/ PruneCount(i, m, fate)
               \/ PruneSelect(i, m, fate) \/ MarkDead(i, m, fate)
               \/ MarkDelivered(i, m, fate)
      BY <3>6 DEF Start, PruneCount, PruneSelect, MarkDead, MarkDelivered
    <3> QED
      BY <1>3, <3>1, <3>2, <3>3, <3>4, <3>5, <3>6
  <2>3. \A n \in Msg : queue'[n].status = queue[n].status
    BY <2>2 DEF Accounted, TypeOK
  <2> QED
    BY <2>1, <2>3, StutterStep
<1>4. ASSUME NEW fate \in Fate, GiveUp(i, m, fate) \/ RejectAll(i, m, fate)
      PROVE  [MQ!Next]_(MQ!mqVars)
  <2>1. UNCHANGED <<accepted, rejected>>
    BY <1>4 DEF GiveUp, RejectAll
  <2>2. PICK err : Write(m, Buried(queue[m], err), fate)
    BY <1>4 DEF GiveUp, RejectAll
  <2> QED
    BY <1>1, <2>1, <2>2, StatementEdges, MoveStep
<1>5. ASSUME NEW fate \in Fate, Succeed(i, m, fate)
      PROVE  [MQ!Next]_(MQ!mqVars)
  <2>1. UNCHANGED <<accepted, rejected>> /\ Write(m, Succeeded(queue[m]), fate)
    BY <1>5 DEF Succeed
  <2>2. Envelope[m] \subseteq Settled(m)
    BY <1>1, <1>5 DEF Succeed, GoodCopy, Working
  <2>3. \/ Edge(queue[m].status, Succeeded(queue[m]).status)
        \/ queue[m].status = "queued" /\ Succeeded(queue[m]).status = "done"
    BY DEF Edge, Succeeded, NoRow
  <2> QED
    BY <2>1, <2>2, <2>3, MoveStep
<1>6. ASSUME NEW fate \in Fate, PruneDelete(i, m, fate)
      PROVE  [MQ!Next]_(MQ!mqVars)
  <2>1. j.victims \in SUBSET Msg
    BY <1>1 DEF Job
  <2>2. PICK v \in Msg : Write(v, Pruned(queue[v]), fate)
    BY <1>6, <2>1 DEF PruneDelete, Oldest
  <2>3. queue[v] \in Row
    BY DEF Accounted, TypeOK
  <2>4. UNCHANGED <<accepted, rejected>>
    BY <1>6 DEF PruneDelete, outside
  <2> QED
    BY <2>2, <2>3, <2>4, StatementEdges, MoveStep
<1> QED
  BY <1>2, <1>3, <1>4, <1>5, <1>6 DEF JobStep, Fate

\* So is a request.
LEMMA RefineRequest ==
  ASSUME Accounted, NEW i \in Inst, NEW m \in Msg, Request(i, m)
  PROVE  [MQ!Next]_(MQ!mqVars)
<1>1. PICK fate \in Fate : \/ Record(i, m, fate)
                          \/ EnqueueWithID(i, m, fate)
                          \/ RequeueDead(i, m, fate)
                          \/ MarkQueued(i, m, fate)
  BY DEF Request
<1>2. UNCHANGED <<accepted, rejected>>
  BY <1>1 DEF Record, EnqueueWithID, RequeueDead, MarkQueued, outside
<1>3. CASE EnqueueWithID(i, m, fate)
  <2>1. queue[m].status = "none"
    BY <1>3 DEF EnqueueWithID, Accounted, Submissions
  <2>2. Inserted(m).status = "queued"
    BY DEF Inserted, NoRow
  <2>3. Edge(queue[m].status, Inserted(m).status)
    BY <2>1, <2>2 DEF Edge
  <2> QED
    BY <1>2, <1>3, <2>3, MoveStep DEF EnqueueWithID
<1>4. CASE RequeueDead(i, m, fate)
  <2>1. queue[m] \in Row /\ queue[m].status = "dead"
    BY <1>4 DEF RequeueDead, Accounted, TypeOK
  <2> QED
    BY <1>2, <1>4, <2>1, StatementEdges, MoveStep DEF RequeueDead
<1>5. CASE Record(i, m, fate) \/ MarkQueued(i, m, fate)
  BY <1>2, <1>5, StutterStep DEF Record, MarkQueued
<1> QED
  BY <1>1, <1>3, <1>4, <1>5

\* So is every step.
LEMMA RefineNext ==
  Accounted /\ Accounted' /\ [Next]_vars => [MQ!Next]_(MQ!mqVars)
<1> SUFFICES ASSUME Accounted, Accounted', [Next]_vars
             PROVE  [MQ!Next]_(MQ!mqVars)
  OBVIOUS
<1>1. CASE UNCHANGED vars
  BY <1>1, StutterStep DEF vars, outside
<1>2. CASE \E i \in Inst : NextDue(i) \/ Crash(i)
  BY <1>2, StutterStep DEF NextDue, Crash, outside
<1>3. CASE \E m \in Msg : LeaseExpires(m) \/ BackoffElapses(m)
  <2>1. UNCHANGED <<accepted, rejected>>
    BY <1>3 DEF LeaseExpires, BackoffElapses, outside
  <2>2. \A n \in Msg : queue[n] \in Row
    BY DEF Accounted, TypeOK
  <2>3. \A n \in Msg : queue'[n].status = queue[n].status
    <3>1. PICK m \in Msg :
            \/ queue' = [queue EXCEPT ![m] = [queue[m] EXCEPT !.lease = "free"]]
            \/ queue' = [queue EXCEPT ![m] =
                             [queue[m] EXCEPT !.next_attempt = "due"]]
      BY <1>3 DEF LeaseExpires, BackoffElapses
    <3>2. /\ [queue[m] EXCEPT !.lease = "free"].status = queue[m].status
          /\ [queue[m] EXCEPT !.next_attempt = "due"].status = queue[m].status
      BY <2>2 DEF Row
    <3> QED
      BY <3>1, <3>2 DEF Accounted, TypeOK
  <2> QED
    BY <2>1, <2>3, StutterStep
<1>4. CASE Retention
  BY <1>4, StutterStep DEF Retention, PruneSendLogs, outside
<1> QED
  BY <1>1, <1>2, <1>3, <1>4, RefineJob, RefineRequest DEF Next, Deliverer

\* The deliverers of any number of instances implement MailQueue: a submitted
\* message leaves the queue only with every recipient settled or by way of
\* the dead letters, and never comes back once it has gone.
THEOREM Refinement == Spec => ImplementsMailQueue
<1>1. Init => MQ!Init
  BY DEF Init, MQ!Init, NoRow, Settled
<1> QED
  BY AlwaysAccounted, RefineNext, <1>1, PTL
  DEF Spec, ImplementsMailQueue, MQ!Spec
============================================================================
