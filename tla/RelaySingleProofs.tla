------------------------- MODULE RelaySingleProofs -------------------------
(***************************************************************************)
(* What Relay promises when one instance works on the database, as the     *)
(* README of the repository deploys it, for every value of the other       *)
(* constants and any number of stops and failed statements: nobody is sent *)
(* a message again outside the at-least-once window, a retry of a rejected *)
(* message asks only for recipients that were refused, and what is left of *)
(* the panel's history agrees with the queue.                              *)
(*                                                                         *)
(* With two instances none of the three holds: a lease that expires under  *)
(* a slow delivery hands the message to the other instance as well.        *)
(***************************************************************************)
EXTENDS RelayQueueProofs

\* One carteiro process on the database.
OneInstance == Inst # {} /\ \A i, k \in Inst : i = k

----------------------------------------------------------------------------
(* The batches: no delivery starts before every candidate is claimed, so   *)
(* that a claim that fails drops no delivery that has talked to an MX.     *)

Waiting == {"none", "cand", "ready"}

Batches ==
  \A k \in Inst, m, n \in Msg :
    job[k][m].pc = "cand" => job[k][n].pc \in Waiting

\* What a step must respect so that batches do not mix.
LEMMA BatchTouch ==
  ASSUME Batches, NEW i \in Inst, NEW m \in Msg, NEW row, NEW j, NEW h,
         Touch(i, m, row, j, h), j.pc # "cand",
         \/ j.pc \in Waiting \/ job[i][m].pc \notin Waiting
         \/ \A n \in Msg : job[i][n].pc # "cand"
  PROVE  Batches'
<1> SUFFICES ASSUME NEW k \in Inst, NEW a \in Msg, NEW b \in Msg,
                    job'[k][a].pc = "cand"
             PROVE  job'[k][b].pc \in Waiting
  BY DEF Batches
<1>1. /\ job'[i][m] = j
      /\ \A l \in Inst, n \in Msg : l # i \/ n # m => job'[l][n] = job[l][n]
  BY DEF Touch, Quiet
<1>2. job[k][a].pc = "cand"
  BY <1>1
<1>3. job[k][b].pc \in Waiting /\ (k = i => job[i][m].pc \in Waiting)
  BY <1>2 DEF Batches
<1>4. CASE k = i /\ b = m
  BY <1>1, <1>2, <1>3, <1>4
<1>5. CASE k # i \/ b # m
  BY <1>1, <1>3, <1>5
<1> QED
  BY <1>4, <1>5

\* Every step of a delivery respects it.
LEMMA BatchJob ==
  ASSUME TypeOK, Batches, NEW i \in Inst, NEW m \in Msg, JobStep(i, m)
  PROVE  Batches'
<1>0. /\ job[i][m] \in Job /\ queue[m] \in Row
  BY DEF TypeOK
<1> DEFINE at(pc) == [job[i][m] EXCEPT !.pc = pc]
<1>b. /\ \A pc : at(pc).pc = pc
      /\ NoJob.pc = "none" /\ \A pc : Tail(pc).pc = pc
  BY <1>0, CopyFields
<1>w. /\ {"none", "ready"} \subseteq Waiting
      /\ \A pc \in {"group", "persist", "retry", "resolve", "release", "markDelivered"} \cup Burying :
           pc \notin Waiting /\ pc # "cand"
  BY DEF Waiting, Burying
<1>1. CASE Claim(i, m)
  <2>1. \/ Touch(i, m, Claimed(queue[m]), at("ready"), hist[m])
        \/ Touch(i, m, queue[m], NoJob, hist[m])
    BY <1>1, TouchClaim
  <2> HIDE DEF at
  <2> QED
    BY <1>b, <1>w, <2>1, BatchTouch
<1>2. CASE GroupAnswered(i, m)
  <2>1. PICK G, D : Touch(i, m, queue[m], Answered(job[i][m], G, D), hist[m])
    BY <1>2, TouchAnswered
  <2>2. job[i][m].pc = "group"
    BY <1>2, TouchAnswered
  <2>3. Answered(job[i][m], G, D).pc # "cand"
    BY <1>0, AnsweredFields
  <2> QED
    BY <1>w, <2>1, <2>2, <2>3, BatchTouch
<1>3. CASE GroupFailed(i, m)
  <2>1. Touch(i, m, queue[m], at("retry"), hist[m]) /\ job[i][m].pc = "group"
    BY <1>3, TouchFailed
  <2> HIDE DEF at
  <2> QED
    BY <1>b, <1>w, <2>1, BatchTouch
<1>4. ASSUME NEW fate \in Fate, Start(i, m, fate) PROVE Batches'
  <2>1. Touch(i, m, queue[m], at("group"), Bumped(hist[m], fate))
    BY <1>4, TouchStart
  <2>2. \A n \in Msg : job[i][n].pc # "cand"
    BY <1>4 DEF Start
  <2> HIDE DEF at
  <2> QED
    BY <1>b, <1>w, <2>1, <2>2, BatchTouch
<1>5. ASSUME NEW fate \in Fate, PersistProgress(i, m, fate) PROVE Batches'
  <2>1. PICK row : Touch(i, m, row, at("group"), hist[m])
    BY <1>5, TouchPersist
  <2>2. job[i][m].pc = "persist"
    BY <1>5, TouchPersist
  <2> HIDE DEF at
  <2> QED
    BY <1>b, <1>w, <2>1, <2>2, BatchTouch
<1>6. ASSUME NEW fate \in Fate, Postpone(i, m, fate) PROVE Batches'
  <2>1. PICK row : Touch(i, m, row, Tail("release"), hist[m])
    BY <1>6, TouchPostpone
  <2>2. job[i][m].pc = "retry"
    BY <1>6, TouchPostpone
  <2> QED
    BY <1>b, <1>w, <2>1, <2>2, BatchTouch
<1>7. ASSUME NEW fate \in Fate, Release(i, m, fate) PROVE Batches'
  BY <1>7, <1>b, <1>w, TouchRelease, BatchTouch
<1>8. ASSUME NEW fate \in Fate, GiveUp(i, m, fate) \/ RejectAll(i, m, fate)
      PROVE  Batches'
  <2>1. PICK row : Touch(i, m, row, AfterBury(fate), hist[m])
    BY <1>8, TouchBury
  <2>2. job[i][m].pc \in {"retry", "resolve"}
    BY <1>8 DEF GiveUp, RejectAll
  <2>3. AfterBury(fate).pc # "cand"
    BY AfterBuryFields
  <2> QED
    BY <1>w, <2>1, <2>2, <2>3, BatchTouch
<1>9. ASSUME NEW fate \in Fate, Succeed(i, m, fate) PROVE Batches'
  <2>1. PICK j \in {NoJob, Tail("markDelivered")} :
          Touch(i, m, After(queue[m], Succeeded(queue[m]), fate), j, hist[m])
    BY <1>9, TouchSucceed
  <2>2. job[i][m].pc = "resolve"
    BY <1>9, TouchSucceed
  <2> QED
    BY <1>b, <1>w, <2>1, <2>2, BatchTouch
<1>10. ASSUME NEW fate \in Fate, PruneCount(i, m, fate) \/ PruneSelect(i, m, fate)
       PROVE  Batches'
  <2>1. /\ job[i][m].pc \in Burying /\ PruneNext(job'[i][m], fate)
        /\ Touch(i, m, queue[m], job'[i][m], hist[m])
    BY <1>10, TouchPruneSelect
  <2>2. job'[i][m].pc # "cand"
    BY <1>b, <1>w, <2>1 DEF PruneNext
  <2> QED
    BY <1>w, <2>1, <2>2, BatchTouch
<1>11. ASSUME NEW fate \in Fate, MarkDead(i, m, fate) \/ MarkDelivered(i, m, fate)
       PROVE  Batches'
  <2>1. PICK h : Touch(i, m, queue[m], NoJob, h)
    BY <1>11, TouchMark
  <2> QED
    BY <1>b, <1>w, <2>1, BatchTouch
<1>12. ASSUME NEW fate \in Fate, PruneDelete(i, m, fate) PROVE Batches'
  <2>1. /\ job[i][m].pc = "delete" /\ PruneNext(job'[i][m], fate)
        /\ \A k \in Inst \ {i} : job'[k][m] = job[k][m]
        /\ \A n \in Msg \ {m}, k \in Inst : job'[k][n] = job[k][n]
    BY <1>12, TouchPruneDelete
  <2>2. job'[i][m].pc # "cand" /\ job[i][m].pc \notin Waiting
    BY <1>b, <1>w, <2>1 DEF PruneNext, Burying
  <2> SUFFICES ASSUME NEW k \in Inst, NEW a \in Msg, NEW b \in Msg,
                      job'[k][a].pc = "cand"
               PROVE  job'[k][b].pc \in Waiting
    BY DEF Batches
  <2>3. job[k][a].pc = "cand"
    BY <2>1, <2>2
  <2>4. job[k][b].pc \in Waiting /\ k # i
    BY <2>2, <2>3 DEF Batches
  <2> QED
    BY <2>1, <2>4
<1>13. ASSUME NEW fate \in Fate, ClaimFails(i, m, fate) PROVE Batches'
  <2>1. /\ \A n \in Msg, k \in Inst \ {i} : job'[k][n] = job[k][n]
        /\ \A n \in Msg : job'[i][n] = NoJob
    BY <1>13, TouchClaimFails
  <2> QED
    BY <1>b, <2>1 DEF Batches
<1> QED
  BY <1>1, <1>2, <1>3, <1>4, <1>5, <1>6, <1>7, <1>8, <1>9, <1>10, <1>11, <1>12,
     <1>13 DEF JobStep

\* No step mixes batches.
LEMMA BatchesNext == TypeOK /\ Batches /\ [Next]_vars => Batches'
<1> SUFFICES ASSUME TypeOK, Batches, [Next]_vars PROVE Batches'
  OBVIOUS
<1>b. NoJob.pc = "none" /\ \A row : Scanned(row).pc = "cand"
  BY DEF NoJob, Tail, Scanned
<1>1. CASE UNCHANGED vars
  BY <1>1 DEF vars, Batches
<1>2. ASSUME NEW i \in Inst, NextDue(i) PROVE Batches'
  <2>1. /\ \A n \in Msg, k \in Inst \ {i} : job'[k][n] = job[k][n]
        /\ \A n \in Msg : job'[i][n] = NoJob \/ job'[i][n] = Scanned(queue[n])
    BY <1>2, TouchNextDue
  <2>2. \A n \in Msg : job'[i][n].pc \in Waiting
    BY <1>b, <2>1 DEF Waiting
  <2> QED
    BY <2>1, <2>2 DEF Batches
<1>3. ASSUME NEW i \in Inst, Crash(i) PROVE Batches'
  <2>1. /\ \A n \in Msg, k \in Inst \ {i} : job'[k][n] = job[k][n]
        /\ \A n \in Msg : job'[i][n] = NoJob
    BY <1>3, TouchCrash
  <2> QED
    BY <1>b, <2>1 DEF Batches
<1>4. ASSUME NEW m \in Msg, LeaseExpires(m) \/ BackoffElapses(m) PROVE Batches'
  BY <1>4 DEF LeaseExpires, BackoffElapses, Batches
<1>5. ASSUME NEW i \in Inst, NEW m \in Msg, Request(i, m) PROVE Batches'
  BY <1>5 DEF Request, Record, EnqueueWithID, RequeueDead, MarkQueued, Batches
<1>6. CASE Retention
  BY <1>6, TouchRetention DEF Batches
<1> QED
  BY <1>1, <1>2, <1>3, <1>4, <1>5, <1>6, BatchJob DEF Next, Deliverer

----------------------------------------------------------------------------
(***************************************************************************)
(* Recipients.  One message, its row q, the only goroutine j that may work *)
(* on it, and what the world has seen of it.  The row asks for somebody    *)
(* who already has the message only if that is exposed, or if the          *)
(* goroutine knows better and has still to say so (a group was delivered   *)
(* and Persist or Succeed comes next).                                     *)
(***************************************************************************)
Window(q, j, acc, rej, dupl, exp) ==
  /\ q.status = "none" => acc = {}
  /\ j.pc \in Working => q.status = "queued"
  /\ j.pc \notin {"persist", "resolve"} \/ "delivered" \notin j.outcome =>
       q.to \cap acc \subseteq exp
  /\ j.pc \in Working => j.to \cap acc \subseteq exp
  /\ j.pc \in Working /\ "delivered" \notin j.outcome => q.to \ j.to \subseteq rej
  /\ j.pc \notin Working => j.outcome = {}
  /\ dupl \subseteq exp
  /\ q.status = "dead" /\ q.last_error = "rejected" => q.to \subseteq rej

WindowOf(i, n) ==
  Window(queue[n], job[i][n], accepted[n], rejected[n], dup[n], exposed[n])

Windows == \A i \in Inst, n \in Msg : WindowOf(i, n)

\* Every step but those of ClaimFails, PruneDelete and Crash shows only the
\* message it is about to the world.
LEMMA WindowTouch ==
  ASSUME OneInstance, Windows, NEW i \in Inst, NEW m \in Msg,
         NEW row, NEW j, NEW h, Touch(i, m, row, j, h),
         \A n \in Msg \ {m} : /\ accepted'[n] = accepted[n]
                              /\ rejected'[n] = rejected[n]
                              /\ dup'[n] = dup[n] /\ exposed'[n] = exposed[n],
         Window(row, j, accepted'[m], rejected'[m], dup'[m], exposed'[m])
  PROVE  Windows'
<1> SUFFICES ASSUME NEW k \in Inst, NEW n \in Msg PROVE WindowOf(k, n)'
  BY DEF Windows
<1>1. k = i
  BY DEF OneInstance
<1>2. CASE n = m
  BY <1>1, <1>2 DEF WindowOf, Touch
<1>3. CASE n # m
  BY <1>1, <1>3 DEF WindowOf, Touch, Quiet, Windows
<1> QED
  BY <1>2, <1>3

\* The world after a statement.
LEMMA ExposeAt ==
  ASSUME TypeOK, NEW m \in Msg, NEW fate, Expose(m, fate),
         UNCHANGED <<accepted, rejected, dup>>
  PROVE  /\ \A n \in Msg \ {m} : /\ accepted'[n] = accepted[n]
                                 /\ rejected'[n] = rejected[n]
                                 /\ dup'[n] = dup[n] /\ exposed'[n] = exposed[n]
         /\ accepted'[m] = accepted[m] /\ rejected'[m] = rejected[m]
         /\ dup'[m] = dup[m] /\ exposed[m] \subseteq exposed'[m]
         /\ fate # "ok" => accepted[m] \cap queue[m].to \subseteq exposed'[m]
BY DEF Expose, Forgotten, TypeOK

\* The conversations.
LEMMA WindowGroup ==
  ASSUME OneInstance, Accounted, Windows, NEW i \in Inst, NEW m \in Msg,
         GroupAnswered(i, m) \/ GroupFailed(i, m)
  PROVE  Windows'
<1>0. /\ TypeOK /\ queue[m] \in Row /\ job[i][m] \in Job
      /\ Window(queue[m], job[i][m], accepted[m], rejected[m], dup[m], exposed[m])
      /\ accepted \in [Msg -> SUBSET Rcpt] /\ rejected \in [Msg -> SUBSET Rcpt]
      /\ dup \in [Msg -> SUBSET Rcpt] /\ exposed \in [Msg -> SUBSET Rcpt]
  BY DEF Accounted, TypeOK, Windows, WindowOf
<1>w. {"group", "retry", "persist", "resolve"} \subseteq Working
  BY DEF Working
<1>1. CASE GroupAnswered(i, m)
  <2>1. PICK G \in Groups(job[i][m].to), D \in SUBSET Rcpt :
          /\ D \subseteq G
          /\ Accept(m, D)
          /\ rejected' = [rejected EXCEPT ![m] = @ \cup (G \ D)]
          /\ exposed' = exposed
          /\ Touch(i, m, queue[m], Answered(job[i][m], G, D), hist[m])
    BY <1>0, <1>1, TouchAnswered
  <2>2. job[i][m].pc = "group" /\ G \subseteq job[i][m].to
    BY <1>0, <1>1, TouchAnswered DEF Groups
  <2> DEFINE j == Answered(job[i][m], G, D)
  <2>3. /\ j.pc \in {"resolve", "persist"} /\ j.to = job[i][m].to \ G
        /\ "delivered" \notin j.outcome => D = {} /\ "delivered" \notin job[i][m].outcome
    BY <1>0, AnsweredFields
  <2>4. /\ accepted'[m] = accepted[m] \cup D
        /\ dup'[m] = dup[m] \cup (D \cap accepted[m])
        /\ rejected'[m] = rejected[m] \cup (G \ D)
        /\ exposed'[m] = exposed[m]
    BY <1>0, <2>1 DEF Accept
  <2>5. \A n \in Msg \ {m} : /\ accepted'[n] = accepted[n]
                             /\ rejected'[n] = rejected[n]
                             /\ dup'[n] = dup[n] /\ exposed'[n] = exposed[n]
    BY <1>0, <2>1 DEF Accept
  <2> HIDE DEF j
  <2>6. /\ queue[m].status = "queued"
        /\ queue[m].to \cap accepted[m] \subseteq exposed[m]
        /\ job[i][m].to \cap accepted[m] \subseteq exposed[m]
        /\ dup[m] \subseteq exposed[m]
        /\ "delivered" \notin job[i][m].outcome =>
             queue[m].to \ job[i][m].to \subseteq rejected[m]
    BY <1>0, <1>w, <2>2 DEF Window
  <2>7. j.to \cap accepted'[m] \subseteq exposed'[m]
    BY <2>1, <2>3, <2>4, <2>6
  <2>8. dup'[m] \subseteq exposed'[m]
    BY <2>1, <2>2, <2>4, <2>6
  <2>9. "delivered" \notin j.outcome =>
          /\ queue[m].to \cap accepted'[m] \subseteq exposed'[m]
          /\ queue[m].to \ j.to \subseteq rejected'[m]
    BY <2>3, <2>4, <2>6
  <2>10. Window(queue[m], j, accepted'[m], rejected'[m], dup'[m], exposed'[m])
    BY <1>w, <2>3, <2>6, <2>7, <2>8, <2>9 DEF Window
  <2>11. Touch(i, m, queue[m], j, hist[m])
    BY <2>1 DEF j
  <2> QED
    BY <2>5, <2>10, <2>11, WindowTouch
<1>2. CASE GroupFailed(i, m)
  <2>1. PICK A \in SUBSET Rcpt :
          /\ A \subseteq job[i][m].to
          /\ Accept(m, A)
          /\ exposed' = [exposed EXCEPT ![m] = @ \cup A]
    BY <1>0, <1>2, TouchFailed
  <2> DEFINE j == [job[i][m] EXCEPT !.pc = "retry"]
  <2>2. /\ job[i][m].pc = "group" /\ rejected' = rejected
        /\ Touch(i, m, queue[m], j, hist[m])
    BY <1>0, <1>2, TouchFailed
  <2>3. j.pc = "retry" /\ j.to = job[i][m].to /\ j.outcome = job[i][m].outcome
    BY <1>0, CopyFields
  <2>4. /\ accepted'[m] = accepted[m] \cup A
        /\ dup'[m] = dup[m] \cup (A \cap accepted[m])
        /\ rejected'[m] = rejected[m]
        /\ exposed'[m] = exposed[m] \cup A
    BY <1>0, <2>1, <2>2 DEF Accept
  <2>5. \A n \in Msg \ {m} : /\ accepted'[n] = accepted[n]
                             /\ rejected'[n] = rejected[n]
                             /\ dup'[n] = dup[n] /\ exposed'[n] = exposed[n]
    BY <1>0, <2>1, <2>2 DEF Accept
  <2> HIDE DEF j
  <2>6. Window(queue[m], j, accepted'[m], rejected'[m], dup'[m], exposed'[m])
    BY <1>0, <1>w, <2>2, <2>3, <2>4 DEF Window
  <2> QED
    BY <2>2, <2>5, <2>6, WindowTouch
<1> QED
  BY <1>1, <1>2

\* The statements of deliver.
LEMMA WindowEnd ==
  ASSUME OneInstance, Accounted, LeaseSound, Windows, NEW i \in Inst, NEW m \in Msg,
         NEW fate \in Fate,
         \/ PersistProgress(i, m, fate) \/ Postpone(i, m, fate)
         \/ GiveUp(i, m, fate) \/ RejectAll(i, m, fate) \/ Succeed(i, m, fate)
  PROVE  Windows'
<1>0. /\ TypeOK /\ queue[m] \in Row /\ job[i][m] \in Job
      /\ Window(queue[m], job[i][m], accepted[m], rejected[m], dup[m], exposed[m])
      /\ job[i][m].pc = "resolve" => job[i][m].to = {}
      /\ job[i][m].pc \in {"persist", "retry"} => job[i][m].to # {}
  BY DEF Accounted, TypeOK, Windows, WindowOf, CopyNoLoss, LeaseSound, LeaseOf
<1>w. /\ {"group", "retry", "persist", "resolve"} \subseteq Working
      /\ {"none", "release", "count", "markDead", "markDelivered"} \cap Working = {}
  BY DEF Working
<1>e. /\ \A n \in Msg \ {m} : /\ accepted'[n] = accepted[n]
                              /\ rejected'[n] = rejected[n]
                              /\ dup'[n] = dup[n] /\ exposed'[n] = exposed[n]
      /\ accepted'[m] = accepted[m] /\ rejected'[m] = rejected[m]
      /\ dup'[m] = dup[m] /\ exposed[m] \subseteq exposed'[m]
      /\ fate # "ok" => accepted[m] \cap queue[m].to \subseteq exposed'[m]
  <2>1. Expose(m, fate) /\ UNCHANGED <<accepted, rejected, dup>>
    BY DEF PersistProgress, Postpone, GiveUp, RejectAll, Succeed
  <2> QED
    BY <1>0, <2>1, ExposeAt
<1> DEFINE Fits(row, j) ==
             Window(row, j, accepted'[m], rejected'[m], dup'[m], exposed'[m])
<1>f. ASSUME NEW row, NEW j, NEW h, Touch(i, m, row, j, h), Fits(row, j)
      PROVE  Windows'
  BY <1>e, <1>f, WindowTouch
<1>1. CASE PersistProgress(i, m, fate)
  <2> DEFINE new == Persisted(queue[m], job[i][m].to, job[i][m].permanent,
                              job[i][m].attempts, "due", job[i][m].last_error)
             row == After(queue[m], new, fate)
             j == [job[i][m] EXCEPT !.pc = "group"]
  <2>1. Touch(i, m, row, j, hist[m]) /\ job[i][m].pc = "persist"
    BY <1>0, <1>1, TouchPersist
  <2>2. j.pc = "group" /\ j.to = job[i][m].to /\ j.outcome = job[i][m].outcome
    BY <1>0, CopyFields
  <2>3. queue[m].status = "queued" /\ job[i][m].to # {}
    BY <1>0, <1>w, <2>1 DEF Window
  <2>4. new.status = queue[m].status /\ new.to = job[i][m].to
    BY <1>0, <2>3, RowFields DEF Present
  <2> HIDE DEF new, j
  <2>5. CASE fate = "failed"
    <3>1. row = queue[m]
      BY <2>5 DEF After
    <3>2. Fits(queue[m], j)
      BY <1>0, <1>w, <1>e, <2>1, <2>2, <2>5 DEF Window
    <3> HIDE DEF row, Fits
    <3> QED
      BY <1>f, <2>1, <3>1, <3>2
  <2>6. CASE fate # "failed"
    <3>1. row = new
      BY <2>6 DEF After
    <3>2. Fits(new, j)
      BY <1>0, <1>w, <1>e, <2>1, <2>2, <2>3, <2>4 DEF Window
    <3> HIDE DEF row, Fits
    <3> QED
      BY <1>f, <2>1, <3>1, <3>2
  <2> QED
    BY <2>5, <2>6
<1>2. CASE Postpone(i, m, fate)
  <2> DEFINE new == Persisted(queue[m], job[i][m].to, job[i][m].permanent,
                              job[i][m].attempts + 1, "later", "transient")
             row == After(queue[m], new, fate)
             j == Tail("release")
  <2>1. Touch(i, m, row, j, hist[m]) /\ job[i][m].pc = "retry"
    BY <1>0, <1>2, TouchPostpone
  <2>2. j.pc = "release" /\ j.outcome = {}
    BY <1>0, CopyFields
  <2>3. queue[m].status = "queued" /\ job[i][m].to # {}
    BY <1>0, <1>w, <2>1 DEF Window
  <2>4. new.status = queue[m].status /\ new.to = job[i][m].to
    BY <1>0, <2>3, RowFields DEF Present
  <2> HIDE DEF new, j
  <2>5. CASE fate = "failed"
    <3>1. row = queue[m]
      BY <2>5 DEF After
    <3>2. Fits(queue[m], j)
      BY <1>0, <1>w, <1>e, <2>1, <2>2 DEF Window
    <3> HIDE DEF row, Fits
    <3> QED
      BY <1>f, <2>1, <3>1, <3>2
  <2>6. CASE fate # "failed"
    <3>1. row = new
      BY <2>6 DEF After
    <3>2. Fits(new, j)
      BY <1>0, <1>w, <1>e, <2>1, <2>2, <2>3, <2>4 DEF Window
    <3> HIDE DEF row, Fits
    <3> QED
      BY <1>f, <2>1, <3>1, <3>2
  <2> QED
    BY <2>5, <2>6
<1>3. CASE GiveUp(i, m, fate) \/ RejectAll(i, m, fate)
  <2>1. PICK err \in {"exhausted", "rejected"} :
          /\ Touch(i, m, After(queue[m], Buried(queue[m], err), fate),
                   AfterBury(fate), hist[m])
          /\ \/ job[i][m].pc = "retry" /\ err = "exhausted"
             \/ job[i][m].pc = "resolve" /\ job[i][m].outcome = {"refused"}
    BY <1>0, <1>3, TouchBury
  <2> DEFINE new == Buried(queue[m], err)
             row == After(queue[m], new, fate)
             j == AfterBury(fate)
  <2>2. j.pc \notin Working /\ j.pc \notin {"persist", "resolve"} /\ j.outcome = {}
    BY AfterBuryFields DEF Working
  <2>3. queue[m].status = "queued"
    BY <1>0, <1>w, <2>1 DEF Window
  <2>4. new.status = "dead" /\ new.to = queue[m].to /\ new.last_error = err
    BY <1>0, <2>3, RowFields DEF Present
  <2>5. queue[m].to \cap accepted[m] \subseteq exposed[m]
    BY <1>0, <2>1 DEF Window
  <2>6. err = "rejected" => queue[m].to \subseteq rejected[m]
    BY <1>0, <1>w, <2>1 DEF Window
  <2>7. Touch(i, m, row, j, hist[m])
    BY <2>1
  <2> HIDE DEF new, j
  <2>8. Fits(queue[m], j) /\ Fits(new, j)
    BY <1>0, <1>e, <2>1, <2>2, <2>3, <2>4, <2>5, <2>6 DEF Window
  <2>9. row = queue[m] \/ row = new
    BY DEF After
  <2> HIDE DEF row, Fits
  <2> QED
    BY <1>f, <2>7, <2>8, <2>9
<1>4. CASE Succeed(i, m, fate)
  <2> DEFINE row == After(queue[m], Succeeded(queue[m]), fate)
  <2>1. PICK j \in {NoJob, Tail("markDelivered")} :
          /\ fate = "ok" => j = Tail("markDelivered")
          /\ Touch(i, m, row, j, hist[m])
    BY <1>0, <1>4, TouchSucceed
  <2>2. j.pc \in {"none", "markDelivered"} /\ j.outcome = {}
    BY <1>0, <2>1, CopyFields
  <2>3. queue[m].status = "queued"
    BY <1>0, <1>4, <1>w DEF Window, Succeed
  <2>4. Succeeded(queue[m]) = NoRow("done")
    BY <2>3 DEF Succeeded
  <2>5. Fits(NoRow("done"), j)
    BY <1>0, <1>e, <1>w, <2>2, NewFields DEF Window
  <2>6. fate = "failed" => Fits(queue[m], j)
    BY <1>0, <1>e, <1>w, <2>2, <2>3 DEF Window
  <2>7. Fits(row, j)
    <3> HIDE DEF Fits
    <3> QED
      BY <2>4, <2>5, <2>6 DEF After
  <2> HIDE DEF row, Fits
  <2> QED
    BY <1>f, <2>1, <2>7
<1> QED
  BY <1>1, <1>2, <1>3, <1>4

\* The steps that show the world nothing: claims, releases, pruneDead and the
\* history.
LEMMA WindowQuiet ==
  ASSUME OneInstance, Accounted, Batches, Windows, NEW i \in Inst, NEW m \in Msg,
         NEW fate \in Fate,
         \/ Claim(i, m) \/ ClaimFails(i, m, fate) \/ Start(i, m, fate)
         \/ Release(i, m, fate) \/ PruneCount(i, m, fate)
         \/ PruneSelect(i, m, fate) \/ PruneDelete(i, m, fate)
         \/ MarkDead(i, m, fate) \/ MarkDelivered(i, m, fate)
  PROVE  Windows'
<1>0. /\ TypeOK /\ queue[m] \in Row /\ job[i][m] \in Job
      /\ Window(queue[m], job[i][m], accepted[m], rejected[m], dup[m], exposed[m])
  BY DEF Accounted, TypeOK, Windows, WindowOf
<1>w. /\ {"cand", "ready", "group", "persist", "resolve"} \subseteq Working
      /\ ({"none", "release", "markDelivered"} \cup Burying) \cap Working = {}
  BY DEF Working, Burying
<1>e. UNCHANGED <<accepted, rejected, dup, exposed>>
  BY DEF Claim, ClaimFails, Start, Release, PruneCount, PruneSelect, PruneDelete,
         MarkDead, MarkDelivered, outside
<1> DEFINE Fits(row, j) ==
             Window(row, j, accepted[m], rejected[m], dup[m], exposed[m])
<1>f. ASSUME NEW row, NEW j, NEW h, Touch(i, m, row, j, h), Fits(row, j)
      PROVE  Windows'
  BY <1>e, <1>f, WindowTouch
<1>b. /\ NoJob.pc = "none" /\ NoJob.outcome = {}
  BY <1>0, CopyFields
\* A goroutine that has settled nothing since the row was written may stop.
<1>s. job[i][m].pc \notin {"persist", "resolve"} => Fits(queue[m], NoJob)
  BY <1>0, <1>b, <1>w DEF Window
<1>1. CASE Claim(i, m)
  <2> DEFINE j == [job[i][m] EXCEPT !.pc = "ready"]
  <2>1. /\ job[i][m].pc = "cand"
        /\ \/ Touch(i, m, Claimed(queue[m]), j, hist[m])
           \/ Touch(i, m, queue[m], NoJob, hist[m])
    BY <1>0, <1>1, TouchClaim
  <2>2. j.pc = "ready" /\ j.to = job[i][m].to /\ j.outcome = job[i][m].outcome
    BY <1>0, CopyFields
  <2>3. /\ Claimed(queue[m]).status = queue[m].status
        /\ Claimed(queue[m]).to = queue[m].to
        /\ Claimed(queue[m]).last_error = queue[m].last_error
    BY <1>0, RowFields
  <2> HIDE DEF j
  <2>4. Fits(Claimed(queue[m]), j)
    BY <1>0, <1>w, <2>1, <2>2, <2>3 DEF Window
  <2> HIDE DEF Fits
  <2> QED
    BY <1>f, <1>s, <2>1, <2>4
<1>2. CASE Start(i, m, fate)
  <2> DEFINE j == [job[i][m] EXCEPT !.pc = "group"]
  <2>1. /\ job[i][m].pc = "ready"
        /\ Touch(i, m, queue[m], j, Bumped(hist[m], fate))
    BY <1>0, <1>2, TouchStart
  <2>2. j.pc = "group" /\ j.to = job[i][m].to /\ j.outcome = job[i][m].outcome
    BY <1>0, CopyFields
  <2> HIDE DEF j
  <2>3. Fits(queue[m], j)
    BY <1>0, <1>w, <2>1, <2>2 DEF Window
  <2> HIDE DEF Fits
  <2> QED
    BY <1>f, <2>1, <2>3
<1>3. CASE Release(i, m, fate)
  <2> DEFINE row == After(queue[m], Released(queue[m]), fate)
  <2>1. job[i][m].pc = "release" /\ Touch(i, m, row, NoJob, hist[m])
    BY <1>0, <1>3, TouchRelease
  <2>2. /\ Released(queue[m]).status = queue[m].status
        /\ Released(queue[m]).to = queue[m].to
        /\ Released(queue[m]).last_error = queue[m].last_error
    BY <1>0, RowFields
  <2>3. Fits(Released(queue[m]), NoJob)
    BY <1>b, <1>s, <1>w, <2>1, <2>2 DEF Window
  <2>4. row \in {queue[m], Released(queue[m])}
    BY DEF After
  <2> HIDE DEF Fits, row
  <2> QED
    BY <1>f, <1>s, <2>1, <2>3, <2>4
<1>4. CASE PruneCount(i, m, fate) \/ PruneSelect(i, m, fate)
  <2>1. /\ job[i][m].pc \in Burying /\ PruneNext(job'[i][m], fate)
        /\ Touch(i, m, queue[m], job'[i][m], hist[m])
    BY <1>0, <1>4, TouchPruneSelect
  <2>2. job'[i][m].pc \notin Working /\ job'[i][m].outcome = {}
    BY <1>b, <1>w, <2>1 DEF PruneNext
  <2>3. Fits(queue[m], job'[i][m])
    BY <1>0, <1>w, <2>1, <2>2 DEF Window
  <2> HIDE DEF Fits
  <2> QED
    BY <1>f, <2>1, <2>3
<1>5. CASE MarkDead(i, m, fate) \/ MarkDelivered(i, m, fate)
  <2>1. PICK h : Touch(i, m, queue[m], NoJob, h)
    BY <1>0, <1>5, TouchMark
  <2>2. job[i][m].pc \in {"markDead", "markDelivered"}
    BY <1>5 DEF MarkDead, MarkDelivered
  <2> HIDE DEF Fits
  <2> QED
    BY <1>f, <1>s, <2>1, <2>2
<1>6. CASE PruneDelete(i, m, fate)
  <2>1. /\ job[i][m].pc = "delete" /\ PruneNext(job'[i][m], fate)
        /\ \A n \in Msg \ {m} : job'[i][n] = job[i][n]
        /\ \A n \in Msg :
             \/ queue'[n] = queue[n]
             \/ queue[n].status = "dead" /\ queue'[n] = NoRow("pruned")
    BY <1>0, <1>6, TouchPruneDelete
  <2> SUFFICES ASSUME NEW k \in Inst, NEW n \in Msg PROVE WindowOf(k, n)'
    BY DEF Windows
  <2>2. k = i
    BY DEF OneInstance
  <2>3. /\ Window(queue[n], job[i][n], accepted[n], rejected[n], dup[n], exposed[n])
    BY DEF Windows, WindowOf
  <2>4. \/ job'[i][n] = job[i][n]
        \/ /\ job[i][n].pc = "delete"
           /\ job'[i][n].pc \notin Working /\ job'[i][n].outcome = {}
    BY <1>b, <1>w, <2>1 DEF PruneNext
  <2>5. Window(queue[n], job'[i][n], accepted[n], rejected[n], dup[n], exposed[n])
    BY <1>w, <2>3, <2>4 DEF Window
  <2>6. /\ queue[n].status = "dead" => job'[i][n].pc \notin Working
        /\ NoRow("pruned").to = {} /\ NoRow("pruned").status = "pruned"
    BY <2>5, NewFields DEF Window
  <2>7. Window(queue'[n], job'[i][n], accepted[n], rejected[n], dup[n], exposed[n])
    BY <2>1, <2>5, <2>6 DEF Window
  <2> QED
    BY <1>e, <2>2, <2>7 DEF WindowOf
<1>7. CASE ClaimFails(i, m, fate)
  <2>1. /\ job[i][m].pc = "cand"
        /\ \A n \in Msg : job'[i][n] = NoJob
        /\ \A n \in Msg : queue'[n] = queue[n] \/ queue'[n] = Claimed(queue[n])
    BY <1>0, <1>7, TouchClaimFails
  <2> SUFFICES ASSUME NEW k \in Inst, NEW n \in Msg PROVE WindowOf(k, n)'
    BY DEF Windows
  <2>2. k = i
    BY DEF OneInstance
  <2>3. /\ Window(queue[n], job[i][n], accepted[n], rejected[n], dup[n], exposed[n])
        /\ queue[n] \in Row
    BY <1>0 DEF Windows, WindowOf, TypeOK
  <2>4. job[i][n].pc \in Waiting
    BY <2>1 DEF Batches
  <2>5. /\ Claimed(queue[n]).status = queue[n].status
        /\ Claimed(queue[n]).to = queue[n].to
        /\ Claimed(queue[n]).last_error = queue[n].last_error
    BY <2>3, RowFields
  <2>6. Window(queue[n], NoJob, accepted[n], rejected[n], dup[n], exposed[n])
    BY <1>b, <1>w, <2>3, <2>4 DEF Window, Waiting
  <2>7. Window(queue'[n], NoJob, accepted[n], rejected[n], dup[n], exposed[n])
    BY <1>b, <1>w, <2>1, <2>5, <2>6 DEF Window
  <2> QED
    BY <1>e, <2>1, <2>2, <2>7 DEF WindowOf
<1> QED
  BY <1>1, <1>2, <1>3, <1>4, <1>5, <1>6, <1>7

\* Polls, stops, requests and the passing of time.
LEMMA WindowOther ==
  ASSUME OneInstance, Accounted, Windows,
         \/ \E i \in Inst : NextDue(i) \/ Crash(i)
         \/ \E m \in Msg : LeaseExpires(m) \/ BackoffElapses(m)
         \/ \E i \in Inst, m \in Msg : Request(i, m)
         \/ Retention
  PROVE  Windows'
<1> SUFFICES ASSUME NEW k \in Inst, NEW n \in Msg PROVE WindowOf(k, n)'
  BY DEF Windows
<1>0. /\ TypeOK /\ queue[n] \in Row /\ job[k][n] \in Job
      /\ Window(queue[n], job[k][n], accepted[n], rejected[n], dup[n], exposed[n])
  BY DEF Accounted, TypeOK, Windows, WindowOf
<1>b. /\ NoJob.pc = "none" /\ NoJob.outcome = {}
      /\ "none" \notin Working /\ "cand" \in Working
  BY <1>0, CopyFields DEF Working
<1>1. ASSUME NEW i \in Inst, NextDue(i) PROVE WindowOf(k, n)'
  <2>1. /\ i = k /\ UNCHANGED <<queue, accepted, rejected, dup, exposed>>
        /\ job[k][n] = NoJob
        /\ \/ job'[k][n] = NoJob
           \/ Due(queue[n]) /\ job'[k][n] = Scanned(queue[n])
    BY <1>0, <1>1, TouchNextDue DEF OneInstance
  <2>2. /\ Scanned(queue[n]).pc = "cand" /\ Scanned(queue[n]).to = queue[n].to
        /\ Scanned(queue[n]).outcome = {}
    BY <1>0, CopyFields
  <2>3. Due(queue[n]) => Window(queue[n], Scanned(queue[n]), accepted[n],
                                rejected[n], dup[n], exposed[n])
    BY <1>0, <1>b, <2>1, <2>2 DEF Window, Due
  <2> QED
    BY <1>0, <2>1, <2>3 DEF WindowOf
<1>2. ASSUME NEW i \in Inst, Crash(i) PROVE WindowOf(k, n)'
  <2>1. /\ i = k /\ UNCHANGED <<queue, accepted, rejected, dup>>
        /\ job'[k][n] = NoJob
        /\ exposed'[n] = IF job[k][n].pc = "none" THEN exposed[n]
                         ELSE exposed[n] \cup (accepted[n] \cap queue[n].to)
    BY <1>0, <1>2, TouchCrash DEF OneInstance
  <2>2. exposed[n] \subseteq exposed'[n]
    BY <2>1
  <2>3. queue[n].to \cap accepted[n] \subseteq exposed'[n]
    BY <1>0, <2>1 DEF Window
  <2>4. Window(queue[n], NoJob, accepted[n], rejected[n], dup[n], exposed'[n])
    BY <1>0, <1>b, <2>2, <2>3 DEF Window
  <2> QED
    BY <2>1, <2>4 DEF WindowOf
<1>3. ASSUME NEW m \in Msg, LeaseExpires(m) \/ BackoffElapses(m)
      PROVE  WindowOf(k, n)'
  <2>1. /\ UNCHANGED <<job, accepted, rejected, dup, exposed>>
        /\ \/ queue'[n] = queue[n]
           \/ queue'[n] = [queue[n] EXCEPT !.lease = "free"]
           \/ queue'[n] = [queue[n] EXCEPT !.next_attempt = "due"]
    BY <1>0, <1>3, TouchTime
  <2>2. /\ queue'[n].status = queue[n].status /\ queue'[n].to = queue[n].to
        /\ queue'[n].last_error = queue[n].last_error
    BY <1>0, <2>1 DEF Row
  <2>3. Window(queue'[n], job[k][n], accepted[n], rejected[n], dup[n], exposed[n])
    BY <1>0, <2>2 DEF Window
  <2> QED
    BY <2>1, <2>3 DEF WindowOf
<1>4. ASSUME NEW i \in Inst, NEW m \in Msg, Request(i, m) PROVE WindowOf(k, n)'
  <2>1. PICK fate \in Fate : \/ Record(i, m, fate) \/ EnqueueWithID(i, m, fate)
                             \/ RequeueDead(i, m, fate) \/ MarkQueued(i, m, fate)
    BY <1>4 DEF Request
  <2>2. UNCHANGED <<job, accepted, rejected, dup, exposed>>
    BY <1>0, <2>1, TouchRequest
  <2>3. \/ queue'[n] = queue[n]
        \/ queue'[n] = Inserted(n) /\ n \in submitting[i]
        \/ queue'[n] = Requeued(queue[n]) /\ queue[n].status = "dead"
    BY <1>0, <2>1, TouchRequest DEF Quiet, After
  <2>4. n \in submitting[i] => /\ queue[n].status = "none"
                               /\ job[k][n].pc \notin Working
    BY DEF Accounted, Submissions, InEnvelope
  <2>5. n \in submitting[i] =>
          Window(Inserted(n), job[k][n], accepted[n], rejected[n], dup[n], exposed[n])
    BY <1>0, <2>4, NewFields DEF Window
  <2>6. queue[n].status = "dead" =>
          Window(Requeued(queue[n]), job[k][n], accepted[n], rejected[n], dup[n],
                 exposed[n])
    BY <1>0, RowFields DEF Window
  <2>7. Window(queue'[n], job[k][n], accepted[n], rejected[n], dup[n], exposed[n])
    BY <1>0, <2>3, <2>5, <2>6
  <2> QED
    BY <2>2, <2>7 DEF WindowOf
<1>5. CASE Retention
  BY <1>0, <1>5, TouchRetention DEF WindowOf
<1> QED
  BY <1>1, <1>2, <1>3, <1>4, <1>5

\* No step of the one instance opens another window for a duplicate.
LEMMA WindowsNext ==
  ASSUME OneInstance
  PROVE  Accounted /\ LeaseSound /\ Batches /\ Windows /\ [Next]_vars => Windows'
<1> SUFFICES ASSUME Accounted, LeaseSound, Batches, Windows, [Next]_vars
             PROVE  Windows'
  OBVIOUS
<1>1. CASE UNCHANGED vars
  BY <1>1 DEF vars, outside, Windows, WindowOf
<1>2. ASSUME NEW i \in Inst, NEW m \in Msg, JobStep(i, m) PROVE Windows'
  <2>1. CASE GroupAnswered(i, m) \/ GroupFailed(i, m)
    BY <2>1, WindowGroup
  <2>2. ASSUME NEW fate \in Fate,
               \/ PersistProgress(i, m, fate) \/ Postpone(i, m, fate)
               \/ GiveUp(i, m, fate) \/ RejectAll(i, m, fate) \/ Succeed(i, m, fate)
        PROVE  Windows'
    BY <2>2, WindowEnd
  <2>3. ASSUME NEW fate \in Fate,
               \/ Claim(i, m) \/ ClaimFails(i, m, fate) \/ Start(i, m, fate)
               \/ Release(i, m, fate) \/ PruneCount(i, m, fate)
               \/ PruneSelect(i, m, fate) \/ PruneDelete(i, m, fate)
               \/ MarkDead(i, m, fate) \/ MarkDelivered(i, m, fate)
        PROVE  Windows'
    BY <2>3, WindowQuiet
  <2>4. "ok" \in Fate
    BY DEF Fate
  <2> QED
    BY <1>2, <2>1, <2>2, <2>3, <2>4 DEF JobStep
<1> QED
  BY <1>1, <1>2, WindowOther DEF Next, Deliverer

\* Windows holds with the invariants it rests on.
LEMMA AlwaysWindows == OneInstance => (Spec => []Windows)
<1> SUFFICES ASSUME OneInstance PROVE Spec => []Windows
  OBVIOUS
<1>1. Init => Batches /\ Windows
  <2> SUFFICES ASSUME Init PROVE Batches /\ Windows
    OBVIOUS
  <2>1. Batches
    BY DEF Init, Batches, NoJob, Tail
  <2>2. ASSUME NEW i \in Inst, NEW n \in Msg PROVE WindowOf(i, n)
    <3>1. /\ queue[n] = NoRow("none") /\ job[i][n] = NoJob /\ accepted[n] = {}
          /\ rejected[n] = {} /\ dup[n] = {} /\ exposed[n] = {}
      BY DEF Init
    <3> QED
      BY <3>1 DEF WindowOf, Window, NoRow, NoJob, Tail, Working
  <2> QED
    BY <2>1, <2>2 DEF Windows
<1>2. /\ Accounted => TypeOK
      /\ Accounted /\ Accounted' => TypeOK /\ TypeOK'
  BY DEF Accounted
<1> QED
  BY <1>1, <1>2, AlwaysAccounted, LeaseInit, LeaseNext, BatchesNext, WindowsNext,
     PTL DEF Spec

\* With one instance a recipient is sent a message again only inside the
\* at-least-once window: a stop, a failed statement or a lost answer between
\* the MX's acceptance and the row's update.
THEOREM DuplicatesOnlyInWindow == OneInstance => (Spec => []DuplicateWindow)
<1> SUFFICES ASSUME OneInstance PROVE Spec => []DuplicateWindow
  OBVIOUS
<1>1. Windows => DuplicateWindow
  BY DEF OneInstance, Windows, WindowOf, Window, DuplicateWindow
<1> QED
  BY <1>1, AlwaysWindows, PTL

\* With one instance a row that died because everybody rejected it asks a
\* retry only for recipients that were refused, and one of them has the
\* message only inside the at-least-once window.
THEOREM RejectedAlwaysRefused == OneInstance => (Spec => []RejectedWereRefused)
<1> SUFFICES ASSUME OneInstance PROVE Spec => []RejectedWereRefused
  OBVIOUS
<1>1. Windows => RejectedWereRefused
  <2> SUFFICES ASSUME Windows, NEW m \in Msg, queue[m].status = "dead",
                      queue[m].last_error = "rejected"
               PROVE  /\ queue[m].to \subseteq rejected[m]
                      /\ queue[m].to \cap accepted[m] \subseteq exposed[m]
    BY DEF RejectedWereRefused
  <2>1. PICK i \in Inst : TRUE
    BY DEF OneInstance
  <2>2. Window(queue[m], job[i][m], accepted[m], rejected[m], dup[m], exposed[m])
    BY DEF Windows, WindowOf
  <2>3. job[i][m].pc \notin {"persist", "resolve"}
    BY <2>2 DEF Window, Working
  <2> QED
    BY <2>2, <2>3 DEF Window
<1> QED
  BY <1>1, AlwaysWindows, PTL

----------------------------------------------------------------------------
(***************************************************************************)
(* The panel's history.  While nothing has failed, where the goroutine of  *)
(* a message is tells what the queue and the history say of it: both that  *)
(* it is queued while it is being delivered, only the queue that it ended  *)
(* until the goroutine has told the history.  A retry loosens this (r): it *)
(* changes the row first, then the entry, and the goroutine that buried    *)
(* the row, or the one that delivers it again, may come in between.  An    *)
(* entry that was pruned says nothing.                                     *)
(***************************************************************************)
Smooth == crashes = 0 /\ faults = 0

Retried == requeues > 0

\* What the history may say of a message that is being delivered.
Awaiting(h, r) == h \in {"queued", "pruned"} \/ (r /\ h = "dead")

Agree(q, h, r) ==
  \/ h = q
  \/ h = "delivered" /\ q = "done"
  \/ h = "dead" /\ q = "pruned"
  \/ h = "pruned" /\ q # "none"
  \/ r /\ h = "queued" /\ q # "none"
  \/ r /\ h = "dead" /\ q = "queued"

\* sub tells whether the message is recorded and still to be inserted.
SyncAt(pc, q, h, sub, r) ==
  /\ sub => q = "none" /\ h \in {"queued", "pruned"}
  /\ pc \in Working \cup {"release"} => q = "queued" /\ Awaiting(h, r)
  /\ pc \in Burying => q \in {"dead", "pruned"} \/ (r /\ q = "queued")
  /\ pc = "markDelivered" => q = "done"
  /\ pc = "none" => Agree(q, h, r) \/ sub

Submitted(n) == \E k \in Inst : n \in submitting[k]

SyncOf(i, n) ==
  /\ SyncAt(job[i][n].pc, queue[n].status, hist[n].status, Submitted(n), Retried)
  /\ n \in retrying[i] => Retried /\ queue[n].status # "none"

Synced == Smooth => \A i \in Inst, n \in Msg : SyncOf(i, n)

\* A step of a goroutine that leaves its own message in order.
LEMMA SyncTouch ==
  ASSUME OneInstance, Synced, Smooth, NEW i \in Inst, NEW m \in Msg,
         NEW row, NEW j, NEW h, Touch(i, m, row, j, h), row.status # "none",
         SyncAt(j.pc, row.status, h.status, Submitted(m), Retried)
  PROVE  Synced'
<1> SUFFICES ASSUME NEW k \in Inst, NEW n \in Msg PROVE SyncOf(k, n)'
  BY DEF Synced
<1>1. /\ k = i /\ UNCHANGED <<submitting, retrying>> /\ SyncOf(k, n)
      /\ Retried' <=> Retried
  BY DEF OneInstance, Touch, Synced, Retried
<1>2. CASE n = m
  <2>1. n \in retrying'[k] => Retried
    BY <1>1 DEF SyncOf
  <2> QED
    BY <1>1, <1>2, <2>1 DEF SyncOf, Submitted, Touch, SyncAt, Awaiting, Agree
<1>3. CASE n # m
  BY <1>1, <1>3 DEF SyncOf, Submitted, Touch, Quiet, SyncAt, Awaiting, Agree
<1> QED
  BY <1>2, <1>3

\* The steps of a delivery, none of which has failed.
LEMMA SyncDeliver ==
  ASSUME OneInstance, Accounted, Recorded, Synced, Smooth,
         NEW i \in Inst, NEW m \in Msg,
         \/ Claim(i, m) \/ GroupAnswered(i, m) \/ GroupFailed(i, m)
         \/ Start(i, m, "ok") \/ PersistProgress(i, m, "ok")
         \/ Postpone(i, m, "ok") \/ Release(i, m, "ok")
         \/ GiveUp(i, m, "ok") \/ RejectAll(i, m, "ok") \/ Succeed(i, m, "ok")
         \/ PruneCount(i, m, "ok") \/ PruneSelect(i, m, "ok")
         \/ MarkDead(i, m, "ok") \/ MarkDelivered(i, m, "ok")
  PROVE  Synced'
<1> DEFINE q == queue[m].status
           h == hist[m].status
           sub == Submitted(m)
           at(pc) == [job[i][m] EXCEPT !.pc = pc]
<1>0. /\ TypeOK /\ queue[m] \in Row /\ job[i][m] \in Job
      /\ hist[m] \in [status : EntryStatus, attempts : Nat]
      /\ SyncAt(job[i][m].pc, q, h, sub, Retried)
      /\ q # "none" => h # "none"
  BY DEF Accounted, TypeOK, Synced, SyncOf, Recorded, RecordedOf, Smooth
<1>w. /\ {"cand", "ready", "group", "retry", "persist", "resolve"} \subseteq Working
      /\ {"none", "release", "markDelivered"} \cap (Working \cup Burying) = {}
      /\ Burying \cap Working = {} /\ {"count", "markDead"} \subseteq Burying
      /\ "release" \notin Burying
  BY DEF Working, Burying
<1>b. /\ NoJob.pc = "none" /\ \A pc : at(pc).pc = pc /\ Tail(pc).pc = pc
  BY <1>0, CopyFields
\* What the two tables say while the delivery lasts.
<1>q. job[i][m].pc \in Working \cup {"release"} =>
        q = "queued" /\ Awaiting(h, Retried) /\ ~sub
  BY <1>0 DEF SyncAt
<1>f. ASSUME NEW row, NEW j, NEW e, Touch(i, m, row, j, e), row.status # "none",
             SyncAt(j.pc, row.status, e.status, sub, Retried)
      PROVE  Synced'
  BY <1>f, SyncTouch
<1>g. ASSUME NEW row, NEW j, NEW e, Touch(i, m, row, j, e),
             job[i][m].pc \in Working \cup {"release"},
             row.status = "queued", Awaiting(e.status, Retried),
             j.pc \in Working \cup {"release", "none"}
      PROVE  Synced'
  <2>1. SyncAt(j.pc, row.status, e.status, sub, Retried)
    BY <1>g, <1>q, <1>w DEF SyncAt, Agree, Awaiting
  <2> HIDE DEF sub
  <2> QED
    BY <1>f, <1>g, <2>1
<1>1. CASE Claim(i, m)
  <2>1. /\ job[i][m].pc = "cand"
        /\ \/ Touch(i, m, Claimed(queue[m]), at("ready"), hist[m])
           \/ Touch(i, m, queue[m], NoJob, hist[m])
    BY <1>0, <1>1, TouchClaim
  <2>2. Claimed(queue[m]).status = q
    BY <1>0, RowFields
  <2> HIDE DEF at
  <2> QED
    BY <1>b, <1>g, <1>q, <1>w, <2>1, <2>2
<1>2. CASE GroupAnswered(i, m)
  <2>1. PICK G, D : Touch(i, m, queue[m], Answered(job[i][m], G, D), hist[m])
    BY <1>0, <1>2, TouchAnswered
  <2>2. job[i][m].pc = "group"
    BY <1>0, <1>2, TouchAnswered
  <2>3. Answered(job[i][m], G, D).pc \in Working
    BY <1>0, <1>w, AnsweredFields
  <2> QED
    BY <1>g, <1>q, <1>w, <2>1, <2>2, <2>3
<1>3. CASE GroupFailed(i, m)
  <2>1. job[i][m].pc = "group" /\ Touch(i, m, queue[m], at("retry"), hist[m])
    BY <1>0, <1>3, TouchFailed
  <2> HIDE DEF at
  <2> QED
    BY <1>b, <1>g, <1>q, <1>w, <2>1
<1>4. CASE Start(i, m, "ok")
  <2>1. /\ job[i][m].pc = "ready"
        /\ Touch(i, m, queue[m], at("group"), Bumped(hist[m], "ok"))
    BY <1>0, <1>4, TouchStart
  <2>2. Bumped(hist[m], "ok").status = h
    BY <1>0 DEF Bumped
  <2> HIDE DEF at
  <2> QED
    BY <1>b, <1>g, <1>q, <1>w, <2>1, <2>2
<1>5. CASE PersistProgress(i, m, "ok")
  <2> DEFINE row == Persisted(queue[m], job[i][m].to, job[i][m].permanent,
                              job[i][m].attempts, "due", job[i][m].last_error)
  <2>1. job[i][m].pc = "persist" /\ Touch(i, m, row, at("group"), hist[m])
    BY <1>0, <1>5, TouchPersist DEF After
  <2>2. row.status = q
    BY <1>0, SameAbsence
  <2> HIDE DEF at, row
  <2> QED
    BY <1>b, <1>g, <1>q, <1>w, <2>1, <2>2
<1>6. CASE Postpone(i, m, "ok")
  <2> DEFINE row == Persisted(queue[m], job[i][m].to, job[i][m].permanent,
                              job[i][m].attempts + 1, "later", "transient")
  <2>1. job[i][m].pc = "retry" /\ Touch(i, m, row, Tail("release"), hist[m])
    BY <1>0, <1>6, TouchPostpone DEF After
  <2>2. row.status = q
    BY <1>0, SameAbsence
  <2> HIDE DEF row
  <2> QED
    BY <1>b, <1>g, <1>q, <1>w, <2>1, <2>2
<1>7. CASE Release(i, m, "ok")
  <2>1. job[i][m].pc = "release" /\ Touch(i, m, Released(queue[m]), NoJob, hist[m])
    BY <1>0, <1>7, TouchRelease DEF After
  <2>2. Released(queue[m]).status = q
    BY <1>0, RowFields
  <2> QED
    BY <1>b, <1>g, <1>q, <1>w, <2>1, <2>2
<1>8. CASE GiveUp(i, m, "ok") \/ RejectAll(i, m, "ok")
  <2>1. PICK err : Touch(i, m, Buried(queue[m], err), AfterBury("ok"), hist[m])
    BY <1>0, <1>8, TouchBury DEF After
  <2>2. job[i][m].pc \in Working
    BY <1>8, <1>w DEF GiveUp, RejectAll
  <2>3. Buried(queue[m], err).status = "dead"
    BY <1>0, <1>q, <2>2, RowFields DEF Present
  <2>4. AfterBury("ok").pc \in Burying
    BY <1>w, AfterBuryFields
  <2>5. SyncAt(AfterBury("ok").pc, "dead", h, sub, Retried)
    <3> HIDE DEF h, q, sub
    <3> QED
      BY <1>q, <1>w, <2>2, <2>4 DEF SyncAt
  <2> HIDE DEF sub
  <2> QED
    BY <1>f, <2>1, <2>3, <2>5
<1>9. CASE Succeed(i, m, "ok")
  <2>1. /\ job[i][m].pc = "resolve"
        /\ Touch(i, m, Succeeded(queue[m]), Tail("markDelivered"), hist[m])
    BY <1>0, <1>9, TouchSucceed DEF After
  <2>2. Succeeded(queue[m]).status = "done"
    BY <1>q, <1>w, <2>1, NewFields DEF Succeeded
  <2>3. SyncAt("markDelivered", "done", h, sub, Retried)
    BY <1>q, <1>w, <2>1 DEF SyncAt, Working, Burying
  <2> HIDE DEF sub
  <2> QED
    BY <1>b, <1>f, <2>1, <2>2, <2>3
<1>10. CASE PruneCount(i, m, "ok") \/ PruneSelect(i, m, "ok")
  <2>1. /\ job[i][m].pc \in Burying /\ job'[i][m].pc \in Burying
        /\ Touch(i, m, queue[m], job'[i][m], hist[m])
    BY <1>0, <1>10, TouchPruneSelect DEF PruneNext
  <2>2. SyncAt(job'[i][m].pc, q, h, sub, Retried) /\ q # "none"
    BY <1>0, <2>1 DEF SyncAt, Working, Burying
  <2> HIDE DEF sub
  <2> QED
    BY <1>f, <2>1, <2>2
<1>11. CASE MarkDead(i, m, "ok") \/ MarkDelivered(i, m, "ok")
  <2>1. PICK s \in {"dead", "delivered"} :
          /\ Touch(i, m, queue[m], NoJob, Marked(hist[m], s, "ok"))
          /\ \/ job[i][m].pc = "markDead" /\ s = "dead"
             \/ job[i][m].pc = "markDelivered" /\ s = "delivered"
    BY <1>0, <1>11, TouchMark
  <2>2. /\ \/ q \in {"dead", "pruned"} /\ s = "dead"
           \/ Retried /\ q = "queued" /\ s = "dead"
           \/ q = "done" /\ s = "delivered"
        /\ ~sub
    BY <1>0, <1>w, <2>1 DEF SyncAt
  <2>3. Marked(hist[m], s, "ok").status \in {s, "pruned"}
    BY <1>0, <2>2 DEF Marked, Logged
  <2>4. ASSUME NEW e \in {s, "pruned"} PROVE SyncAt("none", q, e, sub, Retried)
    BY <1>w, <2>2 DEF SyncAt, Agree, Working, Burying
  <2>5. q # "none"
    BY <2>2
  <2> HIDE DEF sub
  <2> QED
    BY <1>b, <1>f, <2>1, <2>3, <2>4, <2>5
<1> QED
  BY <1>1, <1>2, <1>3, <1>4, <1>5, <1>6, <1>7, <1>8, <1>9, <1>10, <1>11

\* pruneDead deletes dead rows, its own message's or others'.
LEMMA SyncDelete ==
  ASSUME OneInstance, TypeOK, Synced, Smooth, NEW i \in Inst, NEW m \in Msg,
         PruneDelete(i, m, "ok")
  PROVE  Synced'
<1>1. /\ job[i][m].pc = "delete" /\ PruneNext(job'[i][m], "ok")
      /\ UNCHANGED <<hist, submitting, retrying>>
      /\ \A n \in Msg \ {m} : job'[i][n] = job[i][n]
      /\ \A n \in Msg :
           \/ queue'[n] = queue[n]
           \/ queue[n].status = "dead" /\ queue'[n] = NoRow("pruned")
  BY TouchPruneDelete
<1>r. Retried' <=> Retried
  BY DEF PruneDelete, Retried
<1> SUFFICES ASSUME NEW k \in Inst, NEW n \in Msg PROVE SyncOf(k, n)'
  BY DEF Synced
<1>2. k = i
  BY DEF OneInstance
<1>3. /\ SyncAt(job[i][n].pc, queue[n].status, hist[n].status, Submitted(n), Retried)
      /\ n \in retrying[i] => Retried /\ queue[n].status # "none"
  BY DEF Synced, SyncOf
<1>4. \/ job'[i][n] = job[i][n]
      \/ job[i][n].pc \in Burying /\ job'[i][n].pc \in Burying
  BY <1>1 DEF PruneNext, Burying
<1>5. SyncAt(job'[i][n].pc, queue[n].status, hist[n].status, Submitted(n), Retried)
  BY <1>3, <1>4 DEF SyncAt, Working, Burying
<1>6. SyncAt(job'[i][n].pc, queue'[n].status, hist[n].status, Submitted(n), Retried')
  BY <1>1, <1>5, <1>r, NewFields DEF SyncAt, Agree, Awaiting
<1>7. n \in retrying'[i] => Retried' /\ queue'[n].status # "none"
  BY <1>1, <1>3, <1>r, NewFields
<1> QED
  BY <1>1, <1>2, <1>6, <1>7 DEF SyncOf, Submitted

\* Polls, requests, the passing of time and the retention of the history.
LEMMA SyncOther ==
  ASSUME OneInstance, Accounted, Synced, Smooth, Smooth',
         \/ \E i \in Inst : NextDue(i)
         \/ \E m \in Msg : LeaseExpires(m) \/ BackoffElapses(m)
         \/ \E i \in Inst, m \in Msg : Request(i, m)
         \/ Retention
  PROVE  Synced'
<1> SUFFICES ASSUME NEW k \in Inst, NEW n \in Msg PROVE SyncOf(k, n)'
  BY DEF Synced
<1> DEFINE pc == job[k][n].pc
           q == queue[n].status
           h == hist[n].status
           sub == Submitted(n)
<1>0. /\ TypeOK /\ queue[n] \in Row /\ job[k][n] \in Job /\ pc \in PC
      /\ requeues \in Nat
      /\ SyncAt(pc, q, h, sub, Retried)
      /\ n \in retrying[k] => Retried /\ q # "none"
  BY DEF Accounted, TypeOK, Job, Synced, SyncOf
<1>1. ASSUME NEW i \in Inst, NextDue(i) PROVE SyncOf(k, n)'
  <2>1. /\ i = k /\ UNCHANGED <<queue, hist, submitting, retrying, requeues>>
        /\ job[k][n] = NoJob
        /\ \/ job'[k][n] = NoJob
           \/ q = "queued" /\ job'[k][n] = Scanned(queue[n])
    BY <1>0, <1>1, TouchNextDue DEF OneInstance, Due
  <2>2. NoJob.pc = "none" /\ Scanned(queue[n]).pc = "cand"
    BY <1>0, CopyFields
  <2>3. SyncAt(job'[k][n].pc, q, h, sub, Retried)
    <3>1. SyncAt("none", q, h, sub, Retried)
      BY <1>0, <2>1, <2>2
    <3> HIDE DEF h, q, sub
    <3>2. q = "queued" => SyncAt("cand", q, h, sub, Retried)
      BY <3>1 DEF SyncAt, Agree, Awaiting, Working, Burying
    <3> QED
      BY <2>1, <2>2, <3>1, <3>2
  <2> QED
    BY <1>0, <2>1, <2>3 DEF SyncOf, Submitted, Retried
<1>2. ASSUME NEW m \in Msg, LeaseExpires(m) \/ BackoffElapses(m)
      PROVE  SyncOf(k, n)'
  <2>1. /\ UNCHANGED <<job, hist, submitting, retrying, requeues>>
        /\ \/ queue'[n] = queue[n]
           \/ queue'[n] = [queue[n] EXCEPT !.lease = "free"]
           \/ queue'[n] = [queue[n] EXCEPT !.next_attempt = "due"]
    BY <1>0, <1>2, TouchTime
  <2>2. queue'[n].status = queue[n].status
    BY <1>0, <2>1 DEF Row
  <2> QED
    BY <1>0, <2>1, <2>2 DEF SyncOf, Submitted, Retried
<1>3. ASSUME NEW i \in Inst, NEW m \in Msg, Request(i, m) PROVE SyncOf(k, n)'
  <2>1. PICK fate \in Fate : \/ Record(i, m, fate) \/ EnqueueWithID(i, m, fate)
                             \/ RequeueDead(i, m, fate) \/ MarkQueued(i, m, fate)
    BY <1>3 DEF Request
  <2>2. job' = job /\ i = k /\ Statement(fate)
    BY <1>0, <2>1, TouchRequest DEF OneInstance
  <2>3. fate = "ok"
    BY <2>2 DEF Statement, Smooth
  <2>4. requeues' \in {requeues, requeues + 1}
    BY <1>0, <2>1, TouchRequest
  <2>5. Retried => Retried'
    BY <1>0, <2>4 DEF Retried
  <2>6. CASE n # m
    <3>1. Quiet(n)
      BY <1>0, <2>1, <2>6, TouchRequest
    <3>2. SyncAt(pc, q, h, sub, Retried')
      BY <1>0, <2>5 DEF SyncAt, Agree, Awaiting
    <3>3. n \in retrying'[k] => Retried' /\ q # "none"
      BY <1>0, <2>5, <3>1 DEF Quiet
    <3> QED
      BY <2>2, <3>1, <3>2, <3>3 DEF SyncOf, Submitted, Quiet
  <2>7. CASE n = m
    <3>1. \/ /\ q = "none" /\ queue'[n] = queue[n] /\ hist'[n] = Entry
             /\ Submitted(n)' /\ UNCHANGED <<retrying, requeues>>
          \/ /\ sub /\ queue'[n] = Inserted(n) /\ hist'[n] = hist[n]
             /\ ~Submitted(n)' /\ UNCHANGED <<retrying, requeues>>
          \/ /\ q = "dead" /\ queue'[n] = Requeued(queue[n]) /\ hist'[n] = hist[n]
             /\ requeues' = requeues + 1 /\ submitting' = submitting
          \/ /\ n \in retrying[k] /\ queue'[n] = queue[n]
             /\ hist'[n] \in {hist[n], Entry}
             /\ retrying'[k] \subseteq retrying[k]
             /\ UNCHANGED <<submitting, requeues>>
      <4>1. CASE Fresh(m)
        BY <1>0, <2>1, <2>2, <2>3, <2>7, <4>1, TouchRequest
           DEF After, Fresh, Submitted, OneInstance
      <4> QED
        BY <1>0, <2>1, <2>2, <2>3, <2>7, <4>1, TouchRequest
           DEF After, Submitted, OneInstance
    <3>2. /\ Entry.status = "queued" /\ Inserted(n).status = "queued"
          /\ Requeued(queue[n]).status = "queued"
      BY <1>0, NewFields, RowFields DEF Entry
    <3>3. q = "none" \/ sub => pc = "none" /\ q = "none"
      BY <1>0 DEF SyncAt, PC, Working, Burying
    <3>4. CASE /\ q = "none" /\ queue'[n] = queue[n] /\ hist'[n] = Entry
               /\ Submitted(n)' /\ UNCHANGED <<retrying, requeues>>
      <4>1. SyncAt("none", "none", "queued", Submitted(n)', Retried')
        BY <3>4 DEF SyncAt, Working, Burying
      <4> QED
        BY <1>0, <2>2, <3>2, <3>3, <3>4, <4>1 DEF SyncOf
    <3>5. CASE /\ sub /\ queue'[n] = Inserted(n) /\ hist'[n] = hist[n]
               /\ ~Submitted(n)' /\ UNCHANGED <<retrying, requeues>>
      <4>1. SyncAt("none", "queued", h, Submitted(n)', Retried')
        BY <1>0, <3>5 DEF SyncAt, Agree, Working, Burying
      <4> QED
        BY <1>0, <2>2, <2>5, <3>2, <3>3, <3>5, <4>1 DEF SyncOf
    <3>6. CASE /\ q = "dead" /\ queue'[n] = Requeued(queue[n]) /\ hist'[n] = hist[n]
               /\ requeues' = requeues + 1 /\ submitting' = submitting
      <4>1. Retried' /\ ~sub /\ ~Submitted(n)'
        BY <1>0, <3>6 DEF Retried, SyncAt, Submitted
      <4>2. SyncAt(pc, "queued", h, Submitted(n)', Retried')
        BY <1>0, <3>6, <4>1 DEF SyncAt, Agree, Awaiting
      <4> QED
        BY <2>2, <3>2, <3>6, <4>1, <4>2 DEF SyncOf
    <3>7. CASE /\ n \in retrying[k] /\ queue'[n] = queue[n]
               /\ hist'[n] \in {hist[n], Entry}
               /\ retrying'[k] \subseteq retrying[k]
               /\ UNCHANGED <<submitting, requeues>>
      <4>1. Retried /\ Retried' /\ q # "none" /\ ~sub /\ ~Submitted(n)'
        BY <1>0, <2>5, <3>7 DEF SyncAt, Submitted
      <4>2. hist'[n].status \in {h, "queued"}
        BY <3>2, <3>7
      <4>3. SyncAt(pc, q, hist'[n].status, Submitted(n)', Retried')
        <5> HIDE DEF h, q, sub, pc
        <5>1. SyncAt(pc, q, h, sub, Retried) /\ ~sub
          BY <1>0, <4>1
        <5>2. ASSUME NEW e \in {h, "queued"} PROVE SyncAt(pc, q, e, FALSE, TRUE)
          BY <4>1, <5>1 DEF SyncAt, Agree, Awaiting
        <5> QED
          BY <4>1, <4>2, <5>2 DEF SyncAt, Agree, Awaiting
      <4> QED
        BY <2>2, <3>7, <4>1, <4>3 DEF SyncOf
    <3> QED
      BY <3>1, <3>4, <3>5, <3>6, <3>7
  <2> QED
    BY <2>6, <2>7
<1>4. CASE Retention
  <2>1. /\ UNCHANGED <<queue, job, submitting, retrying, requeues>>
        /\ \/ hist'[n].status = h
           \/ h \notin {"none", "pruned"} /\ hist'[n].status = "pruned"
    BY <1>0, <1>4, TouchRetention DEF Logged, PrunedEntry
  <2> HIDE DEF h, q, sub, pc
  <2>2. SyncAt(pc, q, hist'[n].status, sub, Retried)
    BY <1>0, <2>1 DEF SyncAt, Agree, Awaiting
  <2> USE DEF h, q, sub, pc
  <2> QED
    BY <1>0, <2>1, <2>2 DEF SyncOf, Submitted, Retried
<1> QED
  BY <1>1, <1>2, <1>3, <1>4

\* Every step keeps the two tables in order.
LEMMA SyncedNext ==
  ASSUME OneInstance
  PROVE  Accounted /\ Recorded /\ Synced /\ [Next]_vars => Synced'
<1> SUFFICES ASSUME Accounted, Recorded, Synced, [Next]_vars
             PROVE  Synced'
  OBVIOUS
<1>1. CASE UNCHANGED vars
  BY <1>1 DEF vars, web, Synced, Smooth, SyncOf, Submitted, Retried
<1>2. CASE Next /\ ~Smooth'
  BY <1>2 DEF Synced
<1>3. CASE Next /\ Smooth'
  <2>1. Smooth
    BY <1>3, Counting DEF Accounted, Smooth
  <2>2. \A fate : Statement(fate) => fate = "ok"
    BY <1>3, <2>1 DEF Statement, Smooth
  <2>3. TypeOK
    BY DEF Accounted
  <2>4. ASSUME NEW i \in Inst, NEW m \in Msg, JobStep(i, m) PROVE Synced'
    <3>1. CASE Claim(i, m) \/ GroupAnswered(i, m) \/ GroupFailed(i, m)
      BY <2>1, <3>1, SyncDeliver
    <3>2. ASSUME NEW fate \in Fate,
                 \/ Start(i, m, fate) \/ PersistProgress(i, m, fate)
                 \/ GiveUp(i, m, fate) \/ Postpone(i, m, fate)
                 \/ Release(i, m, fate) \/ RejectAll(i, m, fate)
                 \/ Succeed(i, m, fate) \/ PruneCount(i, m, fate)
                 \/ PruneSelect(i, m, fate) \/ MarkDead(i, m, fate)
                 \/ MarkDelivered(i, m, fate)
          PROVE  Synced'
      <4>1. fate = "ok"
        BY <2>2, <3>2 DEF Start, PersistProgress, GiveUp, Postpone, Release,
           RejectAll, Succeed, PruneCount, PruneSelect, MarkDead, MarkDelivered
      <4> QED
        BY <2>1, <3>2, <4>1, SyncDeliver
    <3>3. ASSUME NEW fate \in Fate, PruneDelete(i, m, fate) PROVE Synced'
      <4>1. fate = "ok"
        BY <2>2, <3>3 DEF PruneDelete
      <4> QED
        BY <2>1, <2>3, <3>3, <4>1, SyncDelete
    <3>4. ASSUME NEW fate \in Fate PROVE ~ClaimFails(i, m, fate)
      BY <2>2 DEF ClaimFails
    <3> QED
      BY <2>4, <3>1, <3>2, <3>3, <3>4 DEF JobStep
  <2>5. ASSUME NEW i \in Inst PROVE ~Crash(i)
    BY <1>3, <2>1 DEF Crash, Smooth
  <2> QED
    BY <1>3, <2>1, <2>4, <2>5, SyncOther DEF Next, Deliverer
<1> QED
  BY <1>1, <1>2, <1>3

\* With one instance what PruneSendLogs has left of the panel's history agrees
\* with the queue whenever nothing is in progress and nothing has failed.  After
\* a retry the history may be behind, but shows nothing as delivered that is
\* not, and nothing delivered as dead.
THEOREM HistoryAlwaysInSync == OneInstance => (Spec => []HistoryInSync)
<1> SUFFICES ASSUME OneInstance PROVE Spec => []HistoryInSync
  OBVIOUS
<1>1. Init => Recorded /\ Synced
  <2> SUFFICES ASSUME Init PROVE Recorded /\ Synced
    OBVIOUS
  <2>1. Recorded
    BY DEF Init, Recorded, RecordedOf, NoRow, NoEntry
  <2>2. ASSUME NEW i \in Inst, NEW n \in Msg PROVE SyncOf(i, n)
    <3>1. /\ queue[n] = NoRow("none") /\ job[i][n] = NoJob /\ hist[n] = NoEntry
          /\ ~Submitted(n)
      BY DEF Init, Submitted
    <3>2. /\ NoRow("none").status = "none" /\ NoJob.pc = "none"
          /\ NoEntry.status = "none"
      BY DEF NoRow, NoJob, Tail, NoEntry
    <3> QED
      BY <3>1, <3>2 DEF Init, SyncOf, SyncAt, Agree, Working, Burying
  <2> QED
    BY <2>1, <2>2 DEF Synced
<1>2. Synced => HistoryInSync
  <2> SUFFICES ASSUME Synced, Smooth, NEW m \in Msg,
                      \A i \in Inst : Idle(i) /\ submitting[i] = {}
               PROVE  Agree(queue[m].status, hist[m].status, Retried)
    BY DEF HistoryInSync, Agree, Smooth, Retried
  <2>1. PICK i \in Inst : TRUE
    BY DEF OneInstance
  <2>2. SyncOf(i, m)
    BY DEF Synced
  <2>3. job[i][m].pc = "none" /\ ~Submitted(m)
    BY DEF Idle, NoJob, Tail, Submitted
  <2> QED
    BY <2>2, <2>3 DEF SyncOf, SyncAt
<1>3. Accounted => TypeOK
  BY DEF Accounted
<1>4. Spec => []Synced
  BY <1>1, <1>3, AlwaysAccounted, RecordedNext, SyncedNext, PTL DEF Spec
<1> QED
  BY <1>2, <1>4, PTL
=============================================================================
