--------------------------- MODULE ProcessProofs ----------------------------
(***************************************************************************)
(* What holds of one life of the process for every file and environment,   *)
(* every number of migrations, every width of a duration and any number of *)
(* sessions and failures.                                                  *)
(***************************************************************************)
EXTENDS Process, FiniteSetTheorems, SequenceTheorems, TLAPS

----------------------------------------------------------------------------
(* Which steps touch what.                                                 *)

\* The steps that touch a listener, a session or the channel.
NetStep ==
  \/ Seed \/ Select \/ StopSmtp
  \/ StopHttp("api", "stopApi", "stopPanel") \/ StopHttp("panel", "stopPanel", "stopSmtp")
  \/ \E s \in Server : Listen(s)
  \/ Accept \/ ServeConn \/ SessionEnds \/ CloseListener \/ ServeReturns

\* Every other step leaves the network alone.
LEMMA NetFrame == [Next]_vars => NetStep \/ UNCHANGED net
  BY DEF Next, Main, ReadFile, ApplyEnv, Validate, Open, CheckVersion,
    ApplyDDL, RecordVersion, StartupPrune, WaitSmtp, Exit, OtherApplies,
    OtherRecords, HourlyPrune, Signal, vars, NetStep

\* The steps of a migration.
DbStep == CheckVersion \/ ApplyDDL \/ RecordVersion \/ OtherApplies \/ OtherRecords

\* Every other step leaves the database alone.
LEMMA DbFrame == [Next]_vars => DbStep \/ UNCHANGED <<v, db>>
  BY DEF Next, Main, ReadFile, ApplyEnv, Validate, Open, Seed, StartupPrune,
    Select, StopHttp, StopSmtp, WaitSmtp, Exit, HourlyPrune, Listen, Accept,
    ServeConn, SessionEnds, CloseListener, ServeReturns, Signal, vars, DbStep

\* Only Load changes the configuration, and the input is what it is.
LEMMA CfgFrame == [Next]_vars => ReadFile \/ ApplyEnv \/ Validate \/ UNCHANGED cfg
  BY DEF Next, Main, Open, CheckVersion, ApplyDDL, RecordVersion, Seed,
    StartupPrune, Select, StopHttp, StopSmtp, WaitSmtp, Exit, OtherApplies,
    OtherRecords, HourlyPrune, Listen, Accept, ServeConn, SessionEnds,
    CloseListener, ServeReturns, Signal, vars

\* Nobody changes the file or the environment of a life.
LEMMA InputFrame == [Next]_vars => UNCHANGED input
  BY DEF Next, Main, ReadFile, ApplyEnv, Validate, Open, CheckVersion,
    ApplyDDL, RecordVersion, Seed, StartupPrune, Select, StopHttp, StopSmtp,
    WaitSmtp, Exit, OtherApplies, OtherRecords, HourlyPrune, Listen, Accept,
    ServeConn, SessionEnds, CloseListener, ServeReturns, Signal, vars

\* The goroutines beside main change its place only by a signal.
LEMMA PcFrame == [Next]_vars => Main \/ Signal \/ UNCHANGED pc
  BY DEF Next, ReadFile, ApplyEnv, Validate, Open, CheckVersion, ApplyDDL,
    RecordVersion, Seed, StartupPrune, Select, StopHttp, StopSmtp, WaitSmtp,
    Exit, OtherApplies, OtherRecords, HourlyPrune, Listen, Accept, ServeConn,
    SessionEnds, CloseListener, ServeReturns, vars

PrunedNow ==
  LET days == cfg.num["send_history_days"] IN days > 0 /\ history' = Pruned(days)

\* How a step may change the rest.
LEMMA RestFrame ==
  [Next]_vars => /\ faults' = faults \/ (faults < MaxFaults /\ faults' = faults + 1)
                 /\ history' = history \/ PrunedNow
                 /\ signalled' = signalled \/ signalled' = TRUE
                 /\ shut' = shut \/ StopSmtp \/ WaitSmtp
<1>1. SUFFICES ASSUME [Next]_vars
      PROVE  /\ faults' = faults \/ (faults < MaxFaults /\ faults' = faults + 1)
             /\ history' = history \/ PrunedNow
             /\ signalled' = signalled \/ signalled' = TRUE
             /\ shut' = shut \/ StopSmtp \/ WaitSmtp
  OBVIOUS
<1>2. faults' = faults \/ (faults < MaxFaults /\ faults' = faults + 1)
  BY <1>1 DEF Next, Main, ReadFile, ApplyEnv, Validate, Open, CheckVersion,
    ApplyDDL, RecordVersion, Seed, StartupPrune, Select, StopHttp, StopSmtp,
    WaitSmtp, Exit, OtherApplies, OtherRecords, HourlyPrune, Listen, Accept,
    ServeConn, SessionEnds, CloseListener, ServeReturns, Signal, vars, Works, Fails, Prune
<1>3. history' = history \/ PrunedNow
  BY <1>1 DEF Next, Main, ReadFile, ApplyEnv, Validate, Open, CheckVersion,
    ApplyDDL, RecordVersion, Seed, StartupPrune, Select, StopHttp, StopSmtp,
    WaitSmtp, Exit, OtherApplies, OtherRecords, HourlyPrune, Listen, Accept,
    ServeConn, SessionEnds, CloseListener, ServeReturns, Signal, vars, Prune, PrunedNow
<1>4. signalled' = signalled \/ signalled' = TRUE
  BY <1>1 DEF Next, Main, ReadFile, ApplyEnv, Validate, Open, CheckVersion,
    ApplyDDL, RecordVersion, Seed, StartupPrune, Select, StopHttp, StopSmtp,
    WaitSmtp, Exit, OtherApplies, OtherRecords, HourlyPrune, Listen, Accept,
    ServeConn, SessionEnds, CloseListener, ServeReturns, Signal, vars
<1>5. shut' = shut \/ StopSmtp \/ WaitSmtp
  BY <1>1 DEF Next, Main, ReadFile, ApplyEnv, Validate, Open, CheckVersion,
    ApplyDDL, RecordVersion, Seed, StartupPrune, Select, StopHttp, Exit,
    OtherApplies, OtherRecords, HourlyPrune, Listen, Accept, ServeConn,
    SessionEnds, CloseListener, ServeReturns, Signal, vars
<1>q. QED
  BY <1>2, <1>3, <1>4, <1>5

----------------------------------------------------------------------------
(* The migrations.  LeftOver is not inductive alone: a version is recorded *)
(* after all earlier ones, it is not recorded twice unless another instance*)
(* is at work, and with MySQL its table is there before its record.        *)

Schema ==
  /\ LeftOver
  /\ v \in 1..NVersions + 1
  /\ 1..v - 1 \subseteq recorded
  /\ pc \in {"ddl", "record"} => v \in Version /\ (v \notin recorded \/ MySQL)
  /\ pc = "record" /\ MySQL => v \in tables
  /\ pc \in {"seed"} \cup Running => v = NVersions + 1

\* The two forms of what is left, without Min.
Left(k, t, r) ==
  /\ k \in 0..NVersions /\ r = 1..k
  /\ t = 1..k \/ (k < NVersions /\ t = 1..k + 1)

\* The minimum in LeftOver is one of two numbers.
LEMMA MinNext == \A k \in 0..NVersions :
  Min({k + 1, NVersions}) = IF k < NVersions THEN k + 1 ELSE NVersions
<1>1. SUFFICES ASSUME NEW k \in 0..NVersions
      PROVE  Min({k + 1, NVersions}) = IF k < NVersions THEN k + 1 ELSE NVersions
  OBVIOUS
<1>2. NVersions \in Nat /\ k \in Nat
  BY ProcessAssumption
<1> DEFINE m == IF k < NVersions THEN k + 1 ELSE NVersions
<1>3. m \in {k + 1, NVersions} /\ \A y \in {k + 1, NVersions} : m <= y
  BY <1>2
<1>4. \A x : x \in {k + 1, NVersions} /\ (\A y \in {k + 1, NVersions} : x <= y) => x = m
  BY <1>2
<1>q. QED
  BY <1>3, <1>4 DEF Min

\* LeftOver is Left for some k.
LEMMA LeftIs == \A t, r :
  (\E k \in 0..NVersions : r = 1..k /\ t \in {1..k, 1..Min({k + 1, NVersions})})
    <=> \E k \in 0..NVersions : Left(k, t, r)
<1>1. ASSUME NEW t, NEW r, NEW k \in 0..NVersions
      PROVE  (r = 1..k /\ t \in {1..k, 1..Min({k + 1, NVersions})}) <=> Left(k, t, r)
  <2>1. NVersions \in Nat /\ k \in Nat /\ k <= NVersions
    BY ProcessAssumption
  <2>2. CASE k < NVersions
    <3>1. Min({k + 1, NVersions}) = k + 1
      BY <2>2, MinNext
    <3>q. QED
      BY <2>1, <2>2, <3>1 DEF Left
  <2>3. CASE ~(k < NVersions)
    <3>1. Min({k + 1, NVersions}) = NVersions /\ k = NVersions
      BY <2>1, <2>3, MinNext
    <3>q. QED
      BY <2>1, <2>3, <3>1 DEF Left
  <2>q. QED
    BY <2>2, <2>3
<1>q. QED
  BY <1>1

\* What is left in the database are versions.
LEMMA LeftVersions == \A t, r : \A k \in 0..NVersions :
  Left(k, t, r) => t \subseteq Version /\ r \subseteq Version
  BY ProcessAssumption DEF Left, Version

\* A prefix of the versions that has all before n, and not n, ends there.
LEMMA NextVersion ==
  ASSUME NEW k \in Nat, NEW n \in Nat \ {0}, 1..n - 1 \subseteq 1..k, n \notin 1..k
  PROVE  n = k + 1
<1>1. n > k
  OBVIOUS
<1>2. n = 1 \/ n - 1 \in 1..n - 1
  OBVIOUS
<1>3. n = 1 \/ n - 1 <= k
  BY <1>2
<1>q. QED
  BY <1>1, <1>3

\* Every life starts with what one can leave.
LEMMA SchemaInit == Init => Schema
<1>1. SUFFICES ASSUME Init PROVE Schema
  OBVIOUS
<1>2. LeftOver /\ v = 1 /\ pc = "file"
  BY <1>1 DEF Init
<1>q. QED
  BY <1>2, ProcessAssumption DEF Schema, Running

\* No step of this or of another instance spoils the database.
LEMMA SchemaNext == Schema /\ [Next]_vars => Schema'
<1>1. SUFFICES ASSUME Schema, [Next]_vars PROVE Schema'
  OBVIOUS
<1>2. PICK k \in 0..NVersions : Left(k, tables, recorded)
  BY <1>1, LeftIs DEF Schema, LeftOver
<1>3. /\ NVersions \in Nat \ {0} /\ k \in Nat /\ k <= NVersions
      /\ recorded = 1..k
      /\ tables = 1..k \/ (k < NVersions /\ tables = 1..k + 1)
      /\ v \in 1..NVersions + 1
      /\ 1..v - 1 \subseteq recorded
      /\ pc \in {"ddl", "record"} => v \in Version /\ (v \notin recorded \/ MySQL)
      /\ pc = "record" /\ MySQL => v \in tables
      /\ pc \in {"seed"} \cup Running => v = NVersions + 1
  BY <1>1, <1>2, ProcessAssumption DEF Schema, Left
<1>4. ASSUME NEW j \in 0..NVersions, Left(j, tables', recorded') PROVE LeftOver'
  BY <1>4, LeftIs DEF LeftOver
<1>5. CASE UNCHANGED <<v, db>> /\ ~DbStep
  <2>1. LeftOver' /\ v' = v /\ recorded' = recorded /\ tables' = tables
    BY <1>1, <1>5 DEF Schema, LeftOver, db
  <2>2. UNCHANGED cfg \/ pc' \notin {"ddl", "record"}
    BY <1>1, CfgFrame DEF ReadFile, ApplyEnv, Validate, Goto
  <2>3. UNCHANGED pc \/ pc' \notin {"ddl", "record"}
    BY <1>1, <1>5, PcFrame DEF Main, Signal, ReadFile, ApplyEnv, Validate, Open, Seed, StartupPrune,
      Select, StopHttp, StopSmtp, WaitSmtp, Exit, Goto, DbStep
  <2>4. pc' \in {"seed"} \cup Running => pc \in {"seed"} \cup Running
    BY <1>1, <1>5, PcFrame DEF Main, Signal, ReadFile, ApplyEnv, Validate, Open, Seed, StartupPrune,
      Select, StopHttp, StopSmtp, WaitSmtp, Exit, Goto, Running, DbStep
  <2>q. QED
    BY <1>3, <2>1, <2>2, <2>3, <2>4 DEF Schema, MySQL
<1>6. CASE CheckVersion
  <2>1. UNCHANGED <<cfg, tables, recorded>> /\ pc = "check"
    BY <1>6 DEF CheckVersion, db
  <2>2. LeftOver'
    BY <1>1, <2>1 DEF Schema, LeftOver
  <2>3. CASE v > NVersions /\ pc' = "seed" /\ v' = v
    BY <1>3, <2>1, <2>2, <2>3 DEF Schema
  <2>4. CASE v \in recorded /\ v' = v + 1 /\ pc' = pc
    <3>1. 1..v' - 1 \subseteq recorded'
      BY <1>3, <2>1, <2>4
    <3>q. QED
      BY <1>3, <2>1, <2>2, <2>4, <3>1 DEF Schema, Running
  <2>5. CASE v \in Version \ recorded /\ pc' = "ddl" /\ v' = v
    BY <1>3, <2>1, <2>2, <2>5 DEF Schema, Running
  <2>6. CASE pc' = "failed" /\ v' = v
    BY <1>3, <2>1, <2>2, <2>6 DEF Schema, Running
  <2>q. QED
    BY <1>6, <2>3, <2>4, <2>5, <2>6 DEF CheckVersion, Goto
<1>7. CASE ApplyDDL
  <2>1. UNCHANGED <<cfg, v, recorded>> /\ pc = "ddl"
    BY <1>7 DEF ApplyDDL
  <2>2. MySQL' = MySQL
    BY <2>1 DEF MySQL
  <2>3. CASE pc' = "failed" /\ tables' = tables
    BY <1>1, <2>1, <2>3 DEF Schema, LeftOver, Running
  <2>4. CASE pc' = "record" /\ ~MySQL /\ tables' = tables
    <3>1. LeftOver'
      BY <1>1, <2>1, <2>4 DEF Schema, LeftOver
    <3>q. QED
      BY <1>3, <2>1, <2>2, <2>4, <3>1 DEF Schema, Running
  <2>5. CASE pc' = "record" /\ MySQL /\ tables' = tables \cup {v}
    <3>1. LeftOver'
      <4>1. CASE v \in recorded
        <5>1. tables' = tables
          BY <1>3, <2>5, <4>1
        <5>q. QED
          BY <1>1, <2>1, <5>1 DEF Schema, LeftOver
      <4>2. CASE v \notin recorded
        <5>1. v = k + 1 /\ v \in Version
          BY <1>3, <2>1, <4>2, NextVersion
        <5>2. Left(k, tables', recorded')
          BY <1>3, <2>1, <2>5, <5>1 DEF Left, Version
        <5>q. QED
          BY <1>4, <5>2
      <4>q. QED
        BY <4>1, <4>2
    <3>q. QED
      BY <1>3, <2>1, <2>2, <2>5, <3>1 DEF Schema, Running
  <2>q. QED
    BY <1>7, <2>3, <2>4, <2>5 DEF ApplyDDL, Goto
<1>8. CASE RecordVersion
  <2>1. UNCHANGED cfg /\ pc = "record"
    BY <1>8 DEF RecordVersion
  <2>2. CASE pc' = "failed" /\ UNCHANGED <<v, db>>
    BY <1>1, <2>1, <2>2 DEF Schema, LeftOver, Running, db
  <2>3. CASE /\ v \notin recorded /\ pc' = "check" /\ v' = v + 1
             /\ tables' = tables \cup {v} /\ recorded' = recorded \cup {v}
    <3>1. v = k + 1 /\ v \in Version
      BY <1>3, <2>1, <2>3, NextVersion
    <3>2. k + 1 \in 0..NVersions
      BY <1>3, <3>1 DEF Version
    <3>3. recorded' = 1..k + 1 /\ tables' = 1..k + 1
      BY <1>3, <2>3, <3>1
    <3>4. Left(k + 1, tables', recorded')
      BY <3>2, <3>3 DEF Left
    <3>5. LeftOver'
      BY <1>4, <3>2, <3>4
    <3>6. v' \in 1..NVersions + 1 /\ 1..v' - 1 \subseteq recorded'
      BY <1>3, <2>3, <3>1, <3>2, <3>3
    <3>q. QED
      BY <2>3, <3>5, <3>6 DEF Schema, Running
  <2>q. QED
    BY <1>8, <2>2, <2>3 DEF RecordVersion, Goto
<1>9. CASE OtherApplies
  <2>1. /\ UNCHANGED <<cfg, pc, v, recorded>> /\ tables = recorded /\ tables # Version
        /\ tables' = 1..Cardinality(tables) + 1
    BY <1>9 DEF OtherApplies
  <2>2. Cardinality(1..k) = k
    BY <1>3, FS_Interval
  <2>3. tables = 1..k /\ k < NVersions /\ tables' = 1..k + 1
    BY <1>3, <2>1, <2>2 DEF Version
  <2>4. Left(k, tables', recorded')
    BY <1>3, <2>1, <2>3 DEF Left
  <2>5. LeftOver'
    BY <1>4, <2>4
  <2>6. v \in tables => v \in tables'
    BY <1>3, <2>3
  <2>7. MySQL' = MySQL
    BY <2>1 DEF MySQL
  <2>q. QED
    BY <1>3, <2>1, <2>5, <2>6, <2>7 DEF Schema
<1>10. CASE OtherRecords
  <2>1. UNCHANGED <<cfg, pc, v, tables>> /\ recorded' = tables /\ recorded' # recorded /\ MySQL
    BY <1>10 DEF OtherRecords
  <2>2. k + 1 \in 0..NVersions /\ tables = 1..k + 1
    BY <1>3, <2>1
  <2>3. Left(k + 1, tables', recorded')
    BY <2>1, <2>2 DEF Left
  <2>4. LeftOver'
    BY <1>4, <2>2, <2>3
  <2>5. recorded \subseteq recorded'
    BY <1>3, <2>1, <2>2
  <2>6. MySQL'
    BY <2>1 DEF MySQL
  <2>q. QED
    BY <1>3, <2>1, <2>4, <2>5, <2>6 DEF Schema
<1>q. QED
  BY <1>1, <1>5, <1>6, <1>7, <1>8, <1>9, <1>10, DbFrame DEF DbStep

----------------------------------------------------------------------------
(* The types.  A server sends one result at most, so the channel holds no  *)
(* more results than servers are done; and the accept loop takes one       *)
(* connection at a time.                                                   *)

One(b) == IF b THEN 1 ELSE 0

Returned == One(lis["smtp"] = "done") + One(lis["api"] = "done") + One(lis["panel"] = "done")

Types ==
  /\ TypeOK
  /\ input \in Inputs
  /\ serveErr \in Seq({"err", "nil"})
  /\ Len(serveErr) <= Returned
  /\ accepted => active < MaxConns
  /\ pc \in Starting => serveErr = <<>>

\* Init establishes the types.
LEMMA TypesInit == Init => Types
<1>1. SUFFICES ASSUME Init PROVE Types
  OBVIOUS
<1>2. LeftOver /\ tables \subseteq Version /\ recorded \subseteq Version
  BY <1>1 DEF Init
<1>3. serveErr = <<>> /\ serveErr \in Seq({"err", "nil"}) /\ Len(serveErr) = 0
  BY <1>1 DEF Init
<1>4. /\ lis = [s \in Server |-> "none"] /\ accepted = FALSE /\ active = 0
      /\ signalled = FALSE /\ history = 0..MaxAge /\ shut = "no" /\ faults = 0
      /\ pc = "file" /\ v = 1 /\ input \in Inputs
  BY <1>1 DEF Init
<1>5. accepted \in BOOLEAN /\ signalled \in BOOLEAN /\ (accepted => active < MaxConns)
  BY <1>4
<1>6. Returned \in Nat
  BY DEF Returned, One
<1>7. lis \in [Server -> {"none", "opening", "open", "closed", "done"}]
  BY <1>4
<1>8. pc \in Starting \cup Running \cup Exited
  BY <1>4 DEF Starting
<1>9. v \in 1..NVersions + 1 /\ active \in 0..MaxConns /\ faults \in 0..MaxFaults
  BY <1>4, ProcessAssumption
<1>q. QED
  BY <1>2, <1>3, <1>4, <1>5, <1>6, <1>7, <1>8, <1>9 DEF Types, TypeOK

\* No step leaves the types.
LEMMA TypesNext == Types /\ Schema /\ [Next]_vars => Types'
<1>1. SUFFICES ASSUME Types, Schema, [Next]_vars PROVE Types'
  OBVIOUS
<1>2. /\ pc \in Starting \cup Running \cup Exited
      /\ v \in 1..NVersions + 1
      /\ tables \subseteq Version /\ recorded \subseteq Version
      /\ lis \in [Server -> {"none", "opening", "open", "closed", "done"}]
      /\ accepted \in BOOLEAN /\ active \in 0..MaxConns
      /\ signalled \in BOOLEAN
      /\ history \subseteq 0..MaxAge
      /\ shut \in {"no", "early", "drained", "timeout"}
      /\ faults \in 0..MaxFaults
      /\ input \in Inputs
      /\ serveErr \in Seq({"err", "nil"})
      /\ Len(serveErr) <= Returned
      /\ accepted => active < MaxConns
      /\ pc \in Starting => serveErr = <<>>
      /\ NVersions \in Nat /\ MaxConns \in Nat /\ MaxFaults \in Nat
  BY <1>1, ProcessAssumption DEF Types, TypeOK
<1>3. input' \in Inputs
  BY <1>1, <1>2, InputFrame
<1>4. pc' \in Starting \cup Running \cup Exited
  <2>1. CASE UNCHANGED pc
    BY <1>2, <2>1
  <2>2. CASE Signal
    BY <2>2 DEF Signal, Goto, Exited
  <2>3. CASE Main
    BY <2>3 DEF Main, ReadFile, ApplyEnv, Validate, Open, CheckVersion, ApplyDDL, RecordVersion,
      Seed, StartupPrune, Select, StopHttp, StopSmtp, WaitSmtp, Exit, Goto, Starting, Running,
      Exited
  <2>q. QED
    BY <1>1, <2>1, <2>2, <2>3, PcFrame
<1>5. faults' \in 0..MaxFaults
  BY <1>1, <1>2, RestFrame
<1>6. shut' \in {"no", "early", "drained", "timeout"}
  BY <1>1, <1>2, RestFrame DEF StopSmtp, WaitSmtp
<1>7. signalled' \in BOOLEAN
  BY <1>1, <1>2, RestFrame
<1>8. history' \subseteq 0..MaxAge
  BY <1>1, <1>2, RestFrame DEF PrunedNow, Pruned
<1>9. v' \in 1..NVersions + 1 /\ tables' \subseteq Version /\ recorded' \subseteq Version
  <2>1. Schema'
    BY <1>1, SchemaNext
  <2>2. PICK k \in 0..NVersions : Left(k, tables', recorded')
    BY <2>1, LeftIs DEF Schema, LeftOver
  <2>q. QED
    BY <2>1, <2>2, LeftVersions DEF Schema
<1>10. /\ lis' \in [Server -> {"none", "opening", "open", "closed", "done"}]
       /\ serveErr' \in Seq({"err", "nil"})
       /\ Len(serveErr') <= Returned'
  <2>1. CASE lis' = lis /\ serveErr' = serveErr
    BY <1>2, <2>1 DEF Returned
  <2>2. CASE Seed
    <3>1. pc = "seed" /\ serveErr' = serveErr
      BY <2>2 DEF Seed
    <3>2. serveErr = <<>>
      BY <1>2, <3>1 DEF Starting
    <3>3. Returned' \in Nat
      BY DEF Returned, One
    <3>4. Len(serveErr') = 0 /\ serveErr' \in Seq({"err", "nil"})
      BY <1>2, <3>1, <3>2
    <3>5. \/ lis' = lis
          \/ \E b \in BOOLEAN : lis' = [s \in Server |-> IF s = "smtp" \/ b THEN "opening" ELSE "none"]
      BY <2>2, Zenon DEF Seed
    <3>6. lis' \in [Server -> {"none", "opening", "open", "closed", "done"}]
      BY <1>2, <3>5
    <3>q. QED
      BY <3>3, <3>4, <3>6
  <2>3. CASE Select
    BY <1>2, <2>3 DEF Select, Returned, One
  <2>4. ASSUME NEW s \in {"api", "panel"}, serveErr' = serveErr,
               lis' = [lis EXCEPT ![s] = IF @ = "none" THEN @ ELSE "done"]
        PROVE  Len(serveErr') <= Returned' /\ lis' \in [Server -> {"none", "opening", "open", "closed", "done"}]
    BY <1>2, <2>4 DEF Returned, One, Server
  <2>5. CASE StopSmtp
    BY <1>2, <2>5 DEF StopSmtp, Returned, One, Server
  <2>6. CASE CloseListener
    BY <1>2, <2>6 DEF CloseListener, Returned, One, Server
  <2>7. CASE ServeReturns
    BY <1>2, <2>7 DEF ServeReturns, Returned, One, Server
  <2>8. ASSUME NEW s \in Server, Listen(s)
        PROVE  /\ lis' \in [Server -> {"none", "opening", "open", "closed", "done"}]
               /\ serveErr' \in Seq({"err", "nil"})
               /\ Len(serveErr') <= Returned'
    <3>1. CASE lis' = [lis EXCEPT ![s] = "open"] /\ serveErr' = serveErr /\ lis[s] = "opening"
      BY <1>2, <3>1 DEF Returned, One, Server
    <3>2. CASE lis' = [lis EXCEPT ![s] = "done"] /\ serveErr' = Append(serveErr, "err") /\ lis[s] = "opening"
      BY <1>2, <3>2 DEF Returned, One, Server
    <3>q. QED
      BY <2>8, <3>1, <3>2 DEF Listen
  <2>q. QED
    BY <1>1, <1>2, <2>1, <2>2, <2>3, <2>4, <2>5, <2>6, <2>7, <2>8, NetFrame
    DEF NetStep, net, StopHttp, Accept, ServeConn, SessionEnds
<1>11. accepted' \in BOOLEAN /\ active' \in 0..MaxConns /\ (accepted' => active' < MaxConns)
  <2>1. CASE accepted' = accepted /\ active' = active
    BY <1>2, <2>1
  <2>2. CASE Accept
    BY <1>2, <2>2 DEF Accept
  <2>3. CASE ServeConn
    <3>1. accepted /\ accepted' = FALSE /\ active' = active + 1
      BY <2>3 DEF ServeConn
    <3>2. active < MaxConns
      BY <1>2, <3>1
    <3>3. active' \in 0..MaxConns
      BY <1>2, <3>1, <3>2
    <3>q. QED
      BY <3>1, <3>3
  <2>4. CASE SessionEnds
    <3>1. active > 0 /\ active' = active - 1 /\ accepted' = accepted
      BY <2>4 DEF SessionEnds
    <3>2. active' \in 0..MaxConns /\ active' < MaxConns
      BY <1>2, <3>1
    <3>q. QED
      BY <1>2, <3>1, <3>2
  <2>q. QED
    BY <1>1, <2>1, <2>2, <2>3, <2>4, NetFrame DEF NetStep, net, Seed, Select, StopSmtp, StopHttp,
      Listen, CloseListener, ServeReturns
<1>12. Returned' \in 0..3
  BY DEF Returned, One
<1>13. pc' \in Starting => serveErr' = <<>>
  <2>1. pc' \in Starting => pc \in Starting
    BY <1>1, PcFrame DEF Main, ReadFile, ApplyEnv, Validate, Open, CheckVersion, ApplyDDL,
      RecordVersion, Seed, StartupPrune, Select, StopHttp, StopSmtp, WaitSmtp, Exit, Signal, Goto,
      Starting, Running
  <2>2. pc \in Starting => serveErr' = serveErr
    BY <1>1, NetFrame DEF NetStep, net, Seed, Select, StopSmtp, StopHttp, Listen, Accept,
      ServeConn, SessionEnds, CloseListener, ServeReturns, Starting, Running
  <2>q. QED
    BY <1>2, <2>1, <2>2
<1>q. QED
  BY <1>3, <1>4, <1>5, <1>6, <1>7, <1>8, <1>9, <1>10, <1>11, <1>12, <1>13 DEF Types, TypeOK

----------------------------------------------------------------------------
(* The shutdown.  Nobody is accepted any more once Shutdown has closed the *)
(* listener, unless it was too early to find one.                          *)

Cut ==
  /\ pc \in {"waitSmtp", "last", "stopped"} /\ shut # "early" =>
       lis["smtp"] \notin {"open", "opening"}
  /\ AtMostOneCut

\* No step lets a second session be cut.
LEMMA CutNext == Types /\ Cut /\ [Next]_vars => Cut'
<1>1. SUFFICES ASSUME Types, Cut, [Next]_vars PROVE Cut'
  OBVIOUS
<1> DEFINE Late(p) == p \in {"waitSmtp", "last", "stopped"}
           Pending(b) == IF b THEN 1 ELSE 0
<1>2. /\ active \in Nat /\ accepted \in BOOLEAN /\ shut \in {"no", "early", "drained", "timeout"}
      /\ lis \in [Server -> {"none", "opening", "open", "closed", "done"}]
      /\ Late(pc) /\ shut # "early" => lis["smtp"] \notin {"open", "opening"}
      /\ pc \in {"last", "stopped"} /\ shut = "drained" => active + Pending(accepted) <= 1
  BY <1>1 DEF Types, TypeOK, Cut, AtMostOneCut
<1>3. Late(pc') => \/ Late(pc) /\ (shut = "early" => shut' = "early")
                   \/ StopSmtp
  BY <1>1, PcFrame, RestFrame DEF Main, ReadFile, ApplyEnv, Validate, Open, CheckVersion, ApplyDDL,
    RecordVersion, Seed, StartupPrune, Select, StopHttp, StopSmtp, WaitSmtp, Exit, Signal, Goto
<1>4. /\ Late(pc') /\ shut' # "early" => lis'["smtp"] \notin {"open", "opening"}
  <2>1. CASE StopSmtp
    BY <1>2, <2>1 DEF StopSmtp, Server
  <2>2. CASE Late(pc) /\ (shut = "early" => shut' = "early")
    <3>1. lis["smtp"] \notin {"open", "opening"} => lis'["smtp"] \notin {"open", "opening"}
      <4>1. CASE \E s \in Server : Listen(s)
        BY <1>2, <4>1 DEF Listen, Server
      <4>q. QED
        BY <1>1, <1>2, <2>2, <4>1, NetFrame DEF NetStep, net, Seed, Select, StopSmtp, StopHttp, Accept,
          ServeConn, SessionEnds, CloseListener, ServeReturns, Server
    <3>q. QED
      BY <1>2, <2>2, <3>1
  <2>q. QED
    BY <1>3, <2>1, <2>2
<1>5. ASSUME pc' \in {"last", "stopped"}, shut' = "drained"
      PROVE  active' + Pending(accepted') <= 1
  <2>1. CASE WaitSmtp
    <3>1. active = 0 /\ active' = active /\ accepted' = accepted
      BY <1>5, <2>1 DEF WaitSmtp, net
    <3>q. QED
      BY <3>1
  <2>2. CASE ~WaitSmtp
    <3>1. pc \in {"last", "stopped"} /\ shut = "drained"
      BY <1>1, <1>5, <2>2, PcFrame, RestFrame DEF Main, ReadFile, ApplyEnv, Validate, Open,
        CheckVersion, ApplyDDL, RecordVersion, Seed, StartupPrune, Select, StopHttp, StopSmtp, Exit,
        Signal, Goto
    <3>2. active + Pending(accepted) <= 1 /\ lis["smtp"] # "open"
      BY <1>2, <3>1
    <3>3. CASE active' = active /\ accepted' = accepted
      BY <3>2, <3>3
    <3>4. CASE ServeConn
      <4>1. accepted = TRUE /\ accepted' = FALSE /\ active' = active + 1
        BY <1>2, <3>4 DEF ServeConn
      <4>2. Pending(accepted) = 1 /\ Pending(accepted') = 0
        BY <4>1
      <4>q. QED
        BY <1>2, <3>2, <4>1, <4>2
    <3>5. CASE SessionEnds
      <4>1. accepted' = accepted /\ active' = active - 1
        BY <3>5 DEF SessionEnds
      <4>2. Pending(accepted) \in Nat
        OBVIOUS
      <4>q. QED
        BY <1>2, <3>2, <4>1, <4>2
    <3>q. QED
      BY <1>1, <3>1, <3>2, <3>3, <3>4, <3>5, NetFrame DEF NetStep, net, Seed, Select, StopSmtp, StopHttp,
        Listen, Accept, CloseListener, ServeReturns
  <2>q. QED
    BY <2>1, <2>2
<1>q. QED
  BY <1>4, <1>5 DEF Cut, AtMostOneCut

----------------------------------------------------------------------------
(* The configuration.                                                      *)

Field == {"num", "level", "storage", "tls", "api", "web", "accounts", "dkim"}

\* A record with the fields of a configuration.
IsCfg(c) == c = [x \in Field |-> c[x]]

Raw(x) == WithEnv(WithFile(Defaults, x.file), x.env)

\* The defaults have them.
LEMMA DefaultsCfg == IsCfg(Defaults)
  BY DEF Defaults, IsCfg, Field

\* The file over the defaults.
LEMMA FileOver ==
  ASSUME NEW f
  PROVE  LET c == WithFile(Defaults, f) IN
           /\ IsCfg(c)
           /\ c.num = Overlay([n \in Num |-> 3], f.num)
           /\ c.level = Or(f.level, "info")
           /\ c.storage = StorageOf(<< [type |-> "sqlite", dsn |-> ""] >>, f.storage)
           /\ c.tls = f.tls /\ c.api = f.api /\ c.web = f.web
           /\ c.accounts = f.accounts /\ c.dkim = f.dkim
<1> DEFINE c == WithFile(Defaults, f)
<1>1. IsCfg(c)
  BY DefaultsCfg DEF WithFile, IsCfg, Field
<1>2.  /\ c.num = Overlay([n \in Num |-> 3], f.num)
           /\ c.level = Or(f.level, "info")
           /\ c.storage = StorageOf(<< [type |-> "sqlite", dsn |-> ""] >>, f.storage)
           /\ c.tls = f.tls /\ c.api = f.api /\ c.web = f.web
           /\ c.accounts = f.accounts /\ c.dkim = f.dkim
  BY DEF Defaults, WithFile
<1>q. QED BY <1>1, <1>2

\* The environment over a configuration.
LEMMA EnvOver ==
  ASSUME NEW e, NEW c, IsCfg(c)
  PROVE  LET d == WithEnv(c, e) IN
           /\ IsCfg(d)
           /\ d.num = Overlay(c.num, e.num)
           /\ d.level = Or(e.level, c.level)
           /\ d.storage = StorageWithEnv(c.storage, e)
           /\ d.tls = IF e.pair = "none" THEN c.tls ELSE << [pair |-> e.pair, mode |-> e.mode] >>
           /\ d.api = ApiWithEnv(c.api, e)
           /\ d.web = WebWithEnv(c.web, e)
           /\ d.accounts = c.accounts \o e.accounts
           /\ d.dkim = MergedDKIM(c.dkim, e.dkim)
<1> DEFINE d == WithEnv(c, e)
<1>1. IsCfg(d)
  BY DEF WithEnv, IsCfg, Field
<1>2.      /\ d.num = Overlay(c.num, e.num)
           /\ d.level = Or(e.level, c.level)
           /\ d.storage = StorageWithEnv(c.storage, e)
  BY DEF WithEnv, IsCfg, Field
<1>3.      /\ d.tls = IF e.pair = "none" THEN c.tls ELSE << [pair |-> e.pair, mode |-> e.mode] >>
           /\ d.api = ApiWithEnv(c.api, e)
           /\ d.web = WebWithEnv(c.web, e)
  BY DEF WithEnv, IsCfg, Field
<1>4.      /\ d.accounts = c.accounts \o e.accounts
           /\ d.dkim = MergedDKIM(c.dkim, e.dkim)
  BY DEF WithEnv, IsCfg, Field
<1>q. QED BY <1>1, <1>2, <1>3, <1>4

\* What normalisation makes of a section.
NormalStorage(r) == IF r[1].type = "" THEN << [r[1] EXCEPT !.type = "sqlite"] >> ELSE r
NormalApi(r) ==
  IF r # <<>> /\ Trim(r[1].listen) = "" THEN << [r[1] EXCEPT !.listen = "9090"] >> ELSE r
NormalWeb(api, r) == IF api # <<>> /\ Trim(Or(r, "")) = "" THEN << "8080" >> ELSE r

NormalAccounts(s) ==
  LET u == LastWins(s, Emails(s)) IN [i \in DOMAIN u |-> [u[i] EXCEPT !.email = Lower(@)]]
NormalKeys(s) ==
  LET u == LastWins(s, Domains(s))
  IN [i \in DOMAIN u |-> [u[i] EXCEPT !.domain = Lower(@), !.selector = Trim(@)]]

\* Normalisation of a configuration.
LEMMA NormalOver ==
  ASSUME NEW c, IsCfg(c)
  PROVE  LET d == Normalized(c) IN
         /\ d.num = c.num /\ d.level = c.level
         /\ d.storage = NormalStorage(c.storage)
         /\ d.tls = IF c.tls # <<>> /\ c.tls[1].mode = ""
                    THEN << [c.tls[1] EXCEPT !.mode = "starttls"] >> ELSE c.tls
         /\ d.api = NormalApi(c.api)
         /\ d.web = NormalWeb(c.api, c.web)
         /\ d.accounts = NormalAccounts(c.accounts) /\ d.dkim = NormalKeys(c.dkim)
<1> DEFINE d == Normalized(c)
<1>1. /\ d.num = c.num /\ d.level = c.level
      /\ d.storage = NormalStorage(c.storage)
      /\ d.tls = IF c.tls # <<>> /\ c.tls[1].mode = ""
                 THEN << [c.tls[1] EXCEPT !.mode = "starttls"] >> ELSE c.tls
      /\ d.api = NormalApi(c.api)
      /\ d.web = NormalWeb(c.api, c.web)
  BY DEF Normalized, IsCfg, Field, NormalStorage, NormalApi, NormalWeb
<1>2. d.accounts = NormalAccounts(c.accounts) /\ d.dkim = NormalKeys(c.dkim)
  BY DEF Normalized, IsCfg, Field, NormalAccounts, NormalKeys
<1>q. QED
  BY <1>1, <1>2

\* An optional value that is there.
LEMMA OptOne == \A y : <<y>> # <<>> /\ <<y>>[1] = y
<1>1. SUFFICES ASSUME NEW y PROVE <<y>> # <<>> /\ <<y>>[1] = y
  OBVIOUS
<1>2. <<y>>[1] = y /\ Len(<<y>>) = 1
  OBVIOUS
<1>3. Len(<<>>) = 0
  OBVIOUS
<1>q. QED
  BY <1>2, <1>3

\* A value, or the one to fall back on.
LEMMA OrCases == \A y, z : Or(<<y>>, z) = y /\ Or(<<>>, z) = z
  BY OptOne DEF Or

\* An optional value is one element or none.
LEMMA OptIs ==
  ASSUME NEW S, NEW o, IsOpt(o, S), o # <<>>
  PROVE  o[1] \in S /\ o = <<o[1]>>
<1>1. o \in Seq(S) /\ Len(o) <= 1
  BY DEF IsOpt
<1>2. Len(o) \in Nat \ {0}
  BY <1>1, EmptySeq
<1> DEFINE n == Len(o)
<1>3. n = 1
  <2>1. n <= 1 /\ n \in Nat /\ n # 0
    BY <1>1, <1>2
  <2> HIDE DEF n
  <2>q. QED
    BY <2>1
<1>4. o[1] \in S
  BY <1>1, <1>3
<1>5. <<o[1]>> \in Seq(S) /\ Len(<<o[1]>>) = 1 /\ <<o[1]>>[1] = o[1]
  BY <1>4
<1>q. QED
  BY <1>1, <1>3, <1>4, <1>5, SeqEqual

\* A certificate is there when one of the two gives it.
LEMMA TlsEffective ==
  ASSUME NEW t, NEW p, NEW m, NEW r, NEW c,
         r = IF p = "none" THEN t ELSE << [pair |-> p, mode |-> m] >>,
         c = IF r # <<>> /\ r[1].mode = "" THEN << [r[1] EXCEPT !.mode = "starttls"] >> ELSE r
  PROVE  c # <<>> <=> p # "none" \/ t # <<>>
<1>1. r # <<>> <=> p # "none" \/ t # <<>>
  OBVIOUS
<1>2. c # <<>> <=> r # <<>>
  OBVIOUS
<1>q. QED
  BY <1>1, <1>2

\* The admin API.
LEMMA ApiEffective ==
  ASSUME NEW a, NEW e, IsOpt(a, [listen : STRING, token : STRING]), IsEnv(e),
         ApiWithEnv(a, e) # <<>> => Trim(ApiWithEnv(a, e)[1].token) # ""
  PROVE  /\ NormalApi(ApiWithEnv(a, e)) # <<>> <=> ApiWithEnv(a, e) # <<>>
         /\ NormalApi(ApiWithEnv(a, e)) # <<>> <=> e.apiToken # "" \/ a # <<>>
         /\ NormalApi(ApiWithEnv(a, e)) # <<>> =>
              NormalApi(ApiWithEnv(a, e))[1].token =
                IF e.apiToken # "" THEN e.apiToken ELSE a[1].token
<1> DEFINE r == ApiWithEnv(a, e)
           c == NormalApi(r)
<1>0. r # <<>> => Trim(r[1].token) # ""
  OBVIOUS
<1>1. a # <<>> => a[1] \in [listen : STRING, token : STRING]
  BY OptIs
<1>2. e.apiToken \in STRING /\ e.apiListen \in STRING
  BY DEF IsEnv
<1>3. r # <<>> => r[1] \in [listen : STRING, token : STRING]
  BY <1>1, <1>2 DEF ApiWithEnv, Or
<1>4. r # <<>> <=> e.apiToken # "" \/ a # <<>>
  BY <1>0 DEF ApiWithEnv, Or, Trim
<1>5. r # <<>> => r[1].token = IF e.apiToken # "" THEN e.apiToken ELSE a[1].token
  BY <1>1, <1>4 DEF ApiWithEnv, Or
<1> HIDE DEF r
<1>6. c # <<>> <=> r # <<>>
  BY OptOne DEF NormalApi
<1>7. r # <<>> => c[1].token = r[1].token
  BY <1>3 DEF NormalApi
<1> HIDE DEF c
<1>8. /\ c # <<>> <=> e.apiToken # "" \/ a # <<>>
      /\ c # <<>> => c[1].token = IF e.apiToken # "" THEN e.apiToken ELSE a[1].token
  BY <1>4, <1>5, <1>6, <1>7
<1>q. QED
  BY <1>6, <1>8 DEF c, r

\* The web panel.
LEMMA WebEffective ==
  ASSUME NEW w, NEW e, NEW api, api = <<>> => WebWithEnv(w, e) = <<>>
  PROVE  /\ NormalWeb(api, WebWithEnv(w, e)) # <<>> <=> api # <<>>
         /\ Trim(e.webListen) # "" => NormalWeb(api, WebWithEnv(w, e)) = <<e.webListen>>
<1> DEFINE r == WebWithEnv(w, e)
           c == NormalWeb(api, r)
<1>1. api = <<>> => r = <<>>
  OBVIOUS
<1>2. ASSUME Trim(e.webListen) # "" PROVE r = <<e.webListen>>
  <2>1. e.webListen # ""
    BY <1>2 DEF Trim
  <2>q. QED
    BY <2>1 DEF WebWithEnv
<1> HIDE DEF r
<1>3. c # <<>> <=> api # <<>>
  <2>1. r = <<>> => Trim(Or(r, "")) = ""
    BY OrCases DEF Trim
  <2>q. QED
    BY <1>1, <2>1, OptOne, Zenon DEF NormalWeb
<1>4. ASSUME Trim(e.webListen) # "" PROVE c = <<e.webListen>>
  <2>1. r = <<e.webListen>> /\ Or(r, "") = e.webListen
    BY <1>2, <1>4, OrCases, Zenon
  <2>q. QED
    BY <1>4, <2>1, Zenon DEF NormalWeb
<1>q. QED
  BY <1>3, <1>4 DEF r

\* The storage with the file alone.
LEMMA StorageFromFile ==
  ASSUME NEW s, s # <<>> => IsOpt(s[1].type, STRING), NEW b,
         b = StorageOf(<< [type |-> "sqlite", dsn |-> ""] >>, s), b # <<>>
  PROVE  b[1].type = "mysql" <=> s # <<>> /\ s[1].type = <<"mysql">>
<1>1. CASE s = <<>>
  BY <1>1 DEF StorageOf
<1>2. CASE s # <<>>
  <2>1. ~s[1].null
    BY <1>2 DEF StorageOf
  <2>2. b = << [type |-> Or(s[1].type, "sqlite"), dsn |-> s[1].dsn] >>
    <3> DEFINE base == << [type |-> "sqlite", dsn |-> ""] >>
    <3>1. base[1].type = "sqlite"
      OBVIOUS
    <3> HIDE DEF base
    <3>2. StorageOf(base, s) = << [type |-> Or(s[1].type, base[1].type), dsn |-> s[1].dsn] >>
      BY <1>2, <2>1 DEF StorageOf
    <3>3. b = StorageOf(base, s)
      BY DEF base
    <3>q. QED
      BY <3>1, <3>2, <3>3
  <2>3. b[1] = [type |-> Or(s[1].type, "sqlite"), dsn |-> s[1].dsn]
    BY <2>2, OptOne, Zenon
  <2>4. \A p, q : [type |-> p, dsn |-> q].type = p
    OBVIOUS
  <2>7. b[1].type = Or(s[1].type, "sqlite")
    BY <2>3, <2>4, Zenon
  <2>5. CASE s[1].type = <<>>
    <3>1. b[1].type = "sqlite"
      BY <2>7, <2>5, OrCases, Zenon
    <3>2. s[1].type # <<"mysql">>
      BY <2>5, OptOne, Zenon
    <3>q. QED
      BY <3>1, <3>2
  <2>6. CASE s[1].type # <<>>
    <3>1. PICK y : s[1].type = <<y>>
      BY <1>2, <2>6, OptIs
    <3>2. b[1].type = y
      BY <2>7, <3>1, OrCases, Zenon
    <3>3. s[1].type = <<"mysql">> <=> y = "mysql"
      BY <3>1, OptOne, Zenon
    <3>q. QED
      BY <1>2, <3>2, <3>3, Zenon
  <2>q. QED
    BY <2>5, <2>6
<1>q. QED
  BY <1>1, <1>2

IsMySQL(s) == s[1].type = "mysql"
AsksMySQL(e, b) == e.dsn # "" \/ e.type = "mysql" \/ (e.type = "" /\ IsMySQL(b))

\* The storage with the environment.
LEMMA StorageEffective ==
  ASSUME NEW e, NEW b
  PROVE  IsMySQL(NormalStorage(StorageWithEnv(b, e))) <=> AsksMySQL(e, b)
<1> DEFINE r == StorageWithEnv(b, e)
           c == NormalStorage(r)
<1>1. c[1].type = "mysql" <=> r[1].type = "mysql"
  <2>1. r = << [type |-> r[1].type, dsn |-> r[1].dsn] >>
    BY DEF StorageWithEnv
  <2> HIDE DEF r
  <2>2. CASE r[1].type = ""
    <3>1. c = << [r[1] EXCEPT !.type = "sqlite"] >>
      BY <2>2 DEF NormalStorage
    <3>2. r[1] = [type |-> r[1].type, dsn |-> r[1].dsn]
      BY <2>1, OptOne
    <3>3. [r[1] EXCEPT !.type = "sqlite"].type = "sqlite"
      BY <3>2
    <3>4. c[1].type = "sqlite"
      BY <3>1, <3>3, OptOne
    <3>q. QED
      BY <2>2, <3>4
  <2>3. CASE r[1].type # ""
    BY <2>3 DEF NormalStorage
  <2>q. QED
    BY <2>2, <2>3
<1>2. r[1].type = "mysql" <=> \/ e.dsn # ""
                              \/ e.type = "mysql"
                              \/ e.type = "" /\ b[1].type = "mysql"
  BY DEF StorageWithEnv
<1>q. QED
  BY <1>1, <1>2 DEF IsMySQL, AsksMySQL

\* What Invalid says of the settings, without the accounts and keys.
LEMMA Valid ==
  ASSUME NEW r, ~Invalid(r)
  PROVE  /\ \A n \in Positive : ~(r.num[n] < 1)
         /\ \A n \in NonNegative : ~(r.num[n] < 0)
         /\ r.api # <<>> => Trim(r.api[1].token) # ""
         /\ r.api = <<>> => r.web = <<>>
  BY Zenon DEF Invalid

\* What validation leaves of the numbers and of the listeners.
LEMMA AcceptedFacts ==
  ASSUME NEW x \in Inputs, ~Invalid(Raw(x))
  PROVE  LET c == Normalized(Raw(x)) IN
         /\ \A n \in Num : c.num[n] \in Int
         /\ c.num["concurrency"] >= 1 /\ c.num["send_history_days"] >= 0
         /\ c.api # <<>> => c.web # <<>>
<1> DEFINE f == x.file
           e == x.env
           b == WithFile(Defaults, f)
           r == Raw(x)
           c == Normalized(r)
<1>1. IsFile(f) /\ IsEnv(e)
  BY InputsAssumption
<1>2. IsCfg(b) /\ b.num = Overlay([n \in Num |-> 3], f.num)
  BY FileOver
<1>3. IsCfg(r) /\ r.num = Overlay(b.num, e.num)
  BY <1>2, EnvOver DEF Raw
<1>4. \A n \in Num : r.num[n] \in Int
  BY <1>1, <1>2, <1>3 DEF Overlay, IsFile, IsEnv, AreNumbers
<1>5. r.num["concurrency"] >= 1 /\ r.num["send_history_days"] >= 0
  <2>1. ~(r.num["concurrency"] < 1) /\ ~(r.num["send_history_days"] < 0)
    BY Valid DEF Positive, NonNegative
  <2>2. r.num["concurrency"] \in Int /\ r.num["send_history_days"] \in Int
    BY <1>4 DEF Num, Positive, NonNegative
  <2>q. QED
    BY <2>1, <2>2
<1>6. /\ c.num = r.num
      /\ c.api = NormalApi(r.api)
      /\ c.web = NormalWeb(r.api, r.web)
  BY <1>3, NormalOver
<1>7. c.api # <<>> => c.web # <<>>
  <2>1. r.api = <<>> => c.api = <<>>
    BY <1>6, Zenon DEF NormalApi
  <2>2. r.web = <<>> => Trim(Or(r.web, "")) = ""
    BY OrCases DEF Trim
  <2>q. QED
    BY <1>6, <2>1, <2>2, OptOne, Zenon DEF NormalWeb
<1> HIDE DEF c, r
<1>8. /\ \A n \in Num : c.num[n] \in Int
      /\ c.num["concurrency"] >= 1 /\ c.num["send_history_days"] >= 0
  BY <1>4, <1>5, <1>6
<1>q. QED
  BY <1>7, <1>8 DEF c, r

\* Every scalar setting is what the environment says, or else the file, or else
\* the defaults.
LEMMA SettingsEffective ==
  ASSUME NEW x \in Inputs, ~EnvPanics(WithFile(Defaults, x.file)), ~Invalid(Raw(x))
  PROVE  EffectiveSettings(Normalized(Raw(x)), x.file, x.env)
<1> DEFINE f == x.file
           e == x.env
           b == WithFile(Defaults, f)
           r == Raw(x)
           c == Normalized(r)
<1>1. IsFile(f) /\ IsEnv(e)
  BY InputsAssumption
<1>2. /\ IsCfg(b)
      /\ b.num = Overlay([n \in Num |-> 3], f.num)
      /\ b.level = Or(f.level, "info")
      /\ b.storage = StorageOf(<< [type |-> "sqlite", dsn |-> ""] >>, f.storage)
      /\ b.tls = f.tls /\ b.api = f.api /\ b.web = f.web
  BY FileOver
<1>3. /\ IsCfg(r)
      /\ r.num = Overlay(b.num, e.num)
      /\ r.level = Or(e.level, b.level)
      /\ r.storage = StorageWithEnv(b.storage, e)
      /\ r.tls = IF e.pair = "none" THEN b.tls ELSE << [pair |-> e.pair, mode |-> e.mode] >>
      /\ r.api = ApiWithEnv(b.api, e)
      /\ r.web = WebWithEnv(b.web, e)
  BY <1>2, EnvOver DEF Raw
<1>4. /\ c.num = r.num /\ c.level = r.level
      /\ c.storage = NormalStorage(r.storage)
      /\ c.tls = IF r.tls # <<>> /\ r.tls[1].mode = ""
                 THEN << [r.tls[1] EXCEPT !.mode = "starttls"] >> ELSE r.tls
      /\ c.api = NormalApi(r.api)
      /\ c.web = NormalWeb(r.api, r.web)
  BY <1>3, NormalOver
<1>5. /\ r.api = <<>> => r.web = <<>>
      /\ r.api # <<>> => Trim(r.api[1].token) # ""
  BY Valid
<1>6. b.storage # <<>>
  BY DEF EnvPanics
<1> HIDE DEF b, r, c, f, e
<1>7. ASSUME NEW n \in Num
      PROVE  c.num[n] = CASE n \in DOMAIN e.num -> e.num[n]
                          [] n \in DOMAIN f.num \ DOMAIN e.num -> f.num[n]
                          [] OTHER -> Defaults.num[n]
  <2>1. c.num[n] = IF n \in DOMAIN e.num THEN e.num[n] ELSE b.num[n]
    BY <1>3, <1>4 DEF Overlay
  <2>2. b.num[n] = IF n \in DOMAIN f.num THEN f.num[n] ELSE 3
    BY <1>2 DEF Overlay
  <2>3. Defaults.num[n] = 3
    BY DEF Defaults
  <2>q. QED
    BY <2>1, <2>2, <2>3
<1>8. c.level = Or(e.level, Or(f.level, "info"))
  BY <1>2, <1>3, <1>4, Zenon
<1>9. c.storage[1].type = "mysql" <=>
       \/ e.dsn # ""
       \/ e.type = "mysql"
       \/ e.type = "" /\ f.storage # <<>> /\ f.storage[1].type = <<"mysql">>
  <2> DEFINE fs == f.storage
             bs == b.storage
  <2>1. fs # <<>> => IsOpt(fs[1].type, STRING)
    BY <1>1, Zenon DEF IsFile
  <2>5. bs # <<>>
    BY <1>6
  <2>2. bs = StorageOf(<< [type |-> "sqlite", dsn |-> ""] >>, fs)
    BY <1>2
  <2>3. c.storage = NormalStorage(StorageWithEnv(bs, e))
    BY <1>3, <1>4
  <2> HIDE DEF fs, bs
  <2>4. bs[1].type = "mysql" <=> fs # <<>> /\ fs[1].type = <<"mysql">>
    BY ONLY <2>1, <2>2, <2>5, StorageFromFile
  <2>6. IsMySQL(NormalStorage(StorageWithEnv(bs, e))) <=> AsksMySQL(e, bs)
    BY ONLY StorageEffective
  <2>7. IsMySQL(c.storage) <=> AsksMySQL(e, bs)
    BY ONLY <2>3, <2>6, Zenon
  <2>q. QED
    BY <2>4, <2>7, Zenon DEF fs, IsMySQL, AsksMySQL
<1>10. c.tls # <<>> <=> e.pair # "none" \/ f.tls # <<>>
  BY <1>2, <1>3, <1>4, TlsEffective
<1>11. /\ c.api # <<>> <=> r.api # <<>>
       /\ c.api # <<>> <=> e.apiToken # "" \/ f.api # <<>>
       /\ c.api # <<>> =>
            c.api[1].token = IF e.apiToken # "" THEN e.apiToken ELSE f.api[1].token
  <2> DEFINE fa == f.api
             ra == r.api
             ca == c.api
  <2>1. IsOpt(fa, [listen : STRING, token : STRING]) /\ IsEnv(e)
    BY <1>1, Zenon DEF IsFile
  <2>2. ra = ApiWithEnv(fa, e) /\ ca = NormalApi(ra)
    BY <1>2, <1>3, <1>4
  <2>3. ra # <<>> => Trim(ra[1].token) # ""
    BY <1>5
  <2> HIDE DEF fa, ra, ca
  <2>4. /\ ca # <<>> <=> ra # <<>>
        /\ ca # <<>> <=> e.apiToken # "" \/ fa # <<>>
        /\ ca # <<>> => ca[1].token = IF e.apiToken # "" THEN e.apiToken ELSE fa[1].token
    BY ONLY <2>1, <2>2, <2>3, ApiEffective
  <2>q. QED
    BY <2>4, Zenon DEF fa, ra, ca
<1>12. /\ c.web # <<>> <=> c.api # <<>>
       /\ Trim(e.webListen) # "" => c.web = <<e.webListen>>
  <2> DEFINE bw == b.web
             rw == r.web
             ra == r.api
             cw == c.web
  <2>1. rw = WebWithEnv(bw, e) /\ cw = NormalWeb(ra, rw) /\ (ra = <<>> => rw = <<>>)
    BY <1>3, <1>4, <1>5
  <2> HIDE DEF bw, rw, ra, cw
  <2>2. /\ cw # <<>> <=> ra # <<>>
        /\ Trim(e.webListen) # "" => cw = <<e.webListen>>
    BY ONLY <2>1, WebEffective
  <2>q. QED
    BY <1>11, <2>2, Zenon DEF ra, cw
<1>q. QED
  BY <1>7, <1>8, <1>9, <1>10, <1>11, <1>12 DEF EffectiveSettings, c, r, f, e

----------------------------------------------------------------------------
(* The accounts and the keys.                                              *)

\* Some positions, counted up to one of them.
Rank(I, i) == Cardinality({j \in I : j <= i})

\* Ranks number the positions in their order.
LEMMA RankIs ==
  ASSUME NEW I \in SUBSET Nat, IsFiniteSet(I)
  PROVE  /\ Cardinality(I) \in Nat
         /\ \A i \in I : Rank(I, i) \in 1..Cardinality(I)
         /\ \A i, j \in I : i < j => Rank(I, i) < Rank(I, j)
<1> DEFINE upTo(i) == {j \in I : j <= i}
<1>1. Cardinality(I) \in Nat
  BY FS_CardinalityType
<1>2. ASSUME NEW i \in I
      PROVE  /\ IsFiniteSet(upTo(i)) /\ Rank(I, i) = Cardinality(upTo(i))
             /\ Rank(I, i) \in 1..Cardinality(I)
  <2>1. upTo(i) \in SUBSET I /\ upTo(i) # {} /\ Rank(I, i) = Cardinality(upTo(i))
    BY DEF Rank
  <2> HIDE DEF upTo
  <2>2. IsFiniteSet(upTo(i)) /\ Cardinality(upTo(i)) <= Cardinality(I)
    BY <2>1, FS_Subset
  <2>3. Cardinality(upTo(i)) \in Nat /\ Cardinality(upTo(i)) # 0
    BY <2>1, <2>2, FS_CardinalityType, FS_EmptySet
  <2>q. QED
    BY <1>1, <2>1, <2>2, <2>3
<1>3. ASSUME NEW i \in I, NEW j \in I, i < j PROVE Rank(I, i) < Rank(I, j)
  <2>1. upTo(i) \in SUBSET upTo(j) /\ j \in upTo(j) /\ j \notin upTo(i)
    <3>1. i \in Nat /\ j \in Nat
      OBVIOUS
    <3>2. j <= j /\ ~(j <= i)
      BY <1>3, <3>1
    <3>3. ASSUME NEW m \in I, m <= i PROVE m <= j
      <4>1. m \in Nat
        OBVIOUS
      <4>q. QED
        BY <1>3, <3>1, <3>3, <4>1
    <3>q. QED
      BY <3>2, <3>3
  <2>2. /\ IsFiniteSet(upTo(j)) /\ Rank(I, i) = Cardinality(upTo(i))
        /\ Rank(I, j) = Cardinality(upTo(j))
        /\ Rank(I, i) \in Nat /\ Rank(I, j) \in Nat
    BY <1>1, <1>2
  <2> HIDE DEF upTo
  <2>3. /\ Cardinality(upTo(i)) <= Cardinality(upTo(j))
        /\ Cardinality(upTo(i)) # Cardinality(upTo(j))
    BY <2>1, <2>2, FS_Subset
  <2>q. QED
    BY <2>2, <2>3
<1>q. QED
  BY <1>1, <1>2, <1>3

\* Positions have an ascending order.
LEMMA AscendingExists ==
  ASSUME NEW I \in SUBSET Nat, IsFiniteSet(I)
  PROVE  \E f \in [1..Cardinality(I) -> I] :
           \A k, l \in 1..Cardinality(I) : k < l => f[k] < f[l]
<1> DEFINE n == Cardinality(I)
           rank == [i \in I |-> Rank(I, i)]
           inverse == [k \in 1..n |-> CHOOSE i \in I : rank[i] = k]
<1>1. n \in Nat /\ \A i \in I : rank[i] \in 1..n
  BY RankIs
<1>2. \A i, j \in I : i < j => rank[i] < rank[j]
  BY RankIs
<1>3. IsFiniteSet(1..n) /\ Cardinality(1..n) = n
  BY <1>1, FS_Interval
<1>4. rank \in [I -> 1..n]
  BY <1>1
<1>5. \A i, j \in I : rank[i] = rank[j] => i = j
  <2>1. ASSUME NEW i \in I, NEW j \in I, rank[i] = rank[j] PROVE i = j
    <3> HIDE DEF rank
    <3>1. rank[i] \in Nat /\ rank[j] \in Nat /\ i \in Nat /\ j \in Nat
      BY <1>1
    <3>2. ~(i < j) /\ ~(j < i)
      BY <1>2, <2>1, <3>1
    <3>q. QED
      BY <3>1, <3>2
  <2>q. QED
    BY <2>1
<1> HIDE DEF rank, n
<1>6. rank \in Injection(I, 1..n)
  BY <1>4, <1>5 DEF Injection, IsInjective
<1>7. rank \in Surjection(I, 1..n)
  BY <1>3, <1>6, FS_Injection DEF n
<1>8. ASSUME NEW k \in 1..n PROVE inverse[k] \in I /\ rank[inverse[k]] = k
  BY <1>7 DEF Surjection
<1>9. ASSUME NEW k \in 1..n, NEW l \in 1..n, k < l PROVE inverse[k] < inverse[l]
  <2>1. /\ inverse[k] \in I /\ inverse[l] \in I /\ inverse[k] \in Nat /\ inverse[l] \in Nat
        /\ rank[inverse[k]] = k /\ rank[inverse[l]] = l
    BY <1>8
  <2>2. inverse[k] # inverse[l] /\ ~(inverse[l] < inverse[k])
    <3>1. k \in Nat /\ l \in Nat /\ ~(l < k) /\ k # l
      BY <1>1, <1>9
    <3> HIDE DEF inverse
    <3>q. QED
      BY <1>2, <2>1, <3>1
  <2> HIDE DEF inverse
  <2>q. QED
    BY <2>1, <2>2
<1>10. inverse \in [1..n -> I]
  BY <1>8
<1> HIDE DEF inverse
<1>q. QED
  BY <1>9, <1>10 DEF n

\* What Ascending chooses.
LEMMA AscendingIs ==
  ASSUME NEW I \in SUBSET Nat, IsFiniteSet(I)
  PROVE  LET f == Ascending(I)
             n == Cardinality(I)
         IN /\ n \in Nat /\ f \in [1..n -> I]
            /\ \A k, l \in 1..n : k < l <=> f[k] < f[l]
            /\ \A k, l \in 1..n : f[k] = f[l] => k = l
            /\ \A i \in I : \E k \in 1..n : f[k] = i
<1> DEFINE f == Ascending(I)
           n == Cardinality(I)
<1>1. f \in [1..n -> I] /\ \A k, l \in 1..n : k < l => f[k] < f[l]
  BY AscendingExists DEF Ascending
<1>2. n \in Nat /\ IsFiniteSet(1..n) /\ Cardinality(1..n) = n
  BY FS_CardinalityType, FS_Interval
<1> HIDE DEF f
<1>3. \A k, l \in 1..n : /\ k < l <=> f[k] < f[l]
                         /\ f[k] = f[l] => k = l
  <2>1. ASSUME NEW k \in 1..n, NEW l \in 1..n
        PROVE  (k < l <=> f[k] < f[l]) /\ (f[k] = f[l] => k = l)
    <3>1. k \in Nat /\ l \in Nat
      BY <1>2
    <3>2. f[k] \in Nat /\ f[l] \in Nat
      BY <1>1
    <3>3. (k < l => f[k] < f[l]) /\ (l < k => f[l] < f[k])
      BY <1>1
    <3>q. QED
      BY <3>1, <3>2, <3>3
  <2>q. QED
    BY <2>1
<1>4. f \in Injection(1..n, I)
  BY <1>1, <1>3 DEF Injection, IsInjective
<1>5. f \in Surjection(1..n, I)
  BY <1>2, <1>4, FS_Injection
<1>6. \A i \in I : \E k \in 1..n : f[k] = i
  BY <1>5 DEF Surjection
<1>q. QED
  BY <1>1, <1>2, <1>3, <1>6 DEF f

\* Positions have a first and a last one, and Max finds the last.
LEMMA EndsAre ==
  ASSUME NEW I \in SUBSET Nat, IsFiniteSet(I), I # {}
  PROVE  /\ \E i \in I : \A j \in I : i <= j
         /\ Max(I) \in I /\ \A j \in I : j <= Max(I)
<1> DEFINE f == Ascending(I)
           n == Cardinality(I)
<1>1. /\ n \in Nat /\ f \in [1..n -> I]
      /\ \A k, l \in 1..n : k < l <=> f[k] < f[l]
      /\ \A i \in I : \E k \in 1..n : f[k] = i
  BY AscendingIs
<1>2. n # 0
  BY FS_EmptySet
<1> HIDE DEF f, n
<1>3. 1 \in 1..n /\ n \in 1..n
  BY <1>1, <1>2
<1>4. ASSUME NEW j \in I PROVE f[1] <= j /\ j <= f[n]
  <2>1. PICK k \in 1..n : f[k] = j
    BY <1>1
  <2>2. ~(k < 1) /\ ~(n < k)
    BY <1>1
  <2>3. ~(f[k] < f[1]) /\ ~(f[n] < f[k])
    BY <1>1, <1>3, <2>2
  <2>4. f[1] \in Nat /\ f[n] \in Nat /\ f[k] \in Nat
    BY <1>1, <1>3
  <2>q. QED
    BY <2>1, <2>3, <2>4
<1>5. f[1] \in I /\ f[n] \in I
  BY <1>1, <1>3
<1>6. \A j \in I : f[n] >= j
  <2>1. ASSUME NEW j \in I PROVE f[n] >= j
    <3>1. f[n] \in Nat /\ j \in Nat /\ j <= f[n]
      BY <1>4, <1>5
    <3>q. QED
      BY <3>1
  <2>q. QED
    BY <2>1
<1>7. Max(I) \in I /\ \A j \in I : Max(I) >= j
  BY <1>5, <1>6 DEF Max
<1>8. \A j \in I : j <= Max(I)
  <2> DEFINE m == Max(I)
  <2> HIDE DEF m
  <2>1. ASSUME NEW j \in I PROVE j <= m
    <3>1. m \in Nat /\ j \in Nat /\ m >= j
      BY <1>7 DEF m
    <3>q. QED
      BY <3>1
  <2>q. QED
    BY <2>1 DEF m
<1>q. QED
  BY <1>4, <1>5, <1>7, <1>8


\* Positions of a sequence.
LEMMA PositionsAre ==
  ASSUME NEW N \in Nat, NEW I \in SUBSET (1..N)
  PROVE  I \in SUBSET Nat /\ IsFiniteSet(I)
<1>1. IsFiniteSet(1..N)
  BY FS_Interval
<1>2. IsFiniteSet(I)
  BY <1>1, FS_Subset, Zenon
<1>q. QED
  BY <1>2

\* The first and the last place of a name.
LEMMA NamedAt ==
  ASSUME NEW N \in Nat, NEW names, DOMAIN names = 1..N, NEW x \in Range(names)
  PROVE  /\ \E i \in Firsts(names) : names[i] = x
         /\ LastAt(names, x) \in 1..N /\ names[LastAt(names, x)] = x
         /\ \A j \in 1..N : names[j] = x => j <= LastAt(names, x)
<1> DEFINE I == {i \in DOMAIN names : names[i] = x}
<1>1. I \in SUBSET (1..N) /\ I # {}
  BY DEF Range
<1>2. I \in SUBSET Nat /\ IsFiniteSet(I)
  BY <1>1, PositionsAre
<1>3. LastAt(names, x) = Max(I)
  BY DEF LastAt
<1>4. \A j \in 1..N : j \in I <=> names[j] = x
  OBVIOUS
<1> HIDE DEF I
<1>5. /\ \E i \in I : \A j \in I : i <= j
      /\ Max(I) \in I /\ \A j \in I : j <= Max(I)
  BY <1>1, <1>2, EndsAre
<1>6. PICK i \in I : \A j \in I : i <= j
  BY <1>5
<1>7. i \in Firsts(names) /\ names[i] = x
  <2>1. i \in 1..N /\ names[i] = x
    BY <1>1, <1>4
  <2>2. ASSUME NEW j \in 1..i - 1 PROVE names[j] # names[i]
    <3>1. j \in 1..N /\ ~(i <= j)
      BY <2>1
    <3>q. QED
      BY <1>4, <1>6, <2>1, <3>1
  <2>q. QED
    BY <2>1, <2>2 DEF Firsts
<1>q. QED
  BY <1>1, <1>3, <1>4, <1>5, <1>7

\* LastWins: one entry for each name, the last one.
LEMMA LastWinsIs ==
  ASSUME NEW N \in Nat, NEW s, NEW names, DOMAIN names = 1..N
  PROVE  LET u == LastWins(s, names)
             order == Picked(names, Firsts(names))
             n == Cardinality(Firsts(names))
         IN /\ n \in Nat /\ DOMAIN order = 1..n /\ DOMAIN u = 1..n
            /\ Range(order) = Range(names) /\ IsInjective(order)
            /\ \A k \in 1..n : u[k] = s[LastAt(names, order[k])]
<1> DEFINE I == Firsts(names)
           a == Ascending(I)
           n == Cardinality(I)
           order == Picked(names, I)
           u == LastWins(s, names)
<1>1. I \in SUBSET (1..N)
  BY DEF Firsts
<1>2. I \in SUBSET Nat /\ IsFiniteSet(I)
  BY <1>1, PositionsAre
<1>3. /\ n \in Nat /\ a \in [1..n -> I]
      /\ \A k, l \in 1..n : a[k] = a[l] => k = l
      /\ \A i \in I : \E k \in 1..n : a[k] = i
  <2> HIDE DEF I
  <2>q. QED
    BY <1>2, AscendingIs
<1>4. order = [k \in 1..n |-> names[a[k]]]
  BY DEF Picked
<1>5. u = [k \in DOMAIN order |-> s[LastAt(names, order[k])]]
  BY DEF LastWins
<1>6. \A i, j \in I : names[i] = names[j] => i = j
  <2>1. ASSUME NEW i \in I, NEW j \in I, names[i] = names[j] PROVE i = j
    <3>1. i \in 1..N /\ j \in 1..N
      BY <1>1
    <3>2. ~(i \in 1..j - 1) /\ ~(j \in 1..i - 1)
      BY <2>1 DEF Firsts
    <3>q. QED
      BY <3>1, <3>2
  <2>q. QED
    BY <2>1
<1>7. \A x \in Range(names) : \E i \in I : names[i] = x
  BY NamedAt
<1> HIDE DEF I, a, n, order, u
<1>8. DOMAIN order = 1..n /\ \A k \in 1..n : order[k] = names[a[k]] /\ a[k] \in I
  BY <1>3, <1>4
<1>9. IsInjective(order)
  BY <1>3, <1>6, <1>8 DEF IsInjective
<1>10. Range(order) = Range(names)
  <2>1. ASSUME NEW x \in Range(order) PROVE x \in Range(names)
    <3>1. PICK k \in 1..n : order[k] = x
      BY <1>8 DEF Range
    <3>2. a[k] \in DOMAIN names /\ x = names[a[k]]
      BY <1>1, <1>8, <3>1
    <3>q. QED
      BY <3>2 DEF Range
  <2>2. ASSUME NEW x \in Range(names) PROVE x \in Range(order)
    <3>1. PICK i \in I : names[i] = x
      BY <1>7
    <3>2. PICK k \in 1..n : a[k] = i
      BY <1>3
    <3>q. QED
      BY <1>8, <3>1, <3>2 DEF Range
  <2>q. QED
    BY <2>1, <2>2
<1>11. DOMAIN u = 1..n /\ \A k \in 1..n : u[k] = s[LastAt(names, order[k])]
  BY <1>5, <1>8
<1>q. QED
  BY <1>3, <1>8, <1>9, <1>10, <1>11 DEF u, n, order, I

\* A name in small letters stays as it is.
LEMMA LowerTwice == \A x : Lower(Lower(x)) = Lower(x)
  BY DEF Lower

\* Accounts have one entry for each name, with the password of the last.
LEMMA AccountsNormal ==
  ASSUME NEW s, AreAccounts(s)
  PROVE  LET c == NormalAccounts(s) IN
         /\ Range(Emails(c)) = Range(Emails(s))
         /\ IsInjective([i \in DOMAIN c |-> c[i].email])
         /\ \A i \in DOMAIN c : c[i].password = s[LastAt(Emails(s), c[i].email)].password
<1> DEFINE N == Len(s)
           names == Emails(s)
           order == Picked(names, Firsts(names))
           n == Cardinality(Firsts(names))
           u == LastWins(s, names)
           c == NormalAccounts(s)
           last(k) == LastAt(names, order[k])
<1>1. N \in Nat /\ DOMAIN s = 1..N
  BY LenProperties DEF AreAccounts
<1>2. DOMAIN names = 1..N /\ \A i \in 1..N : names[i] = Lower(s[i].email)
  BY <1>1 DEF Emails
<1>3. \A i \in 1..N : s[i] \in [email : STRING, password : STRING]
  BY <1>1, ElementOfSeq DEF AreAccounts
<1>4. c = [i \in DOMAIN u |-> [u[i] EXCEPT !.email = Lower(@)]]
  BY DEF NormalAccounts
<1> HIDE DEF names, N, u, order, n
<1>5. /\ DOMAIN order = 1..n /\ DOMAIN u = 1..n
      /\ Range(order) = Range(names) /\ IsInjective(order)
      /\ \A k \in 1..n : u[k] = s[LastAt(names, order[k])]
  BY <1>1, <1>2, LastWinsIs DEF u, order, n
<1>6. \A k \in 1..n : last(k) \in 1..N /\ names[last(k)] = order[k]
  <2>1. ASSUME NEW k \in 1..n PROVE last(k) \in 1..N /\ names[last(k)] = order[k]
    <3>1. order[k] \in Range(names)
      BY <1>5 DEF Range
    <3>q. QED
      BY <1>1, <1>2, <3>1, NamedAt
  <2>q. QED
    BY <2>1
<1> HIDE DEF last
<1>7. DOMAIN c = 1..n
  BY <1>4, <1>5
<1>8. ASSUME NEW k \in 1..n
      PROVE  c[k].email = order[k] /\ c[k].password = s[last(k)].password
  <2>1. u[k] = s[last(k)] /\ u[k] \in [email : STRING, password : STRING]
    BY <1>3, <1>5, <1>6 DEF last
  <2>2. c[k] = [u[k] EXCEPT !.email = Lower(@)]
    BY <1>4, <1>5
  <2>3. c[k].email = Lower(u[k].email) /\ c[k].password = u[k].password
    BY <2>1, <2>2
  <2>4. Lower(s[last(k)].email) = order[k]
    BY <1>2, <1>6
  <2>q. QED
    BY <2>1, <2>3, <2>4
<1> HIDE DEF c
<1>9. Range(Emails(c)) = Range(names)
  <2>1. DOMAIN Emails(c) = 1..n /\ \A k \in 1..n : Emails(c)[k] = Lower(order[k])
    BY <1>7, <1>8 DEF Emails
  <2>2. \A k \in 1..n : Lower(order[k]) = order[k]
    <3>1. ASSUME NEW k \in 1..n PROVE Lower(order[k]) = order[k]
      <4>1. order[k] = Lower(s[last(k)].email)
        BY <1>2, <1>6
      <4>q. QED
        BY <4>1, LowerTwice
    <3>q. QED
      BY <3>1
  <2>3. Range(Emails(c)) = Range(order)
    BY <1>5, <2>1, <2>2 DEF Range
  <2>q. QED
    BY <1>5, <2>3
<1>10. IsInjective([i \in DOMAIN c |-> c[i].email])
  BY <1>5, <1>7, <1>8 DEF IsInjective
<1>11. \A i \in DOMAIN c : c[i].password = s[LastAt(names, c[i].email)].password
  BY <1>7, <1>8 DEF last
<1>q. QED
  BY <1>9, <1>10, <1>11 DEF c, names

\* Keys have one entry for each name, with the selector of the last.
LEMMA KeysNormal ==
  ASSUME NEW s, AreKeys(s)
  PROVE  LET c == NormalKeys(s) IN
         /\ Range(Domains(c)) = Range(Domains(s))
         /\ IsInjective([i \in DOMAIN c |-> c[i].domain])
         /\ \A i \in DOMAIN c : /\ c[i].domain \in Range(Domains(s))
                                /\ c[i].selector = Trim(s[LastAt(Domains(s), c[i].domain)].selector)
<1> DEFINE N == Len(s)
           names == Domains(s)
           order == Picked(names, Firsts(names))
           n == Cardinality(Firsts(names))
           u == LastWins(s, names)
           c == NormalKeys(s)
           last(k) == LastAt(names, order[k])
<1>1. N \in Nat /\ DOMAIN s = 1..N
  BY LenProperties DEF AreKeys
<1>2. DOMAIN names = 1..N /\ \A i \in 1..N : names[i] = Lower(s[i].domain)
  BY <1>1 DEF Domains
<1>3. \A i \in 1..N : s[i] \in [domain : STRING, selector : STRING, key : STRING]
  BY <1>1, ElementOfSeq DEF AreKeys
<1>4. c = [i \in DOMAIN u |-> [u[i] EXCEPT !.domain = Lower(@), !.selector = Trim(@)]]
  BY DEF NormalKeys
<1> HIDE DEF names, N, u, order, n
<1>5. /\ DOMAIN order = 1..n /\ DOMAIN u = 1..n
      /\ Range(order) = Range(names) /\ IsInjective(order)
      /\ \A k \in 1..n : u[k] = s[LastAt(names, order[k])]
  BY <1>1, <1>2, LastWinsIs DEF u, order, n
<1>6. \A k \in 1..n : last(k) \in 1..N /\ names[last(k)] = order[k]
  <2>1. ASSUME NEW k \in 1..n PROVE last(k) \in 1..N /\ names[last(k)] = order[k]
    <3>1. order[k] \in Range(names)
      BY <1>5 DEF Range
    <3>q. QED
      BY <1>1, <1>2, <3>1, NamedAt
  <2>q. QED
    BY <2>1
<1> HIDE DEF last
<1>7. DOMAIN c = 1..n
  BY <1>4, <1>5
<1>8. ASSUME NEW k \in 1..n
      PROVE  c[k].domain = order[k] /\ c[k].selector = Trim(s[last(k)].selector)
  <2>1. u[k] = s[last(k)] /\ u[k] \in [domain : STRING, selector : STRING, key : STRING]
    BY <1>3, <1>5, <1>6 DEF last
  <2>2. c[k] = [u[k] EXCEPT !.domain = Lower(@), !.selector = Trim(@)]
    BY <1>4, <1>5
  <2>3. c[k].domain = Lower(u[k].domain) /\ c[k].selector = Trim(u[k].selector)
    BY <2>1, <2>2
  <2>4. Lower(s[last(k)].domain) = order[k]
    BY <1>2, <1>6
  <2>q. QED
    BY <2>1, <2>3, <2>4
<1> HIDE DEF c
<1>9. Range(Domains(c)) = Range(names)
  <2>1. DOMAIN Domains(c) = 1..n /\ \A k \in 1..n : Domains(c)[k] = Lower(order[k])
    BY <1>7, <1>8 DEF Domains
  <2>2. \A k \in 1..n : Lower(order[k]) = order[k]
    <3>1. ASSUME NEW k \in 1..n PROVE Lower(order[k]) = order[k]
      <4>1. order[k] = Lower(s[last(k)].domain)
        BY <1>2, <1>6
      <4>q. QED
        BY <4>1, LowerTwice
    <3>q. QED
      BY <3>1
  <2>3. Range(Domains(c)) = Range(order)
    BY <1>5, <2>1, <2>2 DEF Range
  <2>q. QED
    BY <1>5, <2>3
<1>10. IsInjective([i \in DOMAIN c |-> c[i].domain])
  BY <1>5, <1>7, <1>8 DEF IsInjective
<1>11. \A i \in DOMAIN c : c[i].selector = Trim(s[LastAt(names, c[i].domain)].selector)
  BY <1>7, <1>8 DEF last
<1>12. \A i \in DOMAIN c : c[i].domain \in Range(names)
  BY <1>5, <1>7, <1>8 DEF Range
<1>q. QED
  BY <1>9, <1>10, <1>11, <1>12 DEF c, names

\* The names of two lists, one after the other.
LEMMA DomainsConcat ==
  ASSUME NEW a, AreKeys(a), NEW b, AreKeys(b)
  PROVE  LET d == Domains(a \o b) IN
         /\ AreKeys(a \o b) /\ DOMAIN d = 1..Len(a) + Len(b)
         /\ DOMAIN Domains(a) = 1..Len(a) /\ DOMAIN Domains(b) = 1..Len(b)
         /\ \A i \in 1..Len(a) : (a \o b)[i] = a[i] /\ d[i] = Domains(a)[i]
         /\ \A i \in 1..Len(b) : /\ (a \o b)[Len(a) + i] = b[i]
                                 /\ d[Len(a) + i] = Domains(b)[i]
<1> DEFINE K == [domain : STRING, selector : STRING, key : STRING]
           A == Len(a)
           B == Len(b)
           S == a \o b
<1>1. a \in Seq(K) /\ b \in Seq(K)
  BY DEF AreKeys
<1>2. /\ A \in Nat /\ B \in Nat /\ DOMAIN a = 1..A /\ DOMAIN b = 1..B
  BY <1>1, LenProperties
<1>3. S \in Seq(K) /\ Len(S) = A + B
  <2> HIDE DEF K
  <2>q. QED
    BY <1>1, ConcatProperties
<1>4. DOMAIN S = 1..A + B
  BY <1>3, LenProperties
<1>5. \A i \in 1..A + B : S[i] = IF i <= A THEN a[i] ELSE b[i - A]
  <2> HIDE DEF K
  <2>q. QED
    BY <1>1, <1>3, ConcatProperties
<1> HIDE DEF S, A, B
<1>6. \A i \in 1..A : i \in 1..A + B /\ S[i] = a[i]
  BY <1>2, <1>5
<1>7. \A i \in 1..B : A + i \in 1..A + B /\ S[A + i] = b[i]
  <2>1. ASSUME NEW i \in 1..B PROVE A + i \in 1..A + B /\ S[A + i] = b[i]
    <3>1. A + i \in 1..A + B /\ ~(A + i <= A) /\ (A + i) - A = i
      BY <1>2
    <3>2. S[A + i] = b[(A + i) - A]
      BY <1>5, <3>1
    <3>q. QED
      BY <3>1, <3>2
  <2>q. QED
    BY <2>1
<1>8. /\ DOMAIN Domains(S) = 1..A + B /\ DOMAIN Domains(a) = 1..A /\ DOMAIN Domains(b) = 1..B
      /\ \A i \in 1..A : Domains(S)[i] = Domains(a)[i]
      /\ \A i \in 1..B : Domains(S)[A + i] = Domains(b)[i]
  BY <1>2, <1>4, <1>6, <1>7 DEF Domains
<1>9. AreKeys(S)
  BY <1>3 DEF AreKeys
<1>q. QED
  BY <1>6, <1>7, <1>8, <1>9 DEF S, A, B

\* The last one with a name is in the second list if that has the name, and else
\* in the first.
LEMMA ConcatLast ==
  ASSUME NEW a, AreKeys(a), NEW b, AreKeys(b)
  PROVE  /\ Range(Domains(a \o b)) = Range(Domains(a)) \cup Range(Domains(b))
         /\ \A x \in Range(Domains(b)) :
              (a \o b)[LastAt(Domains(a \o b), x)] = b[LastAt(Domains(b), x)]
         /\ \A x \in Range(Domains(a)) \ Range(Domains(b)) :
              (a \o b)[LastAt(Domains(a \o b), x)] = a[LastAt(Domains(a), x)]
<1> DEFINE A == Len(a)
           B == Len(b)
           S == a \o b
           da == Domains(a)
           db2 == Domains(b)
           d == Domains(S)
<1>1. A \in Nat /\ B \in Nat
  BY LenProperties DEF AreKeys
<1>2. /\ DOMAIN d = 1..A + B /\ DOMAIN da = 1..A /\ DOMAIN db2 = 1..B
      /\ \A i \in 1..A : S[i] = a[i] /\ d[i] = da[i]
      /\ \A i \in 1..B : S[A + i] = b[i] /\ d[A + i] = db2[i]
  BY DomainsConcat
<1> HIDE DEF S, A, B, da, db2, d
<1>3. A + B \in Nat
  BY <1>1
<1>4. \A i \in 1..A + B : i \in 1..A \/ \E j \in 1..B : i = A + j
  <2>1. ASSUME NEW i \in 1..A + B, i \notin 1..A PROVE i - A \in 1..B /\ i = A + (i - A)
    BY <1>1, <2>1
  <2>q. QED
    BY <2>1
<1>5. (\A i \in 1..A : i \in 1..A + B) /\ (\A j \in 1..B : A + j \in 1..A + B)
  BY <1>1
<1>6. Range(d) = Range(da) \cup Range(db2)
  <2>1. ASSUME NEW x \in Range(d) PROVE x \in Range(da) \cup Range(db2)
    <3>1. PICK i \in 1..A + B : d[i] = x
      BY <1>2 DEF Range
    <3>2. CASE i \in 1..A
      <4>1. i \in DOMAIN da /\ da[i] = x
        BY <1>2, <3>1, <3>2
      <4>q. QED
        BY <4>1 DEF Range
    <3>3. CASE \E j \in 1..B : i = A + j
      <4>1. PICK j \in 1..B : i = A + j
        BY <3>3
      <4>2. j \in DOMAIN db2 /\ db2[j] = x
        BY <1>2, <3>1, <4>1
      <4>q. QED
        BY <4>2 DEF Range
    <3>q. QED
      BY <1>4, <3>2, <3>3
  <2>2. ASSUME NEW x \in Range(da) PROVE x \in Range(d)
    <3>1. PICK i \in 1..A : da[i] = x
      BY <1>2 DEF Range
    <3>2. i \in DOMAIN d /\ d[i] = x
      BY <1>2, <1>5, <3>1
    <3>q. QED
      BY <3>2 DEF Range
  <2>3. ASSUME NEW x \in Range(db2) PROVE x \in Range(d)
    <3>1. PICK i \in 1..B : db2[i] = x
      BY <1>2 DEF Range
    <3>2. A + i \in DOMAIN d /\ d[A + i] = x
      BY <1>2, <1>5, <3>1
    <3>q. QED
      BY <3>2 DEF Range
  <2>q. QED
    BY <2>1, <2>2, <2>3
<1>7. ASSUME NEW x \in Range(db2) PROVE S[LastAt(d, x)] = b[LastAt(db2, x)]
  <2> DEFINE m == LastAt(d, x)
             l == LastAt(db2, x)
  <2>1. m \in 1..A + B /\ d[m] = x /\ \A j \in 1..A + B : d[j] = x => j <= m
    BY <1>2, <1>3, <1>6, NamedAt
  <2>2. l \in 1..B /\ db2[l] = x /\ \A j \in 1..B : db2[j] = x => j <= l
    BY <1>1, <1>2, NamedAt
  <2> HIDE DEF m, l
  <2>3. A + l <= m
    BY <1>2, <1>5, <2>1, <2>2
  <2>4. PICK j \in 1..B : m = A + j
    <3>1. m \notin 1..A
      BY <1>1, <2>1, <2>2, <2>3
    <3>q. QED
      BY <1>4, <2>1, <3>1
  <2>5. j <= l
    BY <1>2, <2>1, <2>2, <2>4
  <2>6. j = l
    BY <1>1, <2>2, <2>3, <2>4, <2>5
  <2>q. QED
    BY <1>2, <2>2, <2>4, <2>6 DEF m, l
<1>8. ASSUME NEW x \in Range(da) \ Range(db2) PROVE S[LastAt(d, x)] = a[LastAt(da, x)]
  <2> DEFINE m == LastAt(d, x)
             l == LastAt(da, x)
  <2>1. m \in 1..A + B /\ d[m] = x /\ \A j \in 1..A + B : d[j] = x => j <= m
    BY <1>2, <1>3, <1>6, NamedAt
  <2>2. l \in 1..A /\ da[l] = x /\ \A j \in 1..A : da[j] = x => j <= l
    BY <1>1, <1>2, NamedAt
  <2> HIDE DEF m, l
  <2>3. l <= m
    BY <1>2, <1>5, <2>1, <2>2
  <2>4. m \in 1..A
    <3>1. \A j \in 1..B : db2[j] # x
      BY <1>2, <1>8 DEF Range
    <3>q. QED
      BY <1>2, <1>4, <2>1, <3>1
  <2>5. m <= l
    BY <1>2, <2>1, <2>2, <2>4
  <2>6. m = l
    BY <1>1, <2>2, <2>3, <2>4, <2>5
  <2>q. QED
    BY <1>2, <2>2, <2>6 DEF m, l
<1>q. QED
  BY <1>6, <1>7, <1>8 DEF S, da, db2, d

\* A list without some of the entries, none of them with name x, has the same
\* last entry with that name.
LEMMA PickedLast ==
  ASSUME NEW s, AreKeys(s), NEW I \in SUBSET DOMAIN s
  PROVE  LET p == Picked(s, I) IN
         /\ AreKeys(p)
         /\ Range(Domains(p)) = {Lower(s[i].domain) : i \in I}
         /\ \A x \in Range(Domains(s)) :
              (\A i \in DOMAIN s : Lower(s[i].domain) = x => i \in I) =>
                p[LastAt(Domains(p), x)] = s[LastAt(Domains(s), x)]
<1> DEFINE K == [domain : STRING, selector : STRING, key : STRING]
           N == Len(s)
           a == Ascending(I)
           n == Cardinality(I)
           p == Picked(s, I)
           ds == Domains(s)
           dp == Domains(p)
<1>1. s \in Seq(K) /\ N \in Nat /\ DOMAIN s = 1..N
  BY LenProperties DEF AreKeys
<1>2. I \in SUBSET Nat /\ IsFiniteSet(I)
  BY <1>1, PositionsAre
<1>3. /\ n \in Nat /\ a \in [1..n -> I]
      /\ \A k, l \in 1..n : k < l <=> a[k] < a[l]
      /\ \A i \in I : \E k \in 1..n : a[k] = i
  BY <1>2, AscendingIs
<1>4. p = [k \in 1..n |-> s[a[k]]]
  BY DEF Picked
<1>5. \A i \in 1..N : s[i] \in K
  BY <1>1, ElementOfSeq
<1> HIDE DEF a, n, p, K, N
<1>6. \A k \in 1..n : a[k] \in I /\ a[k] \in 1..N /\ p[k] = s[a[k]]
  BY <1>1, <1>3, <1>4
<1>7. p \in Seq(K) /\ DOMAIN p = 1..n
  <2>1. p \in [1..n -> K]
    BY <1>4, <1>5, <1>6
  <2>q. QED
    BY <1>3, <2>1, SeqDef
<1>8. /\ DOMAIN ds = 1..N /\ DOMAIN dp = 1..n
      /\ \A i \in 1..N : ds[i] = Lower(s[i].domain)
      /\ \A k \in 1..n : dp[k] = ds[a[k]]
  BY <1>1, <1>6, <1>7 DEF Domains
<1> HIDE DEF ds, dp
<1>9. Range(dp) = {ds[i] : i \in I}
  <2>1. ASSUME NEW y \in Range(dp) PROVE y \in {ds[i] : i \in I}
    BY <1>6, <1>8 DEF Range
  <2>2. ASSUME NEW i \in I PROVE ds[i] \in Range(dp)
    <3>1. PICK k \in 1..n : a[k] = i
      BY <1>3
    <3>q. QED
      BY <1>8, <3>1 DEF Range
  <2>q. QED
    BY <2>1, <2>2
<1>10. ASSUME NEW x \in Range(ds), \A i \in 1..N : ds[i] = x => i \in I
       PROVE  p[LastAt(dp, x)] = s[LastAt(ds, x)]
  <2> DEFINE m == LastAt(dp, x)
             l == LastAt(ds, x)
  <2>1. l \in 1..N /\ ds[l] = x /\ \A j \in 1..N : ds[j] = x => j <= l
    BY <1>1, <1>8, NamedAt
  <2>2. x \in Range(dp)
    BY <1>9, <1>10, <2>1
  <2>3. m \in 1..n /\ dp[m] = x /\ \A j \in 1..n : dp[j] = x => j <= m
    BY <1>3, <1>8, <2>2, NamedAt
  <2> HIDE DEF m, l
  <2>4. PICK k \in 1..n : a[k] = l
    BY <1>3, <1>10, <2>1
  <2>5. k <= m
    BY <1>8, <2>1, <2>3, <2>4
  <2>6. a[m] <= l
    BY <1>6, <1>8, <2>1, <2>3
  <2>7. ~(k < m)
    <3>1. a[m] \in Nat /\ l \in Nat
      BY <1>6, <2>1, <2>3
    <3>2. ~(a[k] < a[m])
      BY <2>4, <2>6, <3>1
    <3>q. QED
      BY <1>3, <2>3, <3>2
  <2>8. k = m
    BY <1>3, <2>3, <2>5, <2>7
  <2>q. QED
    BY <1>6, <2>3, <2>4, <2>8 DEF m, l
<1>11. {ds[i] : i \in I} = {Lower(s[i].domain) : i \in I}
  BY <1>1, <1>8
<1>12. AreKeys(p)
  BY <1>7 DEF AreKeys, K
<1>13. \A i \in DOMAIN s : Lower(s[i].domain) = ds[i]
  BY <1>1, <1>8
<1>14. ASSUME NEW x \in Range(ds), \A i \in DOMAIN s : Lower(s[i].domain) = x => i \in I
       PROVE  p[LastAt(dp, x)] = s[LastAt(ds, x)]
  BY <1>1, <1>10, <1>13, <1>14
<1>q. QED
  BY <1>9, <1>11, <1>12, <1>14 DEF p, dp, ds

\* The merge of the keys keeps the last entry of every name.
LEMMA MergedLast ==
  ASSUME NEW f, AreKeys(f), NEW e, AreKeys(e)
  PROVE  LET m == MergedDKIM(f, e)
             all == f \o e
         IN /\ AreKeys(m) /\ Range(Domains(m)) = Range(Domains(all))
            /\ \A x \in Range(Domains(all)) :
                 m[LastAt(Domains(m), x)] = all[LastAt(Domains(all), x)]
<1> DEFINE kept == {i \in DOMAIN f : \A j \in DOMAIN e : e[j].domain # f[i].domain}
           p == Picked(f, kept)
           m == MergedDKIM(f, e)
           all == f \o e
<1>1. m = p \o e
  BY DEF MergedDKIM
<1>2. kept \in SUBSET DOMAIN f
  OBVIOUS
<1>3. \A i \in DOMAIN f : i \in kept \/ \E j \in DOMAIN e : e[j].domain = f[i].domain
  OBVIOUS
<1> HIDE DEF kept
<1>4. /\ AreKeys(p) /\ Range(Domains(p)) = {Lower(f[i].domain) : i \in kept}
      /\ \A x \in Range(Domains(f)) :
           (\A i \in DOMAIN f : Lower(f[i].domain) = x => i \in kept) =>
             p[LastAt(Domains(p), x)] = f[LastAt(Domains(f), x)]
  BY <1>2, PickedLast
<1> HIDE DEF p
<1>5. AreKeys(p \o e)
  BY <1>4, DomainsConcat
<1>6. /\ Range(Domains(p \o e)) = Range(Domains(p)) \cup Range(Domains(e))
      /\ \A x \in Range(Domains(e)) :
           (p \o e)[LastAt(Domains(p \o e), x)] = e[LastAt(Domains(e), x)]
      /\ \A x \in Range(Domains(p)) \ Range(Domains(e)) :
           (p \o e)[LastAt(Domains(p \o e), x)] = p[LastAt(Domains(p), x)]
  BY <1>4, ConcatLast
<1>7. /\ Range(Domains(all)) = Range(Domains(f)) \cup Range(Domains(e))
      /\ \A x \in Range(Domains(e)) :
           all[LastAt(Domains(all), x)] = e[LastAt(Domains(e), x)]
      /\ \A x \in Range(Domains(f)) \ Range(Domains(e)) :
           all[LastAt(Domains(all), x)] = f[LastAt(Domains(f), x)]
  BY ConcatLast
<1> HIDE DEF all, m
<1>8. Range(Domains(f)) = {Lower(f[i].domain) : i \in DOMAIN f}
  BY DEF Range, Domains
<1>9. Range(Domains(e)) = {Lower(e[i].domain) : i \in DOMAIN e}
  BY DEF Range, Domains
<1>10. ASSUME NEW i \in DOMAIN f, i \notin kept PROVE Lower(f[i].domain) \in Range(Domains(e))
  BY <1>3, <1>9, <1>10
<1>11. Range(Domains(m)) = Range(Domains(all))
  BY <1>1, <1>2, <1>4, <1>6, <1>7, <1>8, <1>10
<1>12. ASSUME NEW x \in Range(Domains(all))
       PROVE  m[LastAt(Domains(m), x)] = all[LastAt(Domains(all), x)]
  <2>1. CASE x \in Range(Domains(e))
    BY <1>1, <1>6, <1>7, <2>1
  <2>2. CASE x \notin Range(Domains(e))
    <3>1. x \in Range(Domains(f)) /\ x \in Range(Domains(p))
      BY <1>1, <1>6, <1>7, <1>11, <2>2
    <3>2. \A i \in DOMAIN f : Lower(f[i].domain) = x => i \in kept
      BY <1>10, <2>2
    <3>q. QED
      BY <1>1, <1>4, <1>6, <1>7, <2>2, <3>1, <3>2
  <2>q. QED
    BY <2>1, <2>2
<1>q. QED
  BY <1>1, <1>5, <1>11, <1>12 DEF m, all

\* The accounts and the keys are the last of each name, the environment after
\* the file.
LEMMA EntriesEffective ==
  ASSUME NEW x \in Inputs
  PROVE  EffectiveEntries(Normalized(Raw(x)), x.file, x.env)
<1> DEFINE f == x.file
           e == x.env
           b == WithFile(Defaults, f)
           r == Raw(x)
           c == Normalized(r)
<1>1. IsFile(f) /\ IsEnv(e)
  BY InputsAssumption
<1>2. AreAccounts(f.accounts) /\ AreKeys(f.dkim) /\ AreAccounts(e.accounts) /\ AreKeys(e.dkim)
  BY <1>1 DEF IsFile, IsEnv
<1>3. IsCfg(b) /\ b.accounts = f.accounts /\ b.dkim = f.dkim
  BY FileOver
<1>4. /\ IsCfg(r) /\ r.accounts = b.accounts \o e.accounts
      /\ r.dkim = MergedDKIM(b.dkim, e.dkim)
  BY <1>3, EnvOver DEF Raw
<1>5. c.accounts = NormalAccounts(r.accounts) /\ c.dkim = NormalKeys(r.dkim)
  BY <1>4, NormalOver
<1> HIDE DEF c, r, b, e, f
<1>6. EffectiveAccounts(c, f, e)
  <2> DEFINE all == f.accounts \o e.accounts
             ca == c.accounts
  <2>1. AreAccounts(all)
    <3> DEFINE A == [email : STRING, password : STRING]
    <3>1. f.accounts \in Seq(A) /\ e.accounts \in Seq(A)
      BY <1>2 DEF AreAccounts
    <3> HIDE DEF A
    <3>2. all \in Seq(A)
      BY <3>1, ConcatProperties
    <3>q. QED
      BY <3>2 DEF AreAccounts, A
  <2>2. ca = NormalAccounts(all)
    <3>1. r.accounts = all
      BY <1>3, <1>4, Zenon
    <3>q. QED
      BY <1>5, <3>1, Zenon
  <2> HIDE DEF all, ca
  <2>3. /\ Range(Emails(ca)) = Range(Emails(all))
        /\ IsInjective([i \in DOMAIN ca |-> ca[i].email])
        /\ \A i \in DOMAIN ca : ca[i].password = all[LastAt(Emails(all), ca[i].email)].password
    BY <2>1, <2>2, AccountsNormal
  <2>q. QED
    BY <2>3, Zenon DEF EffectiveAccounts, all, ca
<1>7. EffectiveKeys(c, f, e)
  <2> DEFINE fk == f.dkim
             ek == e.dkim
             all == fk \o ek
             m == MergedDKIM(fk, ek)
             ck == c.dkim
  <2>1. AreKeys(fk) /\ AreKeys(ek)
    BY <1>2
  <2>2. ck = NormalKeys(m)
    BY <1>3, <1>4, <1>5, Zenon
  <2> HIDE DEF fk, ek, ck
  <2>3. /\ AreKeys(m) /\ Range(Domains(m)) = Range(Domains(all))
        /\ \A y \in Range(Domains(all)) :
             m[LastAt(Domains(m), y)] = all[LastAt(Domains(all), y)]
    BY ONLY <2>1, MergedLast
  <2> HIDE DEF all, m
  <2>4. /\ Range(Domains(ck)) = Range(Domains(m))
        /\ IsInjective([i \in DOMAIN ck |-> ck[i].domain])
        /\ \A i \in DOMAIN ck : /\ ck[i].domain \in Range(Domains(m))
                                /\ ck[i].selector = Trim(m[LastAt(Domains(m), ck[i].domain)].selector)
    BY <2>3, <2>2, KeysNormal
  <2>5. \A i \in DOMAIN ck :
          ck[i].selector = Trim(all[LastAt(Domains(all), ck[i].domain)].selector)
    BY <2>3, <2>4
  <2>6. Range(Domains(ck)) = Range(Domains(all))
    BY <2>3, <2>4
  <2>q. QED
    BY <2>4, <2>5, <2>6, Zenon DEF EffectiveKeys, all, fk, ek, ck
<1>q. QED
  BY <1>6, <1>7 DEF EffectiveEntries, c, r, e, f

----------------------------------------------------------------------------
(* What Load has made of the input.                                        *)

\* Where Load is, and what it has made of the input.
Kept ==
  /\ pc = "file" => cfg = Defaults
  /\ pc = "env" => cfg = WithFile(Defaults, input.file)
  /\ pc \in {"validate"} \cup {"open", "check", "ddl", "record", "seed"} \cup Running =>
       ~EnvPanics(WithFile(Defaults, input.file))
  /\ pc = "validate" => cfg = Raw(input)
  /\ Loaded => ~Invalid(Raw(input)) /\ cfg = Normalized(Raw(input))

\* The configuration after Load is never touched.
LEMMA KeptNext == Kept /\ [Next]_vars => Kept'
<1>1. SUFFICES ASSUME Kept, [Next]_vars PROVE Kept'
  OBVIOUS
<1>2. input' = input
  BY <1>1, InputFrame
<1>3. CASE ReadFile
  BY <1>1, <1>2, <1>3 DEF ReadFile, Kept, Goto, Loaded, Starting, Running
<1>4. CASE ApplyEnv
  BY <1>1, <1>2, <1>4 DEF ApplyEnv, Kept, Raw, Goto, Loaded, Starting, Running
<1>5. CASE Validate
  BY <1>1, <1>2, <1>5 DEF Validate, Kept, Goto, Loaded, Starting, Running
<1>6. CASE cfg' = cfg /\ ~ReadFile /\ ~ApplyEnv /\ ~Validate
  <2>1. pc' \in {"file", "env", "validate"} => pc' = pc
    BY <1>1, <1>6, PcFrame DEF Main, Open, CheckVersion, ApplyDDL, RecordVersion, Seed, StartupPrune,
      Select, StopHttp, StopSmtp, WaitSmtp, Exit, Signal, Goto
  <2>2. Loaded' => Loaded
    BY <1>1, <1>6, PcFrame DEF Main, Open, CheckVersion, ApplyDDL, RecordVersion, Seed, StartupPrune,
      Select, StopHttp, StopSmtp, WaitSmtp, Exit, Signal, Goto, Loaded, Starting, Running
  <2>3. Loaded <=> pc \in {"open", "check", "ddl", "record", "seed"} \cup Running
    BY DEF Loaded, Starting
  <2>4. Loaded' <=> pc' \in {"open", "check", "ddl", "record", "seed"} \cup Running
    BY DEF Loaded, Starting
  <2>q. QED
    BY <1>1, <1>2, <1>6, <2>1, <2>2, <2>3, <2>4 DEF Kept
<1>q. QED
  BY <1>1, <1>3, <1>4, <1>5, <1>6, CfgFrame

----------------------------------------------------------------------------
(* The reasons to stop.                                                    *)

\* A process that loaded its configuration stops for the reasons given.
LEMMA StartsNext ==
  Types /\ Schema /\ Kept /\ AcceptedStarts /\ [Next]_vars => AcceptedStarts'
<1>1. SUFFICES ASSUME Types, Schema, Kept, AcceptedStarts, [Next]_vars PROVE AcceptedStarts'
  OBVIOUS
<1>2. faults \in Nat /\ input \in Inputs
  BY <1>1 DEF Types, TypeOK
<1>3. ASSUME pc' = "panicked" PROVE cfg'.storage = <<>> \/ cfg'.num["poll_interval"] <= 0
  <2>1. CASE pc = "panicked"
    BY <1>1, <2>1, CfgFrame DEF AcceptedStarts, ReadFile, ApplyEnv, Validate
  <2>2. CASE ApplyEnv
    BY <1>3, <2>2 DEF ApplyEnv, Goto, EnvPanics
  <2>3. CASE Seed
    <3>1. /\ pc = "seed" /\ cfg' = cfg
          /\ \/ cfg.num["poll_interval"] <= 0
             \/ cfg.num["concurrency"] < 0
             \/ cfg.api # <<>> /\ cfg.web = <<>>
      BY <1>3, <2>3, Zenon DEF Seed, Goto
    <3>2. ~Invalid(Raw(input)) /\ cfg = Normalized(Raw(input))
      BY <1>1, <3>1 DEF Kept, Loaded, Starting
    <3>3. /\ cfg.num["concurrency"] \in Int /\ cfg.num["concurrency"] >= 1
          /\ cfg.api # <<>> => cfg.web # <<>>
      <4>1. "concurrency" \in Num
        BY DEF Num, Positive
      <4>q. QED
        BY <1>2, <3>2, <4>1, AcceptedFacts
    <3>q. QED
      BY <3>1, <3>3
  <2>q. QED
    BY <1>1, <1>3, <2>1, <2>2, <2>3, PcFrame DEF Main, ReadFile, Validate, Open, CheckVersion,
      ApplyDDL, RecordVersion, StartupPrune, Select, StopHttp, StopSmtp, WaitSmtp, Exit, Signal, Goto
<1>4. ASSUME pc' = "failed"
      PROVE  \/ faults' > 0
             \/ MySQL' /\ (Garbled' \/ v' \in Version)
             \/ LongPassword' \/ BlankSelector'
  <2>1. CASE pc = "failed"
    <3>1. cfg' = cfg /\ v' = v
      BY <1>1, <2>1, CfgFrame, DbFrame DEF ReadFile, ApplyEnv, Validate, DbStep, CheckVersion,
        ApplyDDL, RecordVersion, OtherApplies, OtherRecords, db
    <3>2. faults > 0 => faults' > 0
      BY <1>1, <1>2, RestFrame
    <3>3. /\ MySQL' <=> MySQL
          /\ Garbled' <=> Garbled
          /\ LongPassword' <=> LongPassword
          /\ BlankSelector' <=> BlankSelector
      BY <3>1 DEF MySQL, Garbled, LongPassword, BlankSelector
    <3>q. QED
      BY <1>1, <2>1, <3>1, <3>2, <3>3 DEF AcceptedStarts
  <2>2. CASE Fails
    <3>1. faults' = faults + 1
      BY <2>2 DEF Fails
    <3>2. faults' > 0
      BY <1>2, <3>1
    <3>q. QED
      BY <3>2
  <2>3. CASE (ApplyDDL \/ RecordVersion) /\ ~Fails
    <3>1. /\ (pc = "ddl" /\ MySQL) \/ (pc = "record" /\ v \in recorded)
          /\ v' = v /\ cfg' = cfg
      BY <1>4, <2>3 DEF ApplyDDL, RecordVersion, Goto
    <3>q. QED
      BY <1>1, <3>1 DEF Schema, MySQL
  <2>4. CASE Seed /\ ~Fails
    <3>1. cfg' = cfg /\ (LongPassword \/ BlankSelector)
      BY <1>4, <2>4, Zenon DEF Seed, Goto
    <3>q. QED
      BY <3>1 DEF LongPassword, BlankSelector
  <2>5. CASE Open /\ ~Fails
    <3>1. cfg' = cfg /\ Garbled
      BY <1>4, <2>5, Zenon DEF Open, Goto
    <3>q. QED
      BY <3>1 DEF Garbled, MySQL
  <2>q. QED
    BY <1>1, <1>4, <2>1, <2>2, <2>3, <2>4, <2>5, PcFrame DEF Main, ReadFile, ApplyEnv, Validate,
      CheckVersion, StartupPrune, Select, StopHttp, StopSmtp, WaitSmtp, Exit, Signal, Goto
<1>q. QED
  BY <1>3, <1>4 DEF AcceptedStarts

----------------------------------------------------------------------------
(* The history.                                                            *)

\* A window that fits is the cutoff: the arithmetic of W bits is exact.
LEMMA CutoffExact ==
  ASSUME NEW days \in Nat, WindowFits(days)
  PROVE  Cutoff(days) = -(days * Day) /\ days * Day \in Nat
<1> DEFINE P == 2^(W - 1)
           n == days * Day
<1>1. W - 1 \in Nat /\ Day \in Nat
  BY ProcessAssumption
<1>2. P \in Int
  BY <1>1
<1>3. n \in Nat
  BY <1>1
<1>4. n < P
  BY DEF WindowFits
<1>5. Cutoff(days) = ((-(((n + P) % (2 * P)) - P) + P) % (2 * P)) - P
  BY DEF Cutoff, Signed
<1> HIDE DEF P, n
<1>6. (n + P) % (2 * P) = n + P
  BY <1>2, <1>3, <1>4
<1>7. (-n + P) % (2 * P) = -n + P
  BY <1>2, <1>3, <1>4
<1>8. Cutoff(days) = -n
  <2>1. ((n + P) % (2 * P)) - P = n
    BY <1>2, <1>3, <1>6
  <2>2. Cutoff(days) = ((-n + P) % (2 * P)) - P
    BY <1>5, <2>1
  <2>q. QED
    BY <1>2, <1>3, <1>7, <2>2
<1>q. QED
  BY <1>3, <1>8 DEF n

\* Before the servers start the history is whole, and then it keeps the window.
Window == (pc \in Starting => history = 0..MaxAge) /\ HistoryKept

\* No pruning takes what is within the window.
LEMMA WindowNext == Types /\ Kept /\ Window /\ [Next]_vars => Window'
<1>1. SUFFICES ASSUME Types, Kept, Window, [Next]_vars PROVE Window'
  OBVIOUS
<1> DEFINE days == cfg.num["send_history_days"]
           Inside == {age \in 0..MaxAge : age <= days * Day \/ days = 0}
<1>2. MaxAge \in Nat /\ history \subseteq 0..MaxAge /\ input \in Inputs
  BY <1>1, ProcessAssumption DEF Types, TypeOK
<1>3. pc' \in Starting => pc \in Starting
  BY <1>1, PcFrame DEF Main, ReadFile, ApplyEnv, Validate, Open, CheckVersion, ApplyDDL,
    RecordVersion, Seed, StartupPrune, Select, StopHttp, StopSmtp, WaitSmtp, Exit, Signal, Goto,
    Starting, Running
<1>4. history' = history \/ (pc \in Running /\ PrunedNow)
  BY <1>1 DEF Next, Main, ReadFile, ApplyEnv, Validate, Open, CheckVersion, ApplyDDL, RecordVersion,
    Seed, StartupPrune, Select, StopHttp, StopSmtp, WaitSmtp, Exit, OtherApplies, OtherRecords,
    HourlyPrune, Listen, Accept, ServeConn, SessionEnds, CloseListener, ServeReturns, Signal, vars,
    Prune, PrunedNow, Running
<1>5. pc' \in Starting => history' = 0..MaxAge
  <2>1. pc \in Starting => pc \notin Running
    BY DEF Starting, Running
  <2>q. QED
    BY <1>1, <1>3, <1>4, <2>1 DEF Window
<1>6. ASSUME pc' \in Running PROVE cfg' = cfg /\ (pc \in Running \/ Seed)
  <2>1. cfg' = cfg
    BY <1>1, <1>6, CfgFrame DEF ReadFile, ApplyEnv, Validate, Goto, Running
  <2>2. pc \in Running \/ Seed
    BY <1>1, <1>6, PcFrame DEF Main, ReadFile, ApplyEnv, Validate, Open, CheckVersion, ApplyDDL,
      RecordVersion, StartupPrune, Select, StopHttp, StopSmtp, WaitSmtp, Exit, Signal, Goto, Running
  <2>q. QED
    BY <2>1, <2>2
<1>7. ASSUME pc' \in Running, WindowFits(days) PROVE Inside \subseteq history'
  <2>1. CASE Seed
    <3>1. history' = history /\ pc \in Starting
      BY <2>1 DEF Seed, Starting
    <3>q. QED
      BY <1>1, <3>1 DEF Window
  <2>2. CASE pc \in Running
    <3>1. Inside \subseteq history
      BY <1>1, <1>7, <2>2 DEF Window, HistoryKept
    <3>2. CASE history' = history
      BY <3>1, <3>2
    <3>3. CASE PrunedNow
      <4>1. days > 0 /\ history' = Pruned(days)
        BY <3>3 DEF PrunedNow
      <4>2. days \in Nat
        <5>1. ~Invalid(Raw(input)) /\ cfg = Normalized(Raw(input))
          BY <1>1, <2>2 DEF Kept, Loaded
        <5>2. "send_history_days" \in Num
          BY DEF Num, NonNegative
        <5>3. days \in Int /\ days >= 0
          BY <1>2, <5>1, <5>2, AcceptedFacts
        <5>q. QED
          BY <5>3
      <4> DEFINE n == days * Day
      <4>3. Cutoff(days) = -n /\ n \in Nat
        BY <1>7, <4>2, CutoffExact
      <4>4. \A age \in Inside : age \in history /\ age <= n /\ age \in Nat
        BY <1>2, <3>1, <4>1, <4>2
      <4> HIDE DEF n, Inside, days
      <4>5. \A age \in Inside : ~(-age < Cutoff(days))
        BY <4>3, <4>4
      <4>q. QED
        BY <4>1, <4>4, <4>5 DEF Pruned
    <3>q. QED
      BY <1>4, <3>2, <3>3
  <2>q. QED
    BY <1>6, <1>7, <2>1, <2>2
<1>q. QED
  BY <1>5, <1>6, <1>7 DEF Window, HistoryKept

----------------------------------------------------------------------------
(* The theorems.                                                           *)

\* The inductive invariant.
IInv == Types /\ Schema /\ Cut /\ Kept /\ AcceptedStarts /\ Window

\* The first state of a life satisfies it.
LEMMA IInvInit == Init => IInv
<1>1. SUFFICES ASSUME Init PROVE IInv
  OBVIOUS
<1>2. pc = "file" /\ cfg = Defaults /\ history = 0..MaxAge
  BY <1>1 DEF Init
<1>3. Cut
  BY <1>2 DEF Cut, AtMostOneCut
<1>4. Kept
  BY <1>2 DEF Kept, Loaded, Starting, Running
<1>5. AcceptedStarts
  BY <1>2 DEF AcceptedStarts
<1>6. Window
  BY <1>2 DEF Window, HistoryKept, Starting, Running
<1>q. QED
  BY <1>1, <1>3, <1>4, <1>5, <1>6, TypesInit, SchemaInit DEF IInv

\* Every step keeps it.
THEOREM AlwaysIInv == Spec => []IInv
<1>1. IInv /\ [Next]_vars => IInv'
  BY TypesNext, SchemaNext, CutNext, KeptNext, StartsNext, WindowNext DEF IInv
<1>q. QED
  BY <1>1, IInvInit, PTL DEF Spec

\* Every variable keeps its type: the channel of the results never holds more
\* than its three places, so no server blocks on it, and the WaitGroup never
\* counts more than the sessions there can be.
THEOREM TypeCorrect == Spec => []TypeOK
<1>1. IInv => TypeOK
  BY DEF IInv, Types
<1>q. QED
  BY <1>1, AlwaysIInv, PTL

\* Wherever migrate is killed, and whatever another instance does meanwhile, the
\* database is one the next life can migrate on; the servers start on a
\* database with every table.
THEOREM AlwaysMigratesOn == Spec => []MigratesOn
<1>1. IInv => MigratesOn
  <2>1. SUFFICES ASSUME IInv PROVE LeftOver /\ (pc \in {"seed"} \cup Running => tables = Version)
    BY DEF MigratesOn
  <2>2. PICK k \in 0..NVersions : Left(k, tables, recorded)
    BY <2>1, LeftIs DEF IInv, Schema, LeftOver
  <2>3. ASSUME pc \in {"seed"} \cup Running PROVE tables = Version
    <3>1. 1..NVersions \subseteq 1..k
      BY <2>1, <2>2, <2>3, ProcessAssumption DEF IInv, Schema, Left
    <3>2. k = NVersions
      BY <3>1, ProcessAssumption
    <3>q. QED
      BY <2>2, <3>2, ProcessAssumption DEF Left, Version
  <2>q. QED
    BY <2>1, <2>3 DEF IInv, Schema
<1>q. QED
  BY <1>1, AlwaysIInv, PTL

\* A Shutdown that says it drained the server cut at most the one connection
\* that was between Accept and wg.Add.
THEOREM AtMostOneSessionCut == Spec => []AtMostOneCut
<1>1. IInv => AtMostOneCut
  BY DEF IInv, Cut
<1>q. QED
  BY <1>1, AlwaysIInv, PTL

\* Once Load accepted a configuration, the process fails or panics only for the
\* reasons AcceptedStarts names, whatever the file and the environment say.
THEOREM AcceptedAlwaysStarts == Spec => []AcceptedStarts
<1>1. IInv => AcceptedStarts
  BY DEF IInv
<1>q. QED
  BY <1>1, AlwaysIInv, PTL

\* PruneSendLogs keeps everything within a window that fits a time.Duration,
\* for every width, every length of a day and every number of days.
THEOREM HistoryAlwaysKept == Spec => []HistoryKept
<1>1. IInv => HistoryKept
  BY DEF IInv, Window
<1>q. QED
  BY <1>1, AlwaysIInv, PTL

\* The documented precedence: in every accepted configuration the environment
\* is over the file and the file over the defaults, setting by setting; accounts
\* and keys are one for each name of the two, the last.  For every file and
\* environment, lists of any length included.
THEOREM AlwaysPrecedence == Spec => []Precedence
<1>1. IInv => Precedence
  <2>1. SUFFICES ASSUME IInv, Loaded
        PROVE  /\ EffectiveSettings(cfg, input.file, input.env)
               /\ EffectiveEntries(cfg, input.file, input.env)
    BY DEF Precedence
  <2>2. /\ input \in Inputs /\ ~Invalid(Raw(input)) /\ cfg = Normalized(Raw(input))
        /\ ~EnvPanics(WithFile(Defaults, input.file))
    BY <2>1 DEF IInv, Types, Kept, Loaded, Starting
  <2>q. QED
    BY <2>2, SettingsEffective, EntriesEffective
<1>q. QED
  BY <1>1, AlwaysIInv, PTL

----------------------------------------------------------------------------
(* Why main ends: every step of it is one fewer.                           *)

\* The steps it takes, at most, through the migrations from u on: check, apply, record.
ToMigrate(u) == 3 * (NVersions + 1 - u)

\* The steps main can still take at place p, when migration u comes next.
AheadAt(p, u) ==
  CASE p \in Exited     -> 0
    [] p = "last"       -> 1
    [] p = "waitSmtp"   -> 2
    [] p = "stopSmtp"   -> 3
    [] p = "stopPanel"  -> 4
    [] p = "stopApi"    -> 5
    [] p = "serving"    -> 6
    [] p = "prune"      -> 7
    [] p = "seed"       -> 8
    [] p = "record"     -> 7 + ToMigrate(u)
    [] p = "ddl"        -> 8 + ToMigrate(u)
    [] p = "check"      -> 9 + ToMigrate(u)
    [] p = "open"       -> 10 + ToMigrate(u)
    [] p = "validate"   -> 11 + ToMigrate(u)
    [] p = "env"        -> 12 + ToMigrate(u)
    [] p = "file"       -> 13 + ToMigrate(u)

Ahead == AheadAt(pc, v)

\* Its values.
LEMMA AheadIs ==
  ASSUME NEW u
  PROVE  /\ \A p \in Exited : AheadAt(p, u) = 0
         /\ AheadAt("last", u) = 1 /\ AheadAt("waitSmtp", u) = 2
         /\ AheadAt("stopSmtp", u) = 3 /\ AheadAt("stopPanel", u) = 4
         /\ AheadAt("stopApi", u) = 5 /\ AheadAt("serving", u) = 6
         /\ AheadAt("prune", u) = 7 /\ AheadAt("seed", u) = 8
         /\ AheadAt("record", u) = 7 + ToMigrate(u) /\ AheadAt("ddl", u) = 8 + ToMigrate(u)
         /\ AheadAt("check", u) = 9 + ToMigrate(u) /\ AheadAt("open", u) = 10 + ToMigrate(u)
         /\ AheadAt("validate", u) = 11 + ToMigrate(u) /\ AheadAt("env", u) = 12 + ToMigrate(u)
         /\ AheadAt("file", u) = 13 + ToMigrate(u)
<1>1. \A p \in Exited : AheadAt(p, u) = 0
  BY DEF AheadAt, Exited
<1>2. /\ AheadAt("last", u) = 1 /\ AheadAt("waitSmtp", u) = 2
      /\ AheadAt("stopSmtp", u) = 3 /\ AheadAt("stopPanel", u) = 4
      /\ AheadAt("stopApi", u) = 5 /\ AheadAt("serving", u) = 6
      /\ AheadAt("prune", u) = 7 /\ AheadAt("seed", u) = 8
  BY DEF AheadAt, Exited
<1>3. /\ AheadAt("record", u) = 7 + ToMigrate(u) /\ AheadAt("ddl", u) = 8 + ToMigrate(u)
      /\ AheadAt("check", u) = 9 + ToMigrate(u) /\ AheadAt("open", u) = 10 + ToMigrate(u)
  BY DEF AheadAt, Exited
<1>4. /\ AheadAt("validate", u) = 11 + ToMigrate(u) /\ AheadAt("env", u) = 12 + ToMigrate(u)
      /\ AheadAt("file", u) = 13 + ToMigrate(u)
  BY DEF AheadAt, Exited
<1>q. QED
  BY <1>1, <1>2, <1>3, <1>4

\* While there is a version to apply or to record, v is one.
AtVersion == v \in 1..NVersions + 1 /\ (pc \in {"ddl", "record"} => v <= NVersions)

\* Every step keeps it.
LEMMA AtVersionNext == Types /\ AtVersion /\ Types' /\ [Next]_vars => AtVersion'
<1>1. SUFFICES ASSUME Types, AtVersion, Types', [Next]_vars,
                      pc' \in {"ddl", "record"}
      PROVE  v' <= NVersions
  BY DEF Types, TypeOK, AtVersion
<1>2. CASE CheckVersion
  BY <1>1, <1>2, ProcessAssumption DEF CheckVersion, Goto, Version
<1>3. CASE ApplyDDL
  BY <1>1, <1>3 DEF ApplyDDL, AtVersion
<1>4. CASE pc' = pc /\ ~CheckVersion /\ ~ApplyDDL
  <2>1. v' = v
    BY <1>1, <1>4, DbFrame DEF DbStep, RecordVersion, Goto, OtherApplies, OtherRecords
  <2>q. QED
    BY <1>1, <1>4, <2>1 DEF AtVersion
<1>q. QED
  BY <1>1, <1>2, <1>3, <1>4, PcFrame DEF Main, ReadFile, ApplyEnv, Validate, Open,
    RecordVersion, Seed, StartupPrune, Select, StopHttp, StopSmtp, WaitSmtp, Exit, Signal, Goto

\* A step of main leaves it fewer, and no other step gives it more.
Advances == Ahead' <= Ahead /\ (Main => Ahead' < Ahead)

\* Every step does so.
LEMMA AdvancesNext == Types /\ AtVersion /\ [Next]_vars => Advances
<1>1. SUFFICES ASSUME Types, AtVersion, [Next]_vars PROVE Advances
  OBVIOUS
<1> DEFINE k == ToMigrate(v)
           l == ToMigrate(v')
<1>2. Ahead = AheadAt(pc, v) /\ Ahead' = AheadAt(pc', v')
  BY DEF Ahead
<1>3. /\ v \in Nat /\ NVersions \in Nat /\ k \in Nat
      /\ v' = v => l = k
      /\ v' = v + 1 => l = k - 3
      /\ pc \in {"ddl", "record"} => k >= 3
  BY <1>1, ProcessAssumption DEF AtVersion, ToMigrate
<1>4. /\ \A p \in Exited : AheadAt(p, v) = 0 /\ AheadAt(p, v') = 0
      /\ AheadAt("record", v) = 7 + k /\ AheadAt("record", v') = 7 + l
      /\ AheadAt("ddl", v) = 8 + k /\ AheadAt("ddl", v') = 8 + l
      /\ AheadAt("check", v) = 9 + k /\ AheadAt("check", v') = 9 + l
      /\ AheadAt("open", v) = 10 + k /\ AheadAt("open", v') = 10 + l
      /\ AheadAt("validate", v) = 11 + k /\ AheadAt("validate", v') = 11 + l
      /\ AheadAt("env", v) = 12 + k /\ AheadAt("env", v') = 12 + l
      /\ AheadAt("file", v) = 13 + k
  BY AheadIs
<1>5. \A u : /\ AheadAt("last", u) = 1 /\ AheadAt("waitSmtp", u) = 2
             /\ AheadAt("stopSmtp", u) = 3 /\ AheadAt("stopPanel", u) = 4
             /\ AheadAt("stopApi", u) = 5 /\ AheadAt("serving", u) = 6
             /\ AheadAt("prune", u) = 7 /\ AheadAt("seed", u) = 8
  BY AheadIs
<1> HIDE DEF k, l
<1>6. Ahead \in Nat /\ (pc \notin Exited => Ahead >= 1)
  <2>1. pc \in Starting \cup Running \cup Exited
    BY <1>1 DEF Types, TypeOK
  <2>2. CASE pc \in Exited
    BY <1>2, <1>4, <2>2
  <2>3. CASE pc \in Starting
    BY <1>2, <1>3, <1>4, <1>5, <2>3 DEF Starting
  <2>4. CASE pc \in Running
    BY <1>2, <1>5, <2>4 DEF Running
  <2>q. QED
    BY <2>1, <2>2, <2>3, <2>4
<1>7. ASSUME pc' \in Exited, pc \notin Exited PROVE Ahead' < Ahead
  BY <1>2, <1>4, <1>6, <1>7
<1>8. CASE ReadFile \/ ApplyEnv \/ Validate \/ Open
  <2>1. /\ v' = v
        /\ \/ pc' \in Exited /\ pc \notin Exited
           \/ pc = "file" /\ pc' = "env"
           \/ pc = "env" /\ pc' = "validate"
           \/ pc = "validate" /\ pc' = "open"
           \/ pc = "open" /\ pc' = "check"
    BY <1>8 DEF ReadFile, ApplyEnv, Validate, Open, Goto, Exited
  <2>2. Ahead' < Ahead
    BY <1>2, <1>3, <1>4, <1>7, <2>1
  <2>q. QED
    BY <1>2, <1>6, <2>2, <1>3, <1>4, <2>1 DEF Advances
<1>9. CASE CheckVersion
  <2>1. \/ pc' \in Exited /\ pc \notin Exited
        \/ pc = "check" /\ pc' = "seed"
        \/ pc = "check" /\ pc' = "check" /\ v' = v + 1
        \/ pc = "check" /\ pc' = "ddl" /\ v' = v
    BY <1>9 DEF CheckVersion, Goto, Exited
  <2>q. QED
    BY <1>2, <1>3, <1>4, <1>5, <1>6, <1>7, <2>1 DEF Advances
<1>10. CASE ApplyDDL \/ RecordVersion
  <2>1. \/ pc' \in Exited /\ pc \notin Exited
        \/ pc = "ddl" /\ pc' = "record" /\ v' = v
        \/ pc = "record" /\ pc' = "check" /\ v' = v + 1
    BY <1>10 DEF ApplyDDL, RecordVersion, Goto, Exited
  <2>q. QED
    BY <1>2, <1>3, <1>4, <1>6, <1>7, <2>1 DEF Advances
<1>11. CASE \/ Seed \/ StartupPrune \/ Select \/ StopSmtp \/ WaitSmtp \/ Exit
            \/ StopHttp("api", "stopApi", "stopPanel") \/ StopHttp("panel", "stopPanel", "stopSmtp")
  <2>1. \/ pc' \in Exited /\ pc \notin Exited
        \/ pc = "seed" /\ pc' = "prune"
        \/ pc = "prune" /\ pc' = "serving"
        \/ pc = "serving" /\ pc' = "stopApi"
        \/ pc = "stopApi" /\ pc' = "stopPanel"
        \/ pc = "stopPanel" /\ pc' = "stopSmtp"
        \/ pc = "stopSmtp" /\ pc' = "waitSmtp"
        \/ pc = "waitSmtp" /\ pc' = "last"
    BY <1>11 DEF Seed, StartupPrune, Select, StopSmtp, WaitSmtp, Exit, StopHttp, Goto, Exited
  <2>q. QED
    BY <1>2, <1>5, <1>6, <1>7, <2>1 DEF Advances
<1>12. CASE ~Main /\ Signal
  BY <1>2, <1>4, <1>6, <1>7, <1>12 DEF Signal, Goto, Advances, Exited, Starting
<1>13. CASE ~Main /\ UNCHANGED pc
  <2>1. v' = v
    BY <1>1, <1>13, DbFrame DEF DbStep, Main, OtherApplies, OtherRecords
  <2>q. QED
    BY <1>2, <1>6, <1>13, <2>1 DEF Advances
<1>q. QED
  BY <1>1, <1>8, <1>9, <1>10, <1>11, <1>12, <1>13, PcFrame DEF Main

\* The steps left are a natural number that every step of main makes smaller and
\* no other makes larger: main never loops, whatever the other goroutines, the
\* other instance and the system do.  The other half of StopsWhenTold, that main
\* has a next step once it is told to stop, is TLC's.
THEOREM MainRunsOut == Spec => [](Ahead \in Nat) /\ [][Advances]_vars
<1>1. Init => AtVersion
  BY ProcessAssumption DEF Init, AtVersion
<1>2. IInv => Types
  BY DEF IInv
<1>3. Spec => []AtVersion
  BY <1>1, <1>2, AlwaysIInv, AtVersionNext, PTL DEF Spec
<1>4. Types /\ AtVersion => Ahead \in Nat
  <2>1. SUFFICES ASSUME Types, AtVersion PROVE Ahead \in Nat
    OBVIOUS
  <2>2. ToMigrate(v) \in Nat
    BY <2>1, ProcessAssumption DEF AtVersion, ToMigrate
  <2>3. pc \in Starting \cup Running \cup Exited
    BY <2>1 DEF Types, TypeOK
  <2>4. CASE pc \in Exited
    BY <2>4, AheadIs DEF Ahead
  <2>5. CASE pc \in {"seed"} \cup Running
    BY <2>5, AheadIs DEF Ahead, Running
  <2>6. CASE pc \in Starting \ {"seed"}
    BY <2>2, <2>6, AheadIs DEF Ahead, Starting
  <2>q. QED
    BY <2>3, <2>4, <2>5, <2>6
<1>5. Spec => [](Ahead \in Nat)
  BY <1>2, <1>3, <1>4, AlwaysIInv, PTL
<1>6. Spec => [][Advances]_vars
  BY <1>2, <1>3, AlwaysIInv, AdvancesNext, PTL DEF Spec
<1>q. QED
  BY <1>5, <1>6, PTL
=============================================================================
