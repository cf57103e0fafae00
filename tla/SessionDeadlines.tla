-------------------------- MODULE SessionDeadlines --------------------------
(***************************************************************************)
(* SmtpSession with its deadlines (internal/smtpd/session.go).             *)
(*                                                                         *)
(* SetDeadline bounds reads and writes.  readLine sets the part for reads  *)
(* anew for every line, readDataLine relies on what handleData has set; the*)
(* part for writes stays until somebody clears it: handleData and a        *)
(* successful STARTTLS do, a prompt of AUTH and a failed STARTTLS do not.  *)
(* A reply after that deadline is not written, and neither is any later one*)
(* (bufio.Writer keeps its error).  A read that gets nothing fails when its*)
(* deadline passes; without one only if the client goes.                   *)
(***************************************************************************)
EXTENDS SmtpSession

VARIABLES
  readDeadline,    \* of the read that is waiting: "none" or "armed"
  writeDeadline,   \* "none", "armed", or "passed"
  mute             \* a reply could not be written

dvars == <<vars, readDeadline, writeDeadline, mute>>

DInit == Init /\ readDeadline = "none" /\ writeDeadline = "none" /\ mute = FALSE

\* Mutant: readLine waits under whatever deadline there is.
ReadLineUnarmed(was) == readDeadline' = was

\* The step ends in readLine, with deadline was in force until then.
ReadLine(was) == readDeadline' = "armed"

\* No read of this session begins.
NoRead == UNCHANGED readDeadline

\* A reply under the deadline that is in force.
Replied == mute' = (mute \/ writeDeadline = "passed")

\* A command that leaves the deadline alone.
Plain ==
  /\ \/ (Hello \/ NoEffect \/ Rset \/ Mail \/ Rcpt) /\ ReadLine(readDeadline)
     \/ Quit /\ NoRead
  /\ Replied /\ UNCHANGED writeDeadline

\* reply334 arms the deadline before it writes; credentials that came inline
\* are answered under the old one.
DAuth ==
  /\ Auth
  /\ IF pc' = "auth" THEN writeDeadline' = "armed" /\ UNCHANGED mute /\ ReadLine("armed")
     ELSE Replied /\ UNCHANGED writeDeadline /\ ReadLine(readDeadline)

\* The answer to the credentials, after the prompt's deadline or before it.
DAuthLine == AuthLine /\ Replied /\ UNCHANGED writeDeadline /\ ReadLine(readDeadline)

\* The client has seen the 220 and the handshake succeeds; or it fails, or the
\* 220 was not written, and the session goes on in plain text.
DStartTLS ==
  \/ /\ StartTLS
     /\ ~mute /\ writeDeadline # "passed" /\ writeDeadline' = "none"
     /\ UNCHANGED mute /\ ReadLine("none")
  \/ /\ tlsMode = "starttls" /\ ~tlsOn
     /\ NoEffect
     /\ Replied /\ writeDeadline' = "armed" /\ ReadLine("armed")

\* The 354 goes out before the deadline of the text is armed.
DData == Data /\ Replied /\ writeDeadline' = "armed" /\ readDeadline' = "armed"

\* Mutant: the deadline of the text is not cleared.
DDataEndArmed == DataEnd /\ Replied /\ UNCHANGED writeDeadline /\ ReadLine(readDeadline)

\* The deadline is cleared before the message is queued and answered.
DDataEnd == DataEnd /\ writeDeadline' = "none" /\ UNCHANGED mute /\ ReadLine("none")

DDataFails == DataFails /\ writeDeadline' = "none" /\ UNCHANGED mute /\ ReadLine("none")

\* A line that does not come is answered with 421, or not at all.
DReadFails == ReadFails /\ Replied /\ UNCHANGED writeDeadline /\ NoRead

DeadlinePasses ==
  /\ pc # "closed" /\ writeDeadline = "armed"
  /\ writeDeadline' = "passed"
  /\ UNCHANGED <<vars, readDeadline, mute>>

\* The greeting of a client, or the end of its TLS handshake, which has a
\* deadline of its own.
DGreet ==
  /\ Greet
  /\ IF pc' = "cmd" THEN ReadLine("none") ELSE NoRead
  /\ UNCHANGED <<writeDeadline, mute>>

DAccountChanges == AccountChanges /\ NoRead /\ UNCHANGED <<writeDeadline, mute>>

\* The server offers PIPELINING: commands may come before the replies to those
\* before them, but the text comes after the 354 and credentials after the 334.
FromClient ==
  \/ Plain \/ DAuth \/ DStartTLS \/ DData
  \/ ~mute /\ (DAuthLine \/ DDataEnd)

DNext ==
  \/ FromClient
  \/ DDataFails \/ DReadFails
  \/ DeadlinePasses
  \/ DGreet \/ DAccountChanges

\* The deadline of the read passes.
TimesOut == readDeadline = "armed" /\ (DReadFails \/ DDataFails)

\* Deadlines that are set come to pass; nothing else makes a silent client go.
DSpec == DInit /\ [][DNext]_dvars /\ WF_dvars(DGreet) /\ WF_dvars(TimesOut)

----------------------------------------------------------------------------
\* "Accepted messages are stored in the database queue and answered with 250":
\* a deadline that AUTH or a failed STARTTLS left behind may silence a session,
\* but never between the insert and its answer, where the client would send the
\* message a second time.
StoredIsAnswered == [][stored' # stored => ~mute']_dvars
=============================================================================
