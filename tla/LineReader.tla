----------------------------- MODULE LineReader -----------------------------
(***************************************************************************)
(* How the submission server cuts what a client sends into lines           *)
(* (internal/smtpd/session.go: readLine, readDataLine, readRaw, readData). *)
(*                                                                         *)
(* bufio.Reader.ReadSlice hands out one fragment at a time: up to and      *)
(* including the next line feed, or a full buffer without one.  A step is  *)
(* one fragment, together with what the code does with it, or a read that  *)
(* fails.  A fragment never reaches beyond a line feed, so the client may  *)
(* be thought of as sending its next line when the last one has been read. *)
(*                                                                         *)
(* The sizes are scaled: the code has BufSize = 4096, MaxLine = 8192.      *)
(***************************************************************************)
EXTENDS Integers, SequencesExt

CONSTANTS
  BufSize,       \* the size of bufio's buffer
  MaxLine,       \* maxCommandLine
  Limit,         \* cfg.MaxMessageSize
  LineLen,       \* bound on the length of a line of the text
  TextLen,       \* bound on the number of lines of the text
  CommandLen     \* bound on the length of a command line

ASSUME ReaderAssumption ==
  /\ BufSize \in Nat \ {0} /\ MaxLine \in Nat \ {0}
  /\ Limit \in Nat /\ LineLen \in Nat /\ TextLen \in Nat /\ CommandLen \in Nat

VARIABLES
  task,          \* "command": readLine; "data": readData
  line,          \* the line the client has sent last
  lines,         \* how many lines of its text it has sent
  final,         \* it has sent the terminator
  meant,         \* the text so far as the client wrote it, with bare line feeds
  size,          \* its size as sent, counting one byte for the end of a line
  wire,          \* the bytes sent that have not been read yet
  pc,            \* "read", "done", "tooLong" or "failed"
  buf,           \* readRaw: the line so far
  n,             \* readData: the bytes counted so far
  over,          \* readData: the limit is exceeded
  out            \* readData: the message; readLine: the line

client == <<line, lines, final, meant, size>>
vars == <<task, client, wire, pc, buf, n, over, out>>

Char == {"x", "dot"}
CRLF == <<"cr", "lf">>

Init ==
  /\ \/ /\ task = "command"
        /\ line \in BoundedSeq(Char, CommandLen)
        /\ wire = line \o CRLF
     \/ task = "data" /\ line = <<>> /\ wire = <<>>
  /\ lines = 0 /\ final = FALSE /\ meant = <<>> /\ size = 0
  /\ pc = "read" /\ buf = <<>>
  /\ n = 0 /\ over = FALSE /\ out = <<>>

----------------------------------------------------------------------------
(* The client.                                                             *)

\* RFC 5321, 4.5.2: it doubles a leading dot.
Stuffed(l) == IF l # <<>> /\ l[1] = "dot" THEN <<"dot">> \o l ELSE l

Sending == task = "data" /\ pc = "read" /\ wire = <<>> /\ ~final

SendLine(l) ==
  /\ Sending /\ lines < TextLen
  /\ line' = l /\ lines' = lines + 1
  /\ wire' = Stuffed(l) \o CRLF
  /\ meant' = meant \o l \o <<"lf">>
  /\ size' = size + Len(Stuffed(l)) + 1
  /\ UNCHANGED <<task, final, pc, buf, n, over, out>>

SendDot ==
  /\ Sending
  /\ final' = TRUE
  /\ wire' = <<"dot">> \o CRLF
  /\ size' = size + 2
  /\ UNCHANGED <<task, line, lines, meant, pc, buf, n, over, out>>

----------------------------------------------------------------------------
(* The server.                                                             *)

\* The mode readLine and readDataLine call readRaw with.
Mode == IF task = "command" THEN MaxLine ELSE IF over THEN 0 ELSE -1

\* The next fragment: up to a line feed, or a full buffer.
EndOfLine == SelectInSeq(wire, LAMBDA c : c = "lf")

Fragment ==
  SubSeq(wire, 1, IF EndOfLine \in 1..BufSize THEN EndOfLine ELSE BufSize)

\* Mutant: the limit itself is refused.
AppendedBelow(b, frag) ==
  IF Mode < 0 \/ (Mode > 0 /\ Len(b) + Len(frag) < Mode) THEN b \o frag ELSE b

\* readRaw: what is kept of a fragment.
Appended(b, frag) ==
  IF Mode < 0 \/ (Mode > 0 /\ Len(b) + Len(frag) <= Mode) THEN b \o frag ELSE b

\* strings.TrimRight(line, "\r\n").
Trimmed(b) ==
  SubSeq(b, 1, SelectLastInSeq(b, LAMBDA c : c \notin {"cr", "lf"}))

\* ErrBufferFull: readRaw goes on with the same line.
PartOfLine ==
  /\ pc = "read"
  /\ Len(wire) >= BufSize /\ EndOfLine \notin 1..BufSize
  /\ buf' = Appended(buf, Fragment)
  /\ wire' = SubSeq(wire, Len(Fragment) + 1, Len(wire))
  /\ UNCHANGED <<task, client, pc, n, over, out>>

\* The end of a line is in the buffer: readRaw returns it.
LineComplete ==
  /\ pc = "read"
  /\ EndOfLine \in 1..BufSize
  /\ wire' = SubSeq(wire, Len(Fragment) + 1, Len(wire))
  /\ buf' = <<>>

\* readLine.
CommandLine ==
  LET b == Appended(buf, Fragment) IN
  /\ task = "command"
  /\ LineComplete
  /\ IF Len(b) > MaxLine THEN pc' = "tooLong" /\ UNCHANGED out
     ELSE pc' = "done" /\ out' = Trimmed(b)
  /\ UNCHANGED <<task, client, n, over>>

\* Mutant: the dot the client has doubled is kept.
UnstuffedNot(l) == l

\* The dot the client has doubled is taken away.
Unstuffed(l) == IF l # <<>> /\ l[1] = "dot" THEN Tail(l) ELSE l

\* Mutant: the line ends are not counted.
CountedShort(l) == n + Len(l)

Counted(l) == n + Len(l) + 1

\* One iteration of readData's loop, with the line readDataLine returns.
DataLine ==
  LET l == Trimmed(Appended(buf, Fragment)) IN
  /\ task = "data"
  /\ LineComplete
  /\ n' = Counted(l)
  /\ over' = (over \/ n' > Limit)
  /\ pc' = IF l = <<"dot">> THEN "done" ELSE "read"
  /\ out' = IF l = <<"dot">> \/ over' THEN out ELSE out \o Unstuffed(l) \o <<"lf">>
  /\ UNCHANGED <<task, client>>

\* The deadline passes or the client goes: the error is returned.
ReadError ==
  /\ pc = "read"
  /\ pc' = "failed"
  /\ UNCHANGED <<task, client, wire, buf, n, over, out>>

Next ==
  \/ \E l \in BoundedSeq(Char, LineLen) : SendLine(l)
  \/ SendDot
  \/ PartOfLine \/ CommandLine \/ DataLine \/ ReadError

Spec == Init /\ [][Next]_vars

----------------------------------------------------------------------------
\* A message is stored as the client wrote it, however its lines fall into the
\* buffer and wherever it has dots, and only if it fits; one that is reported
\* too large is too large as readData counts it (with the dots the client adds
\* and with the terminator).
FaithfulData ==
  task = "data" /\ pc = "done" =>
    /\ final
    /\ IF over THEN size > Limit ELSE size <= Limit /\ out = meant

\* What is kept of a message never outgrows the limit, whatever is still to
\* come.
MessageFits == task = "data" => Len(out) <= Limit

\* A command line within the limit is read whole, from however many fragments.
CommandWhole ==
  /\ task = "command" /\ Len(line \o CRLF) <= MaxLine
  /\ pc \in {"done", "tooLong"}
  => pc = "done" /\ out = line

\* "consumes the message until the final "." line ...  If the limit is exceeded,
\* the remainder is discarded until the terminator": once the terminator has
\* been read, readData does not wait for more.
TerminatorEnds == task = "data" /\ final /\ wire = <<>> => pc # "read"
============================================================================
