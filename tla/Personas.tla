------------------------------ MODULE Personas ------------------------------
(***************************************************************************)
(* src/personas.rs: one connection handler and the client it talks to.     *)
(* The client sends pieces of lines whenever it likes, reads or does not   *)
(* read, closes or resets.  A piece is "part" (bytes without a newline) or *)
(* the end of a line, named for what the trimmed line says, or "binary"    *)
(* when not all its bytes are UTF-8: read_line into a String fails on it.  *)
(*                                                                         *)
(* Kept of the kernel: the receive queue, the room in the send buffer, and *)
(* that closing a socket with unread data sends RST instead of FIN.        *)
(* Left out: the texts; flush; the size of the read buffers (256 bytes,    *)
(* 8 KB), for which any part of what has arrived may be read.              *)
(***************************************************************************)
EXTENDS Naturals, Sequences

CONSTANTS
  RcvCap,     \* bound: pieces in the receive queue
  SndCap,     \* answers the send buffer takes before a write waits
  ReadTime    \* the read timeout, in ticks

ASSUME PersonasAssumption == RcvCap \in Nat \ {0} /\ SndCap \in Nat \ {0} /\ ReadTime \in Nat

VARIABLES
  persona,
  pc,       \* the handler
  line,     \* what read_line has put into the line buffer, runs of "part" as one
  buf,      \* the rest of the BufReader
  rcv,      \* receive queue of the socket
  snd,      \* answers written and not read by the client
  left,     \* time left to the read timeout
  client,   \* "open", "closed" (it sent FIN) or "reset"
  close,    \* how the handler closed: "no", "fin" or "rst"
  greeted,  \* the handler has sent its banner
  due       \* history: lines the client has finished and not had an answer to

vars == <<persona, pc, line, buf, rcv, snd, left, client, close, greeted, due>>

Ends  == {"ping", "quit", "other", "binary"}
Piece == Ends \cup {"part"}

Init ==
  /\ persona \in {"ssh", "http", "redis", "raw"}
  /\ pc = "jitter"
  /\ line = <<>> /\ buf = <<>> /\ rcv = <<>> /\ due = <<>>
  /\ snd = 0 /\ left = ReadTime
  /\ client = "open" /\ close = "no" /\ greeted = FALSE

\* What the code makes of the line buffer: a command only when it holds just one line.
Command(l) ==
  IF \E e \in Ends : l = <<e>> \/ l = <<"part", e>> THEN l[Len(l)] ELSE "other"

LineEnds(s)  == {i \in 1 .. Len(s) : s[i] \in Ends}
Unfinished   == LET s == line \o buf \o rcv IN s # <<>> /\ s[Len(s)] = "part"

----------------------------------------------------------------------------
(* The client. *)

ClientKeeps == UNCHANGED <<persona, pc, line, buf, left, close, greeted>>

Send(x) ==
  /\ client = "open" /\ pc # "done" /\ Len(rcv) < RcvCap
  /\ rcv' = Append(rcv, x)
  /\ due' = IF x \in Ends THEN Append(due, x) ELSE due
  /\ ClientKeeps /\ UNCHANGED <<snd, client>>

\* FIN ends a last line that has no newline.
ClientCloses ==
  /\ client = "open"
  /\ client' = "closed"
  /\ due' = IF Unfinished THEN Append(due, "other") ELSE due
  /\ ClientKeeps /\ UNCHANGED <<rcv, snd>>

ClientResets ==
  /\ client # "reset" /\ client' = "reset" /\ rcv' = <<>>
  /\ ClientKeeps /\ UNCHANGED <<snd, due>>

ClientReads == snd > 0 /\ snd' = snd - 1 /\ ClientKeeps /\ UNCHANGED <<rcv, client, due>>

----------------------------------------------------------------------------
(* The handler. *)

HandlerKeeps == UNCHANGED <<persona, client, greeted>>

\* The handler returns and its socket is dropped, after shutdown() or without it,
\* with unread left in the receive queue.  (Mutant: SO_LINGER of zero.)
ReturnAbruptly(unread) == pc' = "done" /\ close' = "rst"
Return(unread) ==
  /\ pc' = "done"
  /\ close' = IF unread # <<>> THEN "rst" ELSE "fin"

\* The jitter is over; SSH and Raw send their banner, the first bytes of the
\* connection, for which there is room.
Start ==
  /\ pc = "jitter"
  /\ IF persona \in {"ssh", "raw"} /\ client = "reset"
       THEN Return(rcv) /\ UNCHANGED <<greeted, snd>>
       ELSE /\ pc' = "read"
            /\ greeted' = (persona \in {"ssh", "raw"})
            /\ snd' = IF greeted' THEN snd + 1 ELSE snd
            /\ UNCHANGED close
  /\ UNCHANGED <<persona, line, buf, rcv, left, client, due>>

\* handle_ssh: one read, whatever it returns; then 50 ms and shutdown.
SshReads ==
  /\ pc = "read" /\ persona = "ssh" /\ rcv # <<>>
  /\ \E n \in 1 .. Len(rcv) : rcv' = SubSeq(rcv, n + 1, Len(rcv))
  /\ pc' = "think"
  /\ HandlerKeeps /\ UNCHANGED <<line, buf, snd, left, close, due>>
SshEnds ==
  /\ persona = "ssh"
  /\ pc = "think" \/ (pc = "read" /\ rcv = <<>> /\ (client # "open" \/ left = 0))
  /\ Return(rcv)
  /\ HandlerKeeps /\ UNCHANGED <<line, buf, rcv, snd, left, due>>

Input   == buf \o rcv
Reading == pc = "read" /\ persona # "ssh"

\* read_line finds a newline, in the BufReader or by filling it from the socket.
ReadLine ==
  /\ Reading
  /\ \E n \in LineEnds(Input) :
       /\ \A k \in LineEnds(Input) : n <= k
       /\ line' = line \o (IF n = 1 \/ line # <<>> THEN <<Input[n]>> ELSE <<"part", Input[n]>>)
       /\ \E m \in IF n <= Len(buf) THEN {Len(buf)} ELSE n .. Len(Input) :
            buf' = SubSeq(Input, n + 1, m) /\ rcv' = SubSeq(Input, m + 1, Len(Input))
  /\ pc' = "line"
  /\ HandlerKeeps /\ UNCHANGED <<snd, left, close, due>>

\* One poll of read_line that finds no newline takes what there is.
TakeParts ==
  /\ Reading /\ LineEnds(Input) = {}
  /\ line' = IF line = <<>> /\ Input # <<>> THEN <<"part">> ELSE line
  /\ buf' = <<>> /\ rcv' = <<>>

\* The poll is pending, the timeout has not expired.
\* (Mutant: the timeout is per read, not per line.)
WaitRestarts ==
  /\ TakeParts /\ Input # <<>> /\ client = "open" /\ left' = ReadTime
  /\ HandlerKeeps /\ UNCHANGED <<pc, snd, close, due>>
WaitForLine ==
  /\ TakeParts /\ Input # <<>> /\ client = "open" /\ (left > 0 \/ persona = "raw")
  /\ HandlerKeeps /\ UNCHANGED <<pc, snd, left, close, due>>

\* End of file: what has been read counts as a line.
ReadRest ==
  /\ TakeParts /\ client = "closed" /\ line' # <<>> /\ pc' = "line"
  /\ HandlerKeeps /\ UNCHANGED <<snd, left, close, due>>

\* End of file with nothing read, or with a rest that is not UTF-8; a read error, or
\* the timeout.
ReadEnds ==
  /\ TakeParts
  /\ \/ client = "closed"
     \/ client = "reset"
     \/ client = "open" /\ left = 0 /\ persona # "raw"
  /\ Return(<<>>)
  /\ HandlerKeeps /\ UNCHANGED <<snd, left, due>>

\* The next turn of the loop: line.clear() and a new timeout.
\* (Mutants: the line buffer is not cleared; the old deadline is moved on by 30 s.)
LoopExtends   == pc' = "read" /\ left' = left + ReadTime /\ line' = <<>> /\ UNCHANGED close
LoopKeepsLine == pc' = "read" /\ left' = ReadTime /\ UNCHANGED <<line, close>>
Loop          == pc' = "read" /\ left' = ReadTime /\ line' = <<>> /\ UNCHANGED close

\* read_line has failed on the line it read: no answer, whatever has arrived behind it.
NotUtf8 ==
  /\ pc = "line" /\ Command(line) = "binary" /\ Return(rcv)
  /\ HandlerKeeps /\ UNCHANGED <<line, buf, rcv, snd, left, due>>

\* The answer to the line, which waits for room in the send buffer.
\* (As a mutant of Answer: String::from_utf8_lossy, with which any line can be answered.)
Respond ==
  /\ pc = "line" /\ client # "reset" /\ snd < SndCap
  /\ snd' = snd + 1
  /\ due' = Tail(due)
  /\ UNCHANGED <<buf, rcv>>
  /\ IF persona = "http" \/ (persona = "redis" /\ Command(line) = "quit")
       THEN Return(rcv) /\ UNCHANGED <<line, left>>
       ELSE Loop
  /\ HandlerKeeps
Answer == Command(line) # "binary" /\ Respond

\* write_all fails.
WriteFails ==
  /\ pc = "line" /\ Command(line) # "binary" /\ client = "reset" /\ Return(rcv)
  /\ HandlerKeeps /\ UNCHANGED <<line, buf, rcv, snd, left, due>>

Tick ==
  /\ pc = "read" /\ left > 0 /\ left' = left - 1
  /\ UNCHANGED <<persona, pc, line, buf, rcv, snd, client, close, greeted, due>>

----------------------------------------------------------------------------
Handler ==
  \/ Start \/ SshReads \/ SshEnds \/ ReadLine \/ WaitForLine \/ ReadRest \/ ReadEnds
  \/ NotUtf8 \/ Answer \/ WriteFails

Next ==
  \/ \E x \in Piece : Send(x)
  \/ ClientCloses \/ ClientResets \/ ClientReads
  \/ Handler \/ Tick

Spec == Init /\ [][Next]_vars

\* The runtime runs the handler, and time passes.  Nothing is assumed of the client.
FairSpec == Spec /\ WF_vars(Handler) /\ WF_vars(Tick)

----------------------------------------------------------------------------
(* Properties. *)

\* Every variable has its type.
TypeOK ==
  /\ persona \in {"ssh", "http", "redis", "raw"}
  /\ pc \in {"jitter", "read", "think", "line", "done"}
  /\ line \in Seq(Piece) /\ buf \in Seq(Piece) /\ rcv \in Seq(Piece) /\ due \in Seq(Ends)
  /\ snd \in 0 .. SndCap /\ left \in 0 .. ReadTime
  /\ client \in {"open", "closed", "reset"}
  /\ close \in {"no", "fin", "rst"}
  /\ greeted \in BOOLEAN

\* However the client splits and pipelines its lines, the handler answers each in turn for
\* what it says: every answer is for the oldest line that has none.  A line that is not
\* UTF-8 gets no answer, nor does any line behind it.
AnswersInOrder ==
  [][Len(due') < Len(due) => Command(line) = Head(due) /\ Head(due) # "binary"]_vars

\* Changelog.md:12 promises a FIN.  Except by SSH, every client that does not run ahead
\* gets one: one that gets RST has sent something behind the last line that was answered
\* or that is not UTF-8.
Unreadable == pc = "done" /\ Command(line) = "binary"
ResetOnlyAhead ==
  close = "rst" /\ client # "reset" /\ persona # "ssh"
    => Unfinished \/ Len(due) > (IF Unreadable THEN 1 ELSE 0)

\* A client cannot hold an SSH or HTTP handler, and its permit, by silence or by sending
\* byte after byte; a Redis handler only by finishing line after line, or by leaving an
\* answer unread.
TimedHandlersEnd ==
  <>(pc = "done") \/ persona = "raw" \/ (persona = "redis" /\ []<>(pc = "line"))

=============================================================================
