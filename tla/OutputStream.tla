------------------------------ MODULE OutputStream ------------------------------
(***************************************************************************)
(* The output of a command: container.Exec with the raw connection of      *)
(* execStartRaw and its idleTimeoutReader, container.Logs with the body of *)
(* its response, and the demuxReader over either (container.go,            *)
(* api/stream.go).                                                         *)
(*                                                                         *)
(* The daemon sends frames, each with a header that ends in its size, or   *)
(* bare bytes when the command has a terminal (tty).  A read from the      *)
(* connection returns any part of what was sent, so headers and payloads   *)
(* are cut at every byte.  It may also fail: the body ends, nothing comes  *)
(* for 500ms (Exec only), the connection breaks, the context is done (Logs *)
(* only: no context reaches the connection of Exec), or Close was called.  *)
(* A consumer reads until the first error, as io.Reader asks of it, and    *)
(* closes when it likes.                                                   *)
(*                                                                         *)
(* The request that creates the exec is one step; HttpCalls has its parts. *)
(* The bytes a command writes are numbered 1, 2, ...  A byte carries a     *)
(* mark that tells a header from data; no step of the client reads it.     *)
(***************************************************************************)
EXTENDS Naturals, Sequences, FiniteSetsExt

CONSTANTS
  HeaderLen,  \* 8, of a frame
  SizeLen,    \* 4, the last bytes of the header: the size, big-endian
  Base,       \* 256, the values of a byte
  FrameSizes, \* payload sizes, which SizeLen bytes can hold
  ReadSizes,  \* the lengths of the consumer's slices
  MaxFrames   \* bound: frames of a command

\* What a byte of the size counts for, at its distance from the last one.
Place[k \in 0..SizeLen] == IF k = 0 THEN 1 ELSE Base * Place[k - 1]

ASSUME StreamAssumption ==
  /\ HeaderLen \in Nat /\ SizeLen \in 1..HeaderLen
  /\ Base \in Nat /\ Base > 1
  /\ FrameSizes \subseteq 0..(Place[SizeLen] - 1)
  /\ ReadSizes \subseteq Nat \ {0}
  /\ MaxFrames \in Nat

VARIABLES
  src,      \* exec or logs
  tty,      \* no frames; the daemon and the caller agree on it
  ctxDone,  \* the context of the call is done
  pc,       \* create, dial, write, head (Exec), get (Logs), or the return:
            \*   ok with a reader, noOutput (no error and a nil Output), err
  conn,     \* the connection: none, open, closed
  body,     \* what is read: a stream, an empty one (an answer without a body),
            \*   or nop, the io.NopCloser, whose Close closes nothing
  wire,     \* bytes sent and not read yet
  frames,   \* frames sent
  written,  \* bytes the command wrote
  fin,      \* the command ended and the stream was terminated
  room,     \* the length of the slice of the Read under way, 0 if there is none
  size,     \* demuxReader.Read: the size in the last header, 0 while reading one
  part,     \* what its ReadFull has, or had when it failed
  buf,      \* demuxReader.buf
  got,      \* the bytes the consumer has
  last,     \* what its last Read returned: nil, EOF, unexpected, error
  why       \* what ended the stream: history

daemonVars == <<wire, frames, written, fin>>
demuxVars  == <<size, part, buf>>
userVars   == <<room, got, last, why>>
callVars   == <<pc, conn, body>>
vars       == <<src, tty, ctxDone, callVars, daemonVars, demuxVars, userVars>>

Returned == {"ok", "noOutput", "err"}
Ends     == {"fin", "idle", "broken", "cancelled", "closed", "empty"}

Header(v)   == [data |-> FALSE, val |-> v]
Data(v)     == [data |-> TRUE, val |-> v]
Bytes       == [data : BOOLEAN, val : Nat]
Vals(s)     == [i \in DOMAIN s |-> s[i].val]
DataAt(s)   == {i \in DOMAIN s : s[i].data}

\* The bytes a command wrote after its first v.
Payload(v, n) == [i \in 1..n |-> Data(v + i)]

TypeOK ==
  /\ src \in {"exec", "logs"} /\ tty \in BOOLEAN /\ ctxDone \in BOOLEAN
  /\ pc \in {"create", "dial", "write", "head", "get"} \cup Returned
  /\ conn \in {"none", "open", "closed"}
  /\ body \in {"stream", "empty", "nop"}
  /\ wire \in Seq(Bytes) /\ part \in Seq(Bytes) /\ buf \in Seq(Bytes)
  /\ frames \in 0..MaxFrames /\ written \in Nat /\ fin \in BOOLEAN
  /\ room \in ReadSizes \cup {0}
  /\ size \in FrameSizes \cup {0}
  /\ got \in Seq(Nat)
  /\ last \in {"nil", "EOF", "unexpected", "error"}
  /\ why \in Ends \cup {"none"}
  /\ Len(part) <= Max({size, HeaderLen})
  /\ tty => (part = <<>> /\ buf = <<>> /\ size = 0)

Init ==
  /\ src \in {"exec", "logs"} /\ tty \in BOOLEAN /\ ctxDone = FALSE
  /\ pc = IF src = "exec" THEN "create" ELSE "get"
  /\ conn = "none" /\ body = "stream"
  /\ wire = <<>> /\ frames = 0 /\ written = 0 /\ fin = FALSE
  /\ room = 0 /\ size = 0 /\ part = <<>> /\ buf = <<>>
  /\ got = <<>> /\ last = "nil" /\ why = "none"
--------------------------------------------------------------------------------
(***************************************************************************)
(* Exec: create, dial, write the request, read the head of the answer.     *)
(***************************************************************************)
Go(from, to, c) ==
  /\ pc = from /\ pc' = to /\ conn' = c
  /\ UNCHANGED <<src, tty, ctxDone, body, daemonVars, demuxVars, userVars>>

Created     == Go("create", "dial", "none")
CreateFails == Go("create", "err", "none")

Dialed      == Go("dial", "write", "open")
DialFails   == Go("dial", "noOutput", "none")

Written     == Go("write", "head", "open")
WriteFails  == Go("write", "noOutput", "closed")

\* A status 200.
HeadRead    == Go("head", "ok", "open")

\* A status 101: http.ReadResponse gives such an answer no body.
HeadSwitches ==
  /\ pc = "head" /\ pc' = "ok" /\ body' = "empty"
  /\ UNCHANGED <<src, tty, ctxDone, conn, daemonVars, demuxVars, userVars>>

\* Mutant: the conn.Close() is left to the Close of the reader.
HeadEndsOpen ==
  /\ pc = "head" /\ pc' = "ok" /\ body' = "nop"
  /\ UNCHANGED <<src, tty, ctxDone, conn, daemonVars, demuxVars, userVars>>

\* The connection ends before the head: an empty reader, and no error.
HeadEnds ==
  /\ pc = "head" /\ pc' = "ok" /\ body' = "nop" /\ conn' = "closed"
  /\ UNCHANGED <<src, tty, ctxDone, daemonVars, demuxVars, userVars>>

\* Mutant: the head is read without a deadline.
HeadFailsIfEnded == fin /\ Go("head", "noOutput", "closed")

\* Another error, at the latest that of the read deadline of 30s; or another
\* status, whose body is read under the same deadline.  Exec drops the error.
HeadFails == Go("head", "noOutput", "closed")

(***************************************************************************)
(* Logs: the answer is 200, or there is an error and the body is closed.   *)
(***************************************************************************)
LogsOk    == Go("get", "ok", "open")
LogsFails == Go("get", "err", "closed")
--------------------------------------------------------------------------------
(***************************************************************************)
(* The reader.  A Read of the connection (idleTimeoutReader.Read, or the   *)
(* body of Logs) returns bytes or fails.                                   *)
(***************************************************************************)
\* How a Read of the connection fails that returned no bytes, but for a pause.
EndsOtherwise(e) ==
  \/ e = "empty" /\ body # "stream"
  \/ /\ body = "stream"
     /\ \/ e = "closed" /\ conn = "closed"
        \/ e = "fin" /\ fin /\ wire = <<>>
        \/ e = "broken"
        \/ e = "cancelled" /\ src = "logs" /\ ctxDone

CanEnd(e) ==
  EndsOtherwise(e) \/ (e = "idle" /\ body = "stream" /\ src = "exec")

\* Mutant: the body of Logs in an idleTimeoutReader.
AlwaysEof(e) == "EOF"

\* The error it returns: idleTimeoutReader makes every one an EOF.
ErrorOf(e) ==
  IF src = "exec" \/ e \in {"fin", "empty"} THEN "EOF"
  ELSE IF e = "broken" THEN "unexpected"
  ELSE "error"

\* What a ReadFull makes of it.
FullError(e) ==
  IF ErrorOf(e) = "EOF" /\ part # <<>> THEN "unexpected" ELSE ErrorOf(e)

\* demuxReader.Read blocks in a ReadFull; a Read of a tty in one Read.
Blocked == room > 0 /\ buf = <<>>

Fail(e) ==
  /\ Blocked
  /\ CanEnd(e)
  /\ last' = FullError(e) /\ why' = e
  /\ room' = 0
  /\ UNCHANGED <<src, tty, ctxDone, callVars, daemonVars, demuxVars, got>>

\* Mutant: the size is read as little-endian.
SizeOfLittle(hdr) ==
  LET n[i \in 0..SizeLen] ==
        IF i = 0 THEN 0 ELSE n[i - 1] * Base + hdr[HeaderLen + 1 - i].val
  IN  n[SizeLen]

\* The number whose bytes end the header, the first of them the highest.
SizeOf(hdr) ==
  LET n[i \in 0..SizeLen] ==
        IF i = 0 THEN 0 ELSE n[i - 1] * Base + hdr[HeaderLen - SizeLen + i].val
  IN  n[SizeLen]

\* A ReadFull that has all its bytes: a header sets the size, and one of size
\* zero is followed by the next; a frame goes to the buffer.
Complete(s) ==
  IF size = 0
  THEN size' = SizeOf(s) /\ part' = <<>> /\ UNCHANGED buf
  ELSE size' = 0 /\ part' = <<>> /\ buf' = s

\* Mutant: the size counts the header.
NeedWithHeader == HeaderLen + size

Need == IF size = 0 THEN HeaderLen ELSE size

\* The next n bytes for the ReadFull.
Fill ==
  /\ Blocked /\ ~tty /\ conn = "open" /\ body = "stream"
  /\ \E n \in 1..Min({Need - Len(part), Len(wire)}) :
       LET s == part \o SubSeq(wire, 1, n)
       IN  /\ wire' = SubSeq(wire, n + 1, Len(wire))
           /\ IF Len(s) = Need THEN Complete(s)
              ELSE part' = s /\ UNCHANGED <<size, buf>>
  /\ UNCHANGED <<src, tty, ctxDone, callVars, frames, written, fin, userVars>>

\* copy(p, d.buf), and the rest stays for the next Read.
Deliver ==
  /\ room > 0 /\ buf # <<>>
  /\ LET n == Min({room, Len(buf)})
     IN  /\ got' = got \o Vals(SubSeq(buf, 1, n))
         /\ buf' = SubSeq(buf, n + 1, Len(buf))
  /\ room' = 0
  /\ UNCHANGED <<src, tty, ctxDone, callVars, daemonVars, size, part, last, why>>

\* With a terminal the bytes are passed through.
PassThrough ==
  /\ Blocked /\ tty /\ conn = "open" /\ body = "stream"
  /\ \E n \in 1..Min({room, Len(wire)}) :
       /\ got' = got \o Vals(SubSeq(wire, 1, n))
       /\ wire' = SubSeq(wire, n + 1, Len(wire))
  /\ room' = 0
  /\ UNCHANGED <<src, tty, ctxDone, callVars, frames, written, fin, demuxVars,
                 last, why>>
--------------------------------------------------------------------------------
(***************************************************************************)
(* The consumer, the context, and the daemon.                              *)
(***************************************************************************)
Read ==
  /\ pc = "ok" /\ room = 0 /\ last = "nil"
  /\ room' \in ReadSizes
  /\ UNCHANGED <<src, tty, ctxDone, callVars, daemonVars, demuxVars, got, last, why>>

Close ==
  /\ pc = "ok" /\ conn = "open" /\ body # "nop"
  /\ conn' = "closed"
  /\ UNCHANGED <<src, tty, ctxDone, pc, body, daemonVars, demuxVars, userVars>>

Cancel ==
  /\ ~ctxDone
  /\ ctxDone' = TRUE
  /\ UNCHANGED <<src, tty, callVars, daemonVars, demuxVars, userVars>>

\* The daemon has the request and sends output.
Streaming == ~fin /\ (pc \in {"head", "get"} \/ (conn = "open" /\ pc = "ok"))

HeaderOf(n) ==
  [i \in 1..HeaderLen |->
     Header(IF i <= HeaderLen - SizeLen THEN 1
            ELSE (n \div Place[HeaderLen - i]) % Base)]

WriteFrame(n) ==
  /\ Streaming /\ frames < MaxFrames
  /\ tty => n > 0
  /\ wire' = wire \o (IF tty THEN <<>> ELSE HeaderOf(n)) \o Payload(written, n)
  /\ written' = written + n
  /\ frames' = frames + 1
  /\ UNCHANGED <<src, tty, ctxDone, callVars, fin, demuxVars, userVars>>

End ==
  /\ Streaming
  /\ fin' = TRUE
  /\ UNCHANGED <<src, tty, ctxDone, callVars, wire, frames, written, demuxVars, userVars>>
--------------------------------------------------------------------------------
StartExec ==
  \/ Created \/ CreateFails \/ Dialed \/ DialFails \/ Written \/ WriteFails
  \/ HeadRead \/ HeadSwitches \/ HeadEnds \/ HeadFails

StartLogs == LogsOk \/ LogsFails

Progress == Fill \/ Deliver \/ PassThrough

Next ==
  \/ StartExec \/ StartLogs \/ Progress
  \/ \E e \in Ends : Fail(e)
  \/ Read \/ Close \/ Cancel
  \/ \E n \in FrameSizes : WriteFrame(n)
  \/ End

Spec == Init /\ [][Next]_vars

(***************************************************************************)
(* Fairness: the client's own steps.  Exec dials and writes, which the     *)
(* kernel answers, and the deadline ends the wait for the head.  A Read    *)
(* takes what has arrived, and ends when it must; a connection need not    *)
(* break.                                                                  *)
(***************************************************************************)
FairSpec ==
  /\ Spec
  /\ WF_vars(Dialed \/ DialFails) /\ WF_vars(Written \/ WriteFails)
  /\ WF_vars(HeadFails)
  /\ WF_vars(Progress \/ \E e \in Ends \ {"broken"} : Fail(e))
--------------------------------------------------------------------------------
\* The data in s is what the command wrote after its first v bytes, up to its
\* first w, each byte once and in order.
InOrder(s, v, w) ==
  /\ v <= w
  /\ {s[i].val : i \in DataAt(s)} = (v + 1)..w
  /\ \A i, j \in DataAt(s) : i < j => s[i].val < s[j].val

\* Every byte the command wrote is in one place, in order: with the consumer,
\* in the buffer, in the frame being read, or under way.  What a Read that
\* fails drops is at most the frame it was reading (stream.go:31-48).
Conserved ==
  /\ got = [i \in 1..Len(got) |-> i]
  /\ InOrder(buf \o part \o wire, Len(got), written)

\* Whatever path Exec and Logs return by, the caller has a reader that closes
\* the connection, or there is none open: not after an error, and not behind a
\* reader whose Close does nothing (container.go:234-261, 309-312).
ConnAccounted ==
  pc \in {"noOutput", "err"} \/ body = "nop" => conn # "open"

\* The reader is a Pipe: a prefix of the output, and a strict EOF from Logs
\* (container.go:312, stream.go:30-49).
Promise == INSTANCE Pipe WITH
  strict <- src = "logs", ended <- fin, outcome <- last

KeepsPipe == Promise!Spec

\* Once the exec is created, Exec returns, whatever the daemon does or leaves
\* undone (container.go:239: the deadline of the head).
ExecReturns == (pc = "dial") ~> (pc \in Returned)

\* A Read of an exec returns although the daemon is silent and never ends the
\* stream (container.go:264-266), and one of Logs when its context is done.
ReadsReturn == (room > 0 /\ (src = "exec" \/ ctxDone)) ~> (room = 0)

\* container.go:45: "ExecResult holds the output of an exec command."  When Exec
\* returns no error and a nil Output, the command has written none
\* (container.go:206-209).
ResultHoldsOutput == pc = "noOutput" => written = 0
================================================================================
