--------------------------------- MODULE Events --------------------------------
(***************************************************************************)
(* One subscription to the engine's events: Client.Events (client.go) over *)
(* DecodeStream (api/transport.go).                                        *)
(*                                                                         *)
(*   response body -> decoder -> ch, errCh -> forwarder                    *)
(*                                         -> evCh, errCh -> subscriber    *)
(*                                                                         *)
(* The channels of messages are unbuffered: a send is a meeting of two     *)
(* goroutines.  Those of errors hold one.  Messages are numbered in the    *)
(* order the engine wrote them.                                            *)
(***************************************************************************)
EXTENDS Integers, Sequences

CONSTANTS
  MaxEvents,  \* bound on the messages of the stream
  None        \* no message, no error

Errors == {"canceled", "broken"}

ASSUME EventsAssumption ==
  /\ MaxEvents \in Nat \ {0}
  /\ None \notin 1..MaxEvents
  /\ None \notin Errors

VARIABLES
  sent,      \* messages the engine wrote to the response body
  stream,    \* the body is open, ended (eof), or cut or garbled (broken)
  status,    \* its answer: none yet, 200 (ok) or not (error)
  ctxDone,   \* the context given to Events is done
  dec,       \* the decoder goroutine: new, decode, send or end
  decoded,   \* messages it decoded; the last is the v of a send
  failure,   \* the error that ended it, or the request, or None
  rawErr,    \* its errCh
  fwd,       \* the forwarder: new, range, send, drain, closeEv or end
  raw,       \* the message it holds, or None
  errCh,     \* the errCh of the subscriber
  received,  \* what the subscriber took from evCh
  errs       \* what it took from errCh

engineVars == <<sent, stream, status>>
decVars    == <<dec, decoded, failure>>
fwdVars    == <<fwd, raw>>
subVars    == <<received, errs>>
vars       == <<engineVars, ctxDone, decVars, rawErr, fwdVars, errCh, subVars>>

\* What a goroutine closed follows from where it stands: the decoder closes
\* errCh, ch and the body on its way out, the forwarder errCh and then evCh.
rawClosed  == dec = "end"
bodyClosed == dec = "end"
errClosed  == fwd \in {"closeEv", "end"}
evClosed   == fwd = "end"

TypeOK ==
  /\ sent \in 0..MaxEvents
  /\ stream \in {"open", "eof", "broken"}
  /\ status \in {"none", "ok", "error"}
  /\ ctxDone \in BOOLEAN
  /\ dec \in {"new", "decode", "send", "end"}
  /\ decoded \in 0..MaxEvents
  /\ failure \in Errors \cup {None}
  /\ fwd \in {"new", "range", "send", "drain", "closeEv", "end"}
  /\ raw \in 1..MaxEvents \cup {None}
  /\ rawErr \in Seq(Errors) /\ errCh \in Seq(Errors) /\ errs \in Seq(Errors)
  /\ received \in Seq(1..MaxEvents)

Init ==
  /\ sent = 0 /\ stream = "open" /\ status = "none" /\ ctxDone = FALSE
  /\ dec = "new" /\ decoded = 0 /\ failure = None /\ rawErr = <<>>
  /\ fwd = "new" /\ raw = None /\ errCh = <<>>
  /\ received = <<>> /\ errs = <<>>
--------------------------------------------------------------------------------
\* The request of Events fails: its error, two closed channels, no goroutine.
GetFails ==
  /\ fwd = "new"
  /\ \E e \in Errors : (e = "canceled" => ctxDone) /\ failure' = e /\ errCh' = <<e>>
  /\ dec' = "end"
  /\ fwd' = "end"
  /\ UNCHANGED <<engineVars, ctxDone, decoded, rawErr, raw, subVars>>

\* A response, whatever its status: nobody looks at it.
GetResponds ==
  /\ fwd = "new"
  /\ ~ctxDone
  /\ status' \in {"ok", "error"}
  /\ dec' = "decode"
  /\ fwd' = "range"
  /\ UNCHANGED <<sent, stream, ctxDone, decoded, failure, rawErr, raw, errCh, subVars>>

\* The decoder's loop.
DecodeValue ==
  /\ dec = "decode"
  /\ decoded < sent
  /\ decoded' = decoded + 1
  /\ dec' = "send"
  /\ UNCHANGED <<engineVars, ctxDone, failure, rawErr, fwdVars, errCh, subVars>>

\* Mutant: v outlives an iteration, and the one before is sent.
SendStale ==
  /\ dec = "send" /\ fwd = "range"
  /\ raw' = decoded - 1
  /\ dec' = "decode" /\ fwd' = "send"
  /\ UNCHANGED <<engineVars, ctxDone, decoded, failure, rawErr, errCh, subVars>>

\* Mutant: a send that does not wait for the forwarder (select with default).
SendOrDrop ==
  /\ dec = "send" /\ dec' = "decode"
  /\ \/ fwd = "range" /\ raw' = decoded /\ fwd' = "send"
     \/ fwd # "range" /\ UNCHANGED <<raw, fwd>>
  /\ UNCHANGED <<engineVars, ctxDone, decoded, failure, rawErr, errCh, subVars>>

\* ch <- v meets the range of the forwarder.
SendRaw ==
  /\ dec = "send" /\ fwd = "range"
  /\ raw' = decoded
  /\ dec' = "decode" /\ fwd' = "send"
  /\ UNCHANGED <<engineVars, ctxDone, decoded, failure, rawErr, errCh, subVars>>

DecodeEOF ==
  /\ dec = "decode"
  /\ stream = "eof"
  /\ decoded = sent
  /\ dec' = "end"
  /\ UNCHANGED <<engineVars, ctxDone, decoded, failure, rawErr, fwdVars, errCh, subVars>>

Broken(e) ==
  \/ e = "canceled" /\ ctxDone
  \/ e = "broken" /\ stream = "broken"

\* Mutant: the loop goes on after an error.
DecodeFailsOn ==
  /\ dec = "decode"
  /\ rawErr = <<>>
  /\ \E e \in Errors : Broken(e) /\ failure' = e /\ rawErr' = <<e>>
  /\ UNCHANGED <<engineVars, ctxDone, dec, decoded, fwdVars, errCh, subVars>>

\* Cancelled, cut or garbled; what was not decoded yet is lost.  The error
\* goes into the buffer of errCh, and would have to wait were it full.
DecodeFails ==
  /\ dec = "decode"
  /\ rawErr = <<>>
  /\ \E e \in Errors : Broken(e) /\ failure' = e /\ rawErr' = <<e>>
  /\ dec' = "end"
  /\ UNCHANGED <<engineVars, ctxDone, decoded, fwdVars, errCh, subVars>>

\* Mutant: the errors of the decoder are not drained.
RangeEndsEarly ==
  /\ fwd = "range" /\ rawClosed
  /\ fwd' = "closeEv"
  /\ UNCHANGED <<engineVars, ctxDone, decVars, rawErr, raw, errCh, subVars>>

\* The forwarder: its two loops, then its two deferred closes.
RangeEnds ==
  /\ fwd = "range" /\ rawClosed
  /\ fwd' = "drain"
  /\ UNCHANGED <<engineVars, ctxDone, decVars, rawErr, raw, errCh, subVars>>

ForwardErr ==
  /\ fwd = "drain"
  /\ rawErr # <<>>
  /\ errCh = <<>>
  /\ errCh' = rawErr
  /\ rawErr' = <<>>
  /\ UNCHANGED <<engineVars, ctxDone, decVars, fwdVars, subVars>>

CloseErr ==
  /\ fwd = "drain"
  /\ rawErr = <<>>
  /\ fwd' = "closeEv"
  /\ UNCHANGED <<engineVars, ctxDone, decVars, rawErr, raw, errCh, subVars>>

CloseEv ==
  /\ fwd = "closeEv"
  /\ fwd' = "end"
  /\ UNCHANGED <<engineVars, ctxDone, decVars, rawErr, raw, errCh, subVars>>

\* evCh <- meets the subscriber, who may stop receiving at any time.
Receive ==
  /\ fwd = "send"
  /\ received' = Append(received, raw)
  /\ raw' = None
  /\ fwd' = "range"
  /\ UNCHANGED <<engineVars, ctxDone, decVars, rawErr, errCh, errs>>

ReceiveErr ==
  /\ errCh # <<>>
  /\ errs' = Append(errs, Head(errCh))
  /\ errCh' = Tail(errCh)
  /\ UNCHANGED <<engineVars, ctxDone, decVars, rawErr, fwdVars, received>>

Cancel ==
  /\ ~ctxDone
  /\ ctxDone' = TRUE
  /\ UNCHANGED <<engineVars, decVars, rawErr, fwdVars, errCh, subVars>>

\* An error response has one object for a body, and that is no event.
EngineSends ==
  /\ status # "none" /\ stream = "open"
  /\ sent < IF status = "ok" THEN MaxEvents ELSE 1
  /\ sent' = sent + 1
  /\ UNCHANGED <<stream, status, ctxDone, decVars, rawErr, fwdVars, errCh, subVars>>

EngineEnds ==
  /\ status # "none" /\ stream = "open"
  /\ stream' \in {"eof", "broken"}
  /\ UNCHANGED <<sent, status, ctxDone, decVars, rawErr, fwdVars, errCh, subVars>>
--------------------------------------------------------------------------------
Call      == GetFails \/ GetResponds
Decoder   == DecodeValue \/ SendRaw \/ DecodeEOF \/ DecodeFails
Forwarder == RangeEnds \/ ForwardErr \/ CloseErr \/ CloseEv

Next ==
  \/ Call \/ Decoder \/ Forwarder \/ Receive \/ ReceiveErr
  \/ Cancel \/ EngineSends \/ EngineEnds

Spec == Init /\ [][Next]_vars

\* The Go scheduler runs the call and both goroutines; the engine, the
\* context and the subscriber owe nothing.
FairSpec == Spec /\ WF_vars(Call) /\ WF_vars(Decoder) /\ WF_vars(Forwarder)

\* The subscriber that ranges over evCh until it is closed.
RangingSpec == FairSpec /\ WF_vars(Receive)
--------------------------------------------------------------------------------
One(b)  == IF b THEN 1 ELSE 0
Only(e) == IF e = None THEN <<>> ELSE <<e>>

\* Every message that was decoded is on its way or received, once, in the
\* order in which the engine sent it (transport.go:172, client.go:186-187).
NoLoss ==
  /\ \A i \in 1..Len(received) : received[i] = i
  /\ raw # None => raw = Len(received) + 1
  /\ decoded = Len(received) + One(raw # None) + One(dec = "send")

\* When evCh is found closed, errCh says why, without waiting: it is closed,
\* and holds or held the one error that ended the stream; and no error means
\* that the engine ended the stream and the subscriber had all of it
\* (client.go:184-185, 196-198, transport.go:160-170).
ClosedSaysWhy ==
  evClosed =>
    /\ errClosed
    /\ errs \o errCh = Only(failure)
    /\ failure = None => stream = "eof" /\ Len(received) = sent

\* For a subscriber that ranges over evCh, the end of the context or of the
\* stream closes evCh, ends both goroutines and closes the body.
Ends == (ctxDone \/ stream # "open") ~> evClosed /\ rawClosed /\ bodyClosed

(***************************************************************************)
(* The inductive invariant behind the first two: NoLoss, where each        *)
(* goroutine stands, and the one place where the error is.                 *)
(***************************************************************************)
DecoderOK ==
  /\ dec = "new" <=> fwd = "new"
  /\ dec = "new" => status = "none"
  /\ dec # "end" => failure = None
  /\ dec = "end" /\ failure = None => stream = "eof" /\ decoded = sent

ForwarderOK ==
  /\ raw # None <=> fwd = "send"
  /\ fwd \in {"drain", "closeEv", "end"} => dec = "end"

ErrorOK ==
  /\ rawErr # <<>> => fwd \notin {"closeEv", "end"}
  /\ \/ failure = None /\ rawErr = <<>> /\ errCh = <<>> /\ errs = <<>>
     \/ /\ failure # None
        /\ \/ rawErr = <<failure>> /\ errCh = <<>> /\ errs = <<>>
           \/ rawErr = <<>> /\ errCh = <<failure>> /\ errs = <<>>
           \/ rawErr = <<>> /\ errCh = <<>> /\ errs = <<failure>>

Inv == NoLoss /\ DecoderOK /\ ForwarderOK /\ ErrorOK

(***************************************************************************)
(* What the comments say and the code does not do.                         *)
(***************************************************************************)
\* client.go:160: "The channel closes when the context is cancelled."
CancelCloses == ctxDone ~> evClosed
================================================================================
