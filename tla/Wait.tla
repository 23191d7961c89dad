---------------------------------- MODULE Wait ----------------------------------
(***************************************************************************)
(* container.Wait (container.go): a goroutine asks the engine to answer    *)
(* when the container stops or is removed, and puts the outcome into one   *)
(* of two channels of capacity one, which it then closes, errCh first.     *)
(*                                                                         *)
(* Several waits may be under way on one container that was started; its   *)
(* process exits once.  A subscriber receives from each channel at most    *)
(* once, in either order and as late as it likes.                          *)
(***************************************************************************)
EXTENDS Naturals, Sequences

CONSTANTS
  Waits,     \* calls of Wait on the container
  ExitCodes, \* the exit statuses of its process
  None       \* nothing received yet

Errors == {"failed", "api", "garbled"}  \* of Post, responseError, DecodeResponse

ASSUME WaitAssumption ==
  /\ 0 \in ExitCodes
  /\ None \notin ExitCodes
  /\ None \notin Errors \cup {"nil"}

VARIABLES
  life,      \* the container: running, exited or removed
  exitCode,  \* of its process, or None before it exits
  ctxDone,   \* the waits whose context is done
  cond,      \* each wait: the condition, not-running or removed
  pc,        \* its goroutine: post, asked, decode, sent, errClosed, end
  res,       \* the buffer of resCh
  err,       \* the buffer of errCh
  gotRes,    \* what the subscriber received from resCh, or None
  gotErr     \* from errCh: an error, nil, or None

engineVars == <<life, exitCode>>
subVars    == <<gotRes, gotErr>>
vars       == <<engineVars, ctxDone, cond, pc, res, err, subVars>>

\* The deferred closes run in reverse: errCh, then resCh.
errClosed(w) == pc[w] \in {"errClosed", "end"}
resClosed(w) == pc[w] = "end"

TypeOK ==
  /\ life \in {"running", "exited", "removed"}
  /\ exitCode \in ExitCodes \cup {None}
  /\ ctxDone \subseteq Waits
  /\ cond \in [Waits -> {"not-running", "removed"}]
  /\ pc \in [Waits -> {"post", "asked", "decode", "sent", "errClosed", "end"}]
  /\ res \in [Waits -> Seq(ExitCodes)] /\ \A w \in Waits : Len(res[w]) <= 1
  /\ err \in [Waits -> Seq(Errors)] /\ \A w \in Waits : Len(err[w]) <= 1
  /\ gotRes \in [Waits -> ExitCodes \cup {None}]
  /\ gotErr \in [Waits -> Errors \cup {"nil", None}]

Init ==
  /\ \/ life = "running" /\ exitCode = None
     \/ life = "exited" /\ exitCode \in ExitCodes
  /\ ctxDone = {}
  /\ cond \in [Waits -> {"not-running", "removed"}]
  /\ pc = [w \in Waits |-> "post"]
  /\ res = [w \in Waits |-> <<>>]
  /\ err = [w \in Waits |-> <<>>]
  /\ gotRes = [w \in Waits |-> None]
  /\ gotErr = [w \in Waits |-> None]
--------------------------------------------------------------------------------
Move(w, l) == pc' = [pc EXCEPT ![w] = l]

\* Mutant: errCh has no buffer, and the subscriber receives from resCh first.
ReportUnbuffered(w, e) ==
  /\ gotRes[w] # None
  /\ err' = [err EXCEPT ![w] = Append(@, e)]
  /\ Move(w, "sent")
  /\ UNCHANGED <<engineVars, ctxDone, cond, res, subVars>>

\* errCh <- e, and the return.
Report(w, e) ==
  /\ err' = [err EXCEPT ![w] = Append(@, e)]
  /\ Move(w, "sent")
  /\ UNCHANGED <<engineVars, ctxDone, cond, res, subVars>>

\* Post fails: no daemon, a lost connection, or the context is done.
PostFails(w) == pc[w] \in {"post", "asked"} /\ Report(w, "failed")

\* The goroutine's part of that: it must notice a context that is done.
GivesUp(w) == w \in ctxDone /\ PostFails(w)

\* A status other than 200: no such container, or an error of the engine.
Refused(w) == pc[w] = "asked" /\ Report(w, "api")

\* Mutant: the error is dropped.
DecodeFailsSilent(w) ==
  /\ pc[w] = "decode"
  /\ Move(w, "sent")
  /\ UNCHANGED <<engineVars, ctxDone, cond, res, err, subVars>>

\* Mutant: no return after the error.
DecodeFailsOn(w) ==
  /\ pc[w] = "decode"
  /\ err' = [err EXCEPT ![w] = Append(@, "garbled")]
  /\ UNCHANGED <<engineVars, ctxDone, cond, pc, res, subVars>>

DecodeFails(w) == pc[w] = "decode" /\ Report(w, "garbled")

\* resCh <- WaitResult{...}
Decode(w) ==
  /\ pc[w] = "decode"
  /\ res' = [res EXCEPT ![w] = Append(@, exitCode)]
  /\ Move(w, "sent")
  /\ UNCHANGED <<engineVars, ctxDone, cond, err, subVars>>

CloseErr(w) ==
  /\ pc[w] = "sent"
  /\ Move(w, "errClosed")
  /\ UNCHANGED <<engineVars, ctxDone, cond, res, err, subVars>>

CloseRes(w) ==
  /\ pc[w] = "errClosed"
  /\ Move(w, "end")
  /\ UNCHANGED <<engineVars, ctxDone, cond, res, err, subVars>>
--------------------------------------------------------------------------------
(***************************************************************************)
(* The subscriber: a receive gives what is in the buffer, or the zero      *)
(* value of a channel that is closed and empty.                            *)
(***************************************************************************)
ReceiveRes(w) ==
  /\ gotRes[w] = None
  /\ res[w] # <<>> \/ resClosed(w)
  /\ gotRes' = [gotRes EXCEPT ![w] = IF res[w] = <<>> THEN 0 ELSE Head(res[w])]
  /\ res' = [res EXCEPT ![w] = <<>>]
  /\ UNCHANGED <<engineVars, ctxDone, cond, pc, err, gotErr>>

ReceiveErr(w) ==
  /\ gotErr[w] = None
  /\ err[w] # <<>> \/ errClosed(w)
  /\ gotErr' = [gotErr EXCEPT ![w] = IF err[w] = <<>> THEN "nil" ELSE Head(err[w])]
  /\ err' = [err EXCEPT ![w] = <<>>]
  /\ UNCHANGED <<engineVars, ctxDone, cond, pc, res, gotRes>>

(***************************************************************************)
(* The engine, the container and the contexts.                             *)
(***************************************************************************)
Arrive(w) ==
  /\ pc[w] = "post"
  /\ Move(w, "asked")
  /\ UNCHANGED <<engineVars, ctxDone, cond, res, err, subVars>>

Answer(w) ==
  /\ pc[w] = "asked"
  /\ life \in IF cond[w] = "removed" THEN {"removed"} ELSE {"exited", "removed"}
  /\ Move(w, "decode")
  /\ UNCHANGED <<engineVars, ctxDone, cond, res, err, subVars>>

\* The process exits, or is killed by a forced removal.
Live ==
  /\ \/ life = "running" /\ life' \in {"exited", "removed"} /\ exitCode' \in ExitCodes
     \/ life = "exited" /\ life' = "removed" /\ UNCHANGED exitCode
  /\ UNCHANGED <<ctxDone, cond, pc, res, err, subVars>>

Cancel(w) ==
  /\ w \notin ctxDone
  /\ ctxDone' = ctxDone \cup {w}
  /\ UNCHANGED <<engineVars, cond, pc, res, err, subVars>>
--------------------------------------------------------------------------------
Goroutine(w) ==
  GivesUp(w) \/ DecodeFails(w) \/ Decode(w) \/ CloseErr(w) \/ CloseRes(w)

Next ==
  \/ Live
  \/ \E w \in Waits :
       \/ Goroutine(w) \/ PostFails(w) \/ Refused(w) \/ Arrive(w) \/ Answer(w)
       \/ ReceiveRes(w) \/ ReceiveErr(w) \/ Cancel(w)

Spec == Init /\ [][Next]_vars

\* The goroutine is scheduled; the engine and the subscriber owe nothing.
FairSpec == Spec /\ \A w \in Waits : WF_vars(Goroutine(w))
--------------------------------------------------------------------------------
\* What a subscriber that receives from both channels may conclude, in
\* whichever order and however late: an error, or else the status with which
\* the process exited (container.go:149-172).
BothTell ==
  \A w \in Waits : gotRes[w] # None /\ gotErr[w] = "nil" =>
    gotRes[w] = exitCode /\ life # "running"

\* A wait has one outcome: an error that was reported is not followed by a
\* result (container.go:159-171).
OneOutcome ==
  \A w \in Waits : err[w] # <<>> \/ gotErr[w] \in Errors => res[w] = <<>>

\* The goroutine of a wait whose context is done, or that was answered, ends
\* and closes both channels, even when nobody receives (container.go:147-152).
EndsAlone ==
  \A w \in Waits : w \in ctxDone \/ pc[w] = "decode" ~> errClosed(w) /\ resClosed(w)

(***************************************************************************)
(* The inductive invariant behind the first two: where each outcome is.    *)
(***************************************************************************)
Exited == life # "running" /\ exitCode \in ExitCodes

Pending(w) ==
  /\ pc[w] \in {"post", "asked", "decode"}
  /\ res[w] = <<>> /\ err[w] = <<>> /\ gotRes[w] = None /\ gotErr[w] = None
  /\ pc[w] = "decode" => Exited

Failed(w) ==
  /\ res[w] = <<>>
  /\ \/ gotErr[w] = None /\ Len(err[w]) = 1
     \/ gotErr[w] \in Errors /\ err[w] = <<>>

Succeeded(w) ==
  /\ Exited
  /\ err[w] = <<>> /\ gotErr[w] \in {"nil", None}
  /\ \/ gotRes[w] = None /\ res[w] = <<exitCode>>
     \/ gotRes[w] = exitCode /\ res[w] = <<>>

Settled(w) == pc[w] \in {"sent", "errClosed", "end"} /\ (Failed(w) \/ Succeeded(w))

Inv ==
  /\ life # "running" => exitCode \in ExitCodes
  /\ \A w \in Waits : Pending(w) \/ Settled(w)
================================================================================
