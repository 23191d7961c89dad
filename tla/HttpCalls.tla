------------------------------- MODULE HttpCalls -------------------------------
(***************************************************************************)
(* The calls of the Client API over the Unix socket: one request, the      *)
(* check of its status, what becomes of the response body, and with it of  *)
(* the connection (client.go, container.go, image.go, store.go,            *)
(* network_ops.go and volume_ops.go over api/transport.go).                *)
(*                                                                         *)
(* Every method is the same few steps; a table says which statuses it      *)
(* expects and how it treats the body of an expected response:             *)
(*   decode  one JSON value is decoded, then the body is closed            *)
(*   close   closed unread                                                 *)
(*   drain   read to the end, then closed; an error of the read is an      *)
(*           error of the call, or (pour) is ignored                       *)
(*   lend    handed to the caller of the method                            *)
(*   leave   nobody reads or closes it                                     *)
(* The connections are those of net/http: one request at a time, idle      *)
(* when the body of its response is over, closed when it ends early.       *)
(***************************************************************************)
EXTENDS Integers, FiniteSets

CONSTANTS
  Callers,  \* goroutines, each with one context for all of its calls
  Conns,    \* connections: the bound on those open at a time
  Used,     \* the methods that the callers call
  None      \* no connection, no method, no holder

Does(codes, body) == [ok |-> codes, body |-> body, next |-> "none"]
Then(o, next)     == [o EXCEPT !.next = next]
Codes == {200, 201, 204, 500}   \* 500 is any that no method expects

\* client.go: system, containers, images.
SystemOps == [
  IsServing |-> Does(Codes, "close"),  Version |-> Does({200}, "decode"),
  Info |-> Does({200}, "decode"),      DiskUsage |-> Does({200}, "decode"),
  Events |-> Does(Codes, "lend")]

CreateOps == [
  NewContainer |-> Does({200, 201}, "decode"), LoadContainer |-> Does({200}, "close"),
  Containers |-> Does({200}, "decode")]

ImageOps == [
  Pull |-> Then(Does({200}, "drain"), "GetImage"), GetImage |-> Does({200}, "decode"),
  ListImages |-> Does({200}, "decode"),  DeleteImage |-> Does({200}, "leave"),
  TagImage |-> Does({201}, "leave"),     Build |-> Does({200}, "pour"),
  Push |-> Does({200}, "pour")]

AdminOps == [
  PruneContainers |-> Does({200}, "decode"), PruneImages |-> Does({200}, "leave"),
  RegistryLogin |-> Does({200}, "leave")]

\* container.go
HandleOps == [
  Inspect |-> Does({200}, "decode"), Start |-> Does({204}, "leave"),
  Stop |-> Does({204}, "leave"),     Kill |-> Does({204}, "leave"),
  Delete |-> Does({204}, "leave"),   Restart |-> Does({204}, "leave")]

\* The request of Wait, and that with which Exec creates the exec.
ExecOps == [
  Wait |-> Does({200}, "decode"), Exec |-> Does({200, 201}, "decode")]

ReadOps == [
  Logs |-> Does({200}, "lend"),      Stats |-> Does({200}, "decode"),
  Image |-> Then(Does({200}, "decode"), "GetImage"), Labels |-> Does({200}, "decode")]

\* image.go
TagOps == [
  ImageInfo |-> Does({200}, "decode"), ImageDelete |-> Does({200}, "leave"),
  ImageTag |-> Does({201}, "leave")]

\* store.go
StoreOps == [
  StoreGet |-> Does({200}, "decode"),     StoreList |-> Does({200}, "decode"),
  StoreCreate |-> Does({201}, "decode"),  StoreDelete |-> Does({204}, "leave"),
  ImageStoreGet |-> Does({200}, "decode"), ImageStoreList |-> Does({200}, "decode"),
  ImageStoreDelete |-> Does({200}, "leave")]

NetworkOps == [
  CreateNetwork |-> Does({201}, "decode"),  DeleteNetwork |-> Does({204}, "leave"),
  ListNetworks |-> Does({200}, "decode"),   InspectNetwork |-> Does({200}, "decode"),
  ConnectNetwork |-> Does({200}, "leave"),  DisconnectNetwork |-> Does({200}, "leave"),
  PruneNetworks |-> Does({200}, "leave")]

VolumeOps == [
  CreateVolume |-> Does({201}, "decode"),   DeleteVolume |-> Does({204}, "leave"),
  ListVolumes |-> Does({200}, "decode"),    InspectVolume |-> Does({200}, "decode"),
  PruneVolumes |-> Does({200}, "leave")]

Tables == {SystemOps, CreateOps, ImageOps, AdminOps, HandleOps, ExecOps, ReadOps, TagOps,
           StoreOps, NetworkOps, VolumeOps}

Methods == [o \in UNION {DOMAIN t : t \in Tables} |-> (CHOOSE t \in Tables : o \in DOMAIN t)[o]]

ASSUME CallsAssumption ==
  /\ Used \subseteq DOMAIN Methods
  /\ None \notin Conns \cup Callers \cup DOMAIN Methods

VARIABLES
  pc,       \* dial, do (in http.Client.Do), use or fail (with the response), or
            \* outside a call: idle, or what the last returned (ok or err)
  op,       \* the method, or that which it goes on with; None outside a call
  conn,     \* the connection of the request, or None
  use,      \* each connection: closed, idle, busy, lent or left
  body,     \* its response body: silent, value (one whole value), ended, broken
  holder,   \* the caller whose request it carried last
  ctxDone   \* the callers whose context is done

callVars == <<pc, op, conn>>
connVars == <<use, body, holder>>
vars     == <<callVars, connVars, ctxDone>>

Returned == {"idle", "ok", "err"}

TypeOK ==
  /\ pc \in [Callers -> Returned \cup {"dial", "do", "use", "fail"}]
  /\ op \in [Callers -> DOMAIN Methods \cup {None}]
  /\ conn \in [Callers -> Conns \cup {None}]
  /\ use \in [Conns -> {"closed", "idle", "busy", "lent", "left"}]
  /\ body \in [Conns -> {"silent", "value", "ended", "broken"}]
  /\ holder \in [Conns -> Callers \cup {None}]
  /\ ctxDone \subseteq Callers

Init ==
  /\ pc = [c \in Callers |-> "idle"]
  /\ op = [c \in Callers |-> None]
  /\ conn = [c \in Callers |-> None]
  /\ use = [k \in Conns |-> "closed"]
  /\ body = [k \in Conns |-> "silent"]
  /\ holder = [k \in Conns |-> None]
  /\ ctxDone = {}
--------------------------------------------------------------------------------
Treats(c) == Methods[op[c]].body

\* Mutant: there is always a second request.
FinishGoesOn(c, res) ==
  LET next == Methods[op[c]].next IN
  /\ pc' = [pc EXCEPT ![c] = IF res = "ok" THEN "dial" ELSE res]
  /\ op' = [op EXCEPT ![c] = IF res = "ok" THEN next ELSE None]
  /\ conn' = [conn EXCEPT ![c] = None]

\* The method returns, or goes on with its second request.
Finish(c, res) ==
  LET next == IF res = "ok" THEN Methods[op[c]].next ELSE "none" IN
  /\ pc' = [pc EXCEPT ![c] = IF next = "none" THEN res ELSE "dial"]
  /\ op' = [op EXCEPT ![c] = IF next = "none" THEN None ELSE next]
  /\ conn' = [conn EXCEPT ![c] = None]

\* What becomes of connection k: in state u, with no body.
Conn(k, u) ==
  /\ use' = [use EXCEPT ![k] = u]
  /\ body' = [body EXCEPT ![k] = "silent"]
  /\ holder' = [holder EXCEPT ![k] = None]

CallMethod(c, o) ==
  /\ pc[c] \in Returned
  /\ pc' = [pc EXCEPT ![c] = "dial"]
  /\ op' = [op EXCEPT ![c] = o]
  /\ UNCHANGED <<conn, connVars, ctxDone>>

\* Do: an idle connection or a new one.
Send(c, k) ==
  /\ pc[c] = "dial"
  /\ c \notin ctxDone
  /\ \/ use[k] = "idle"
     \/ use[k] = "closed" /\ \A i \in Conns : use[i] # "idle"
  /\ use' = [use EXCEPT ![k] = "busy"]
  /\ holder' = [holder EXCEPT ![k] = c]
  /\ pc' = [pc EXCEPT ![c] = "do"]
  /\ conn' = [conn EXCEPT ![c] = k]
  /\ UNCHANGED <<op, body, ctxDone>>

\* Nobody listens on the socket, or the context is done.
DialFails(c) ==
  /\ pc[c] = "dial"
  /\ Finish(c, "err")
  /\ UNCHANGED <<connVars, ctxDone>>

\* Mutant: a request that does not carry the context.
OnlyBroken(c) == body[conn[c]] = "broken"

Interrupted(c) == c \in ctxDone \/ body[conn[c]] = "broken"

\* Do fails, and net/http closes the connection.
DoFails(c) ==
  /\ pc[c] = "do"
  /\ Interrupted(c)
  /\ Conn(conn[c], "closed")
  /\ Finish(c, "err")
  /\ UNCHANGED ctxDone

\* The daemon answers, Do returns and checkResponse looks at the status.  An
\* empty body has no connection: net/http has taken it back.
Answer(c, s, empty) ==
  /\ pc[c] = "do"
  /\ body[conn[c]] = "silent"
  /\ s = 204 => empty
  /\ pc' = [pc EXCEPT ![c] = IF s \in Methods[op[c]].ok THEN "use" ELSE "fail"]
  /\ IF empty
       THEN Conn(conn[c], "idle") /\ conn' = [conn EXCEPT ![c] = None]
       ELSE UNCHANGED <<conn, connVars>>
  /\ UNCHANGED <<op, ctxDone>>

HasBody(c) == conn[c] # None

\* The method returns and closes the body, if there is one: the connection
\* can be used again if the body was over.
CloseAndReturn(c, res) ==
  /\ Finish(c, res)
  /\ IF HasBody(c)
       THEN Conn(conn[c], IF body[conn[c]] = "ended" THEN "idle" ELSE "closed")
       ELSE UNCHANGED connVars
  /\ UNCHANGED ctxDone

\* DecodeResponse: one value, whether or not the body ends after it, where its
\* comment says the full body (transport.go:145).
Decode(c) ==
  /\ pc[c] = "use" /\ Treats(c) = "decode"
  /\ HasBody(c) /\ body[conn[c]] \in {"value", "ended"}
  /\ CloseAndReturn(c, "ok")

\* Mutant: the body is closed only after a value was decoded.
DecodeFailsOpen(c) ==
  /\ pc[c] = "use" /\ Treats(c) = "decode"
  /\ HasBody(c) => Interrupted(c)
  /\ Finish(c, "err")
  /\ UNCHANGED <<connVars, ctxDone>>

\* An empty, cut or garbled body, or a read of one whose context is done.
DecodeFails(c) ==
  /\ pc[c] = "use" /\ Treats(c) = "decode"
  /\ HasBody(c) => Interrupted(c)
  /\ CloseAndReturn(c, "err")

Close(c) ==
  /\ pc[c] = "use" /\ Treats(c) = "close"
  /\ CloseAndReturn(c, "ok")

\* io.Copy to the end of the body.
Drain(c) ==
  /\ pc[c] = "use" /\ Treats(c) \in {"drain", "pour"}
  /\ HasBody(c) => body[conn[c]] = "ended"
  /\ CloseAndReturn(c, "ok")

\* Mutant: every drain ignores the error.
DrainIgnores(c) ==
  /\ pc[c] = "use" /\ Treats(c) \in {"drain", "pour"}
  /\ HasBody(c) /\ Interrupted(c)
  /\ CloseAndReturn(c, "ok")

\* Its error ends a Pull, and is ignored by Push and Build.
DrainFails(c) ==
  /\ pc[c] = "use" /\ Treats(c) \in {"drain", "pour"}
  /\ HasBody(c) /\ Interrupted(c)
  /\ CloseAndReturn(c, IF Treats(c) = "drain" THEN "err" ELSE "ok")

\* The method returns nil and the body stays open, handed out or forgotten.
Leave(c) ==
  /\ pc[c] = "use" /\ Treats(c) \in {"lend", "leave"}
  /\ use' = [k \in Conns |-> IF k # conn[c] THEN use[k]
                             ELSE IF Treats(c) = "lend" THEN "lent" ELSE "left"]
  /\ Finish(c, "ok")
  /\ UNCHANGED <<body, holder, ctxDone>>

\* responseError: ReadAll, its error ignored.
RespondError(c) ==
  /\ pc[c] = "fail"
  /\ HasBody(c) => body[conn[c]] = "ended" \/ Interrupted(c)
  /\ CloseAndReturn(c, "err")

--------------------------------------------------------------------------------
(***************************************************************************)
(* The environment: contexts, the daemon, net/http, and the readers of the *)
(* bodies that were handed out.                                            *)
(***************************************************************************)
Cancel(c) ==
  /\ c \notin ctxDone
  /\ ctxDone' = ctxDone \cup {c}
  /\ UNCHANGED <<callVars, connVars>>

\* The daemon writes a value, ends the body, or fails; it may do none.
Answered(k) == use[k] # "busy" \/ \E c \in Callers : conn[c] = k /\ pc[c] # "do"

WriteBody(k) ==
  /\ use[k] \in {"busy", "lent", "left"}
  /\ body' \in {[body EXCEPT ![k] = b] : b \in {"value", "ended", "broken"}}
  /\ \/ body[k] = "silent" /\ (Answered(k) \/ body'[k] = "broken")
     \/ body[k] = "value" /\ body'[k] # "value"
  /\ UNCHANGED <<callVars, use, holder, ctxDone>>

\* net/http gives up a connection that is idle and closed by the daemon, or
\* whose request was cancelled; a reader closes what it was lent.
Drop(k) ==
  /\ \/ use[k] \in {"idle", "lent"}
     \/ use[k] = "left" /\ holder[k] \in ctxDone
  /\ Conn(k, "closed")
  /\ UNCHANGED <<callVars, ctxDone>>
--------------------------------------------------------------------------------
Step(c) ==
  \/ \E k \in Conns : Send(c, k)
  \/ DialFails(c) \/ DoFails(c) \/ RespondError(c)
  \/ Decode(c) \/ DecodeFails(c) \/ Close(c) \/ Drain(c) \/ DrainFails(c) \/ Leave(c)

Next ==
  \/ \E c \in Callers :
       \/ \E o \in Used : CallMethod(c, o)
       \/ \E s \in Codes, empty \in BOOLEAN : Answer(c, s, empty)
       \/ Step(c) \/ Cancel(c)
  \/ \E k \in Conns : WriteBody(k) \/ Drop(k)

Spec == Init /\ [][Next]_vars

\* A call takes its next step when it has one.  Nothing is assumed of the
\* daemon, nor of the contexts.
FairSpec == Spec /\ \A c \in Callers : WF_vars(Step(c))
--------------------------------------------------------------------------------
(***************************************************************************)
(* Properties.                                                             *)
(***************************************************************************)
\* Every busy connection belongs to one call in progress: whichever way a
\* call ends, the body of its response was closed, handed out, or is one of
\* those that the table says are left; and a caller has a method while it is in
\* a call (client.go:490, 496, 315, 423, 437, transport.go:148).
Accounted ==
  /\ \A k \in Conns : use[k] = "busy" <=> \E c \in Callers : conn[c] = k
  /\ \A c, d \in Callers : conn[c] = conn[d] /\ c # d => conn[c] = None
  /\ \A c \in Callers : conn[c] # None => pc[c] \in {"do", "use", "fail"}
  /\ \A c \in Callers : op[c] = None <=> pc[c] \in Returned

\* A method that decodes, and Pull, go on or return nil only with the whole
\* answer: nothing cut, garbled or given up passes for a result
\* (transport.go:149-151, client.go:322-324).
Whole(c) == HasBody(c) /\ body[conn[c]] \in {"value", "ended"}

OkMeansWhole ==
  [][\A c \in Callers :
       pc[c] = "use" /\ pc'[c] \in {"ok", "dial"}
       => CASE Treats(c) = "decode" -> Whole(c)
            [] Treats(c) = "drain"  -> HasBody(c) => Whole(c)
            [] OTHER                -> TRUE]_vars

\* A caller whose context is done gets its method back, whatever the daemon
\* does (transport.go:71, 88, 106, 118).
CancelReturns ==
  \A c \in Callers : c \in ctxDone ~> pc[c] \in Returned
================================================================================
