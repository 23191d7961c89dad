----------------------------- MODULE HttpCallsProofs ----------------------------
(***************************************************************************)
(* Proofs about module HttpCalls: its types, that no connection is lost,   *)
(* and that nothing but a whole answer passes for one.                     *)
(***************************************************************************)
EXTENDS HttpCalls, TLAPS

\* What a row of the table may go on with.
Rows(f) == \A o \in DOMAIN f : f[o].next \in {"none", "GetImage"}

LEMMA GroupRows ==
  /\ Rows(SystemOps) /\ Rows(CreateOps) /\ Rows(ImageOps) /\ Rows(AdminOps)
  /\ Rows(HandleOps) /\ Rows(ExecOps) /\ Rows(ReadOps) /\ Rows(TagOps)
  /\ Rows(StoreOps) /\ Rows(NetworkOps) /\ Rows(VolumeOps)
  /\ "GetImage" \in DOMAIN ImageOps
<1> USE DEF Rows, Does, Then
<1>1. Rows(SystemOps)
  BY DEF SystemOps
<1>2. Rows(CreateOps)
  BY DEF CreateOps
<1>3. Rows(ImageOps) /\ "GetImage" \in DOMAIN ImageOps
  BY DEF ImageOps
<1>4. Rows(AdminOps)
  BY DEF AdminOps
<1>5. Rows(HandleOps)
  BY DEF HandleOps
<1>6. Rows(ExecOps)
  BY DEF ExecOps
<1>7. Rows(ReadOps)
  BY DEF ReadOps
<1>8. Rows(TagOps)
  BY DEF TagOps
<1>9. Rows(StoreOps)
  BY DEF StoreOps
<1>10. Rows(NetworkOps)
  BY DEF NetworkOps
<1>11. Rows(VolumeOps)
  BY DEF VolumeOps
<1> QED BY <1>1, <1>2, <1>3, <1>4, <1>5, <1>6, <1>7, <1>8, <1>9, <1>10, <1>11

\* A method goes on with another, or with none.
LEMMA NextMethod == \A o \in DOMAIN Methods : Methods[o].next \in {"none"} \cup DOMAIN Methods
<1>1. \A t \in Tables : Rows(t)
  BY GroupRows DEF Tables
<1>2. "GetImage" \in DOMAIN Methods
  BY GroupRows DEF Methods, Tables
<1>3. ASSUME NEW o \in DOMAIN Methods PROVE Methods[o].next \in {"none", "GetImage"}
  <2>1. PICK t \in Tables : o \in DOMAIN t /\ Methods[o] = t[o]
    BY DEF Methods
  <2> QED BY <1>1, <2>1 DEF Rows
<1> QED BY <1>2, <1>3
--------------------------------------------------------------------------------
(***************************************************************************)
(* What the steps share.                                                   *)
(***************************************************************************)
\* A method returns, or goes on: it has no connection then.
LEMMA FinishOK ==
  ASSUME TypeOK, NEW c \in Callers, NEW res \in {"ok", "err"}, Finish(c, res),
         op[c] \in DOMAIN Methods
  PROVE  /\ pc' \in [Callers -> Returned \cup {"dial", "do", "use", "fail"}]
         /\ op' \in [Callers -> DOMAIN Methods \cup {None}]
         /\ conn' = [conn EXCEPT ![c] = None]
         /\ pc'[c] \in {"ok", "err", "dial"}
         /\ op'[c] = None <=> pc'[c] \in Returned
         /\ \A d \in Callers \ {c} : pc'[d] = pc[d] /\ op'[d] = op[d]
<1> DEFINE next == IF res = "ok" THEN Methods[op[c]].next ELSE "none"
<1>1. next \in {"none"} \cup DOMAIN Methods
  BY NextMethod
<1>2. /\ pc' = [pc EXCEPT ![c] = IF next = "none" THEN res ELSE "dial"]
      /\ op' = [op EXCEPT ![c] = IF next = "none" THEN None ELSE next]
      /\ conn' = [conn EXCEPT ![c] = None]
  BY DEF Finish
<1> HIDE DEF next
<1> QED BY <1>1, <1>2, CallsAssumption DEF TypeOK, Returned

\* A connection that loses its request.
LEMMA ConnOK ==
  ASSUME TypeOK, NEW k, NEW u \in {"closed", "idle"}, Conn(k, u)
  PROVE  /\ use' \in [Conns -> {"closed", "idle", "busy", "lent", "left"}]
         /\ body' \in [Conns -> {"silent", "value", "ended", "broken"}]
         /\ holder' \in [Conns -> Callers \cup {None}]
         /\ \A j \in Conns : use'[j] = IF j = k THEN u ELSE use[j]
  BY DEF Conn, TypeOK

\* The connection of a call is given back, and only this call had it.
LEMMA Released ==
  ASSUME TypeOK, Accounted, NEW c \in Callers, conn' = [conn EXCEPT ![c] = None],
         \A j \in Conns : IF j = conn[c] THEN use'[j] # "busy" ELSE use'[j] = use[j],
         op'[c] = None <=> pc'[c] \in Returned,
         \A d \in Callers \ {c} : pc'[d] = pc[d] /\ op'[d] = op[d]
  PROVE  Accounted'
<1>1. /\ conn'[c] = None /\ None \notin Conns
      /\ \A d \in Callers \ {c} : conn'[d] = conn[d]
  BY CallsAssumption DEF TypeOK
<1>2. ASSUME NEW k \in Conns PROVE use'[k] = "busy" <=> \E d \in Callers : conn'[d] = k
  <2>1. CASE k = conn[c]
    BY <1>1, <2>1 DEF Accounted
  <2>2. CASE k # conn[c]
    BY <1>1, <2>2 DEF Accounted
  <2> QED BY <2>1, <2>2
<1>3. \A d, e \in Callers : conn'[d] = conn'[e] /\ d # e => conn'[d] = None
  BY <1>1 DEF Accounted
<1>4. \A d \in Callers : conn'[d] # None => pc'[d] \in {"do", "use", "fail"}
  BY <1>1 DEF Accounted
<1>5. \A d \in Callers : op'[d] = None <=> pc'[d] \in Returned
  BY DEF Accounted
<1> QED BY <1>2, <1>3, <1>4, <1>5 DEF Accounted

\* A call with a body, or without, ends.
LEMMA CloseOK ==
  ASSUME TypeOK, Accounted, NEW c \in Callers, NEW res \in {"ok", "err"},
         CloseAndReturn(c, res), op[c] \in DOMAIN Methods
  PROVE  TypeOK' /\ Accounted'
<1>1. /\ pc' \in [Callers -> Returned \cup {"dial", "do", "use", "fail"}]
      /\ op' \in [Callers -> DOMAIN Methods \cup {None}]
      /\ conn' = [conn EXCEPT ![c] = None]
      /\ op'[c] = None <=> pc'[c] \in Returned
      /\ \A d \in Callers \ {c} : pc'[d] = pc[d] /\ op'[d] = op[d]
      /\ ctxDone' = ctxDone
  BY FinishOK DEF CloseAndReturn
<1>2. CASE HasBody(c)
  <2> DEFINE u == IF body[conn[c]] = "ended" THEN "idle" ELSE "closed"
  <2>1. Conn(conn[c], u) /\ u \in {"closed", "idle"}
    BY <1>2 DEF CloseAndReturn
  <2> HIDE DEF u
  <2>2. /\ use' \in [Conns -> {"closed", "idle", "busy", "lent", "left"}]
        /\ body' \in [Conns -> {"silent", "value", "ended", "broken"}]
        /\ holder' \in [Conns -> Callers \cup {None}]
        /\ \A j \in Conns : use'[j] = IF j = conn[c] THEN u ELSE use[j]
    BY <2>1, ConnOK
  <2>3. TypeOK'
    BY <1>1, <2>2 DEF TypeOK
  <2>4. Accounted'
    BY <1>1, <2>1, <2>2, Released
  <2> QED BY <2>3, <2>4
<1>3. CASE ~HasBody(c)
  <2>1. UNCHANGED connVars
    BY <1>3 DEF CloseAndReturn
  <2>2. TypeOK'
    BY <1>1, <2>1 DEF TypeOK, connVars
  <2>3. \A j \in Conns : j # conn[c] /\ use'[j] = use[j]
    BY <1>3, <2>1, CallsAssumption DEF HasBody, connVars
  <2>4. Accounted'
    BY <1>1, <2>3, Released
  <2> QED BY <2>2, <2>4
<1> QED BY <1>2, <1>3

\* A caller in a call has a method.
LEMMA InCall ==
  ASSUME TypeOK, Accounted, NEW c \in Callers, pc[c] \notin Returned
  PROVE  op[c] \in DOMAIN Methods
  BY DEF TypeOK, Accounted

\* A call starts, gets a connection, or gets none.
LEMMA StartsOK ==
  ASSUME TypeOK, Accounted, NEW c \in Callers
  PROVE  /\ \A o \in Used : CallMethod(c, o) => TypeOK' /\ Accounted'
         /\ \A k \in Conns : Send(c, k) => TypeOK' /\ Accounted'
         /\ DialFails(c) => TypeOK' /\ Accounted'
<1>1. ASSUME NEW o \in Used, CallMethod(c, o) PROVE TypeOK' /\ Accounted'
  <2>1. /\ pc[c] \in Returned /\ pc' = [pc EXCEPT ![c] = "dial"]
        /\ op' = [op EXCEPT ![c] = o] /\ UNCHANGED <<conn, use, body, holder, ctxDone>>
    BY <1>1 DEF CallMethod, connVars
  <2>2. o \in DOMAIN Methods /\ o # None
    BY CallsAssumption
  <2>3. TypeOK'
    BY <2>1, <2>2 DEF TypeOK
  <2>4. conn[c] = None
    BY <2>1 DEF Accounted, Returned
  <2>5. Accounted'
    BY <2>1, <2>2, <2>4 DEF Accounted, TypeOK, Returned
  <2> QED BY <2>3, <2>5
<1>2. ASSUME NEW k \in Conns, Send(c, k) PROVE TypeOK' /\ Accounted'
  <2>1. /\ pc[c] = "dial" /\ use[k] \in {"idle", "closed"}
        /\ use' = [use EXCEPT ![k] = "busy"] /\ holder' = [holder EXCEPT ![k] = c]
        /\ pc' = [pc EXCEPT ![c] = "do"] /\ conn' = [conn EXCEPT ![c] = k]
        /\ UNCHANGED <<op, body, ctxDone>>
    BY <1>2 DEF Send
  <2>2. TypeOK'
    BY <2>1 DEF TypeOK
  <2>3. conn[c] = None /\ None \notin Conns /\ \A d \in Callers : conn[d] # k
    BY <2>1, CallsAssumption DEF Accounted
  <2>4. /\ conn'[c] = k /\ \A d \in Callers \ {c} : conn'[d] = conn[d]
        /\ pc'[c] = "do" /\ \A d \in Callers \ {c} : pc'[d] = pc[d]
        /\ \A j \in Conns : use'[j] = IF j = k THEN "busy" ELSE use[j]
    BY <2>1 DEF TypeOK
  <2>5. \A j \in Conns : use'[j] = "busy" <=> \E d \in Callers : conn'[d] = j
    BY <2>3, <2>4 DEF Accounted
  <2>6. \A d, e \in Callers : conn'[d] = conn'[e] /\ d # e => conn'[d] = None
    BY <2>3, <2>4 DEF Accounted
  <2>7. /\ \A d \in Callers : conn'[d] # None => pc'[d] \in {"do", "use", "fail"}
        /\ \A d \in Callers : op'[d] = None <=> pc'[d] \in Returned
    BY <2>1, <2>4 DEF Accounted, Returned
  <2> QED BY <2>2, <2>5, <2>6, <2>7 DEF Accounted
<1>3. CASE DialFails(c)
  <2>1. pc[c] = "dial" /\ Finish(c, "err") /\ UNCHANGED <<use, body, holder, ctxDone>>
    BY <1>3 DEF DialFails, connVars
  <2>2. op[c] \in DOMAIN Methods /\ conn[c] = None /\ None \notin Conns
    BY <2>1, InCall, CallsAssumption DEF Returned, Accounted
  <2>3. /\ pc' \in [Callers -> Returned \cup {"dial", "do", "use", "fail"}]
        /\ op' \in [Callers -> DOMAIN Methods \cup {None}]
        /\ conn' = [conn EXCEPT ![c] = None]
        /\ op'[c] = None <=> pc'[c] \in Returned
        /\ \A d \in Callers \ {c} : pc'[d] = pc[d] /\ op'[d] = op[d]
    BY <2>1, <2>2, FinishOK
  <2>4. TypeOK'
    BY <2>1, <2>3 DEF TypeOK
  <2>5. Accounted'
    BY <2>1, <2>2, <2>3, Released
  <2> QED BY <2>4, <2>5
<1> QED BY <1>1, <1>2, <1>3

\* The daemon answers, or the request fails.
LEMMA DoOK ==
  ASSUME TypeOK, Accounted, NEW c \in Callers
  PROVE  /\ DoFails(c) => TypeOK' /\ Accounted'
         /\ \A s \in Codes, empty \in BOOLEAN :
              Answer(c, s, empty) => TypeOK' /\ Accounted'
<1>1. CASE DoFails(c)
  <2>1. pc[c] = "do" /\ Finish(c, "err") /\ Conn(conn[c], "closed") /\ ctxDone' = ctxDone
    BY <1>1 DEF DoFails
  <2>2. op[c] \in DOMAIN Methods
    BY <2>1, InCall DEF Returned
  <2>3. /\ pc' \in [Callers -> Returned \cup {"dial", "do", "use", "fail"}]
        /\ op' \in [Callers -> DOMAIN Methods \cup {None}]
        /\ conn' = [conn EXCEPT ![c] = None]
        /\ op'[c] = None <=> pc'[c] \in Returned
        /\ \A d \in Callers \ {c} : pc'[d] = pc[d] /\ op'[d] = op[d]
    BY <2>1, <2>2, FinishOK
  <2>4. /\ use' \in [Conns -> {"closed", "idle", "busy", "lent", "left"}]
        /\ body' \in [Conns -> {"silent", "value", "ended", "broken"}]
        /\ holder' \in [Conns -> Callers \cup {None}]
        /\ \A j \in Conns : use'[j] = IF j = conn[c] THEN "closed" ELSE use[j]
    BY <2>1, ConnOK
  <2>5. TypeOK'
    BY <2>1, <2>3, <2>4 DEF TypeOK
  <2>6. Accounted'
    BY <2>3, <2>4, Released
  <2> QED BY <2>5, <2>6
<1>2. ASSUME NEW s \in Codes, NEW empty \in BOOLEAN, Answer(c, s, empty)
      PROVE  TypeOK' /\ Accounted'
  <2>1. /\ pc[c] = "do" /\ UNCHANGED <<op, ctxDone>>
        /\ pc' = [pc EXCEPT ![c] = IF s \in Methods[op[c]].ok THEN "use" ELSE "fail"]
    BY <1>2 DEF Answer
  <2>2. /\ pc' \in [Callers -> Returned \cup {"dial", "do", "use", "fail"}]
        /\ pc'[c] \in {"use", "fail"} /\ \A d \in Callers \ {c} : pc'[d] = pc[d]
    BY <2>1 DEF TypeOK
  <2>3. op'[c] = None <=> pc'[c] \in Returned
    BY <2>1, <2>2 DEF Accounted, Returned
  <2>4. CASE empty
    <3>1. Conn(conn[c], "idle") /\ conn' = [conn EXCEPT ![c] = None]
      BY <1>2, <2>4 DEF Answer
    <3>2. /\ use' \in [Conns -> {"closed", "idle", "busy", "lent", "left"}]
          /\ body' \in [Conns -> {"silent", "value", "ended", "broken"}]
          /\ holder' \in [Conns -> Callers \cup {None}]
          /\ \A j \in Conns : use'[j] = IF j = conn[c] THEN "idle" ELSE use[j]
      BY <3>1, ConnOK
    <3>3. TypeOK'
      BY <2>1, <2>2, <3>1, <3>2 DEF TypeOK
    <3>4. \A j \in Conns : IF j = conn[c] THEN use'[j] # "busy" ELSE use'[j] = use[j]
      BY <3>2
    <3>5. \A d \in Callers \ {c} : pc'[d] = pc[d] /\ op'[d] = op[d]
      BY <2>1, <2>2
    <3>6. Accounted'
      BY <2>3, <3>1, <3>4, <3>5, Released
    <3> QED BY <3>3, <3>6
  <2>5. CASE ~empty
    <3>1. UNCHANGED <<conn, use, body, holder>>
      BY <1>2, <2>5 DEF Answer, connVars
    <3>2. TypeOK'
      BY <2>1, <2>2, <3>1 DEF TypeOK
    <3>3. Accounted'
      BY <2>1, <2>2, <2>3, <3>1 DEF Accounted
    <3> QED BY <3>2, <3>3
  <2> QED BY <2>4, <2>5
<1> QED BY <1>1, <1>2

\* What a call does with the answer that it has.
LEMMA UseOK ==
  ASSUME TypeOK, Accounted, NEW c \in Callers,
         \/ Decode(c) \/ DecodeFails(c) \/ Close(c) \/ Drain(c) \/ DrainFails(c)
         \/ RespondError(c)
  PROVE  TypeOK' /\ Accounted'
<1>1. pc[c] \in {"use", "fail"} /\ \E res \in {"ok", "err"} : CloseAndReturn(c, res)
  BY DEF Decode, DecodeFails, Close, Drain, DrainFails, RespondError
<1>2. op[c] \in DOMAIN Methods
  BY <1>1, InCall DEF Returned
<1> QED BY <1>1, <1>2, CloseOK

\* A body that nobody closes here.
LEMMA LeaveOK ==
  ASSUME TypeOK, Accounted, NEW c \in Callers, Leave(c)
  PROVE  TypeOK' /\ Accounted'
<1>1. /\ pc[c] = "use" /\ Finish(c, "ok") /\ UNCHANGED <<body, holder, ctxDone>>
      /\ use' = [k \in Conns |-> IF k # conn[c] THEN use[k]
                                 ELSE IF Treats(c) = "lend" THEN "lent" ELSE "left"]
  BY DEF Leave
<1>2. op[c] \in DOMAIN Methods
  BY <1>1, InCall DEF Returned
<1>3. /\ pc' \in [Callers -> Returned \cup {"dial", "do", "use", "fail"}]
      /\ op' \in [Callers -> DOMAIN Methods \cup {None}]
      /\ conn' = [conn EXCEPT ![c] = None]
      /\ op'[c] = None <=> pc'[c] \in Returned
      /\ \A d \in Callers \ {c} : pc'[d] = pc[d] /\ op'[d] = op[d]
  BY <1>1, <1>2, FinishOK
<1>4. use' \in [Conns -> {"closed", "idle", "busy", "lent", "left"}]
  BY <1>1 DEF TypeOK
<1>5. TypeOK'
  BY <1>1, <1>3, <1>4 DEF TypeOK
<1>6. \A j \in Conns : IF j = conn[c] THEN use'[j] # "busy" ELSE use'[j] = use[j]
  BY <1>1
<1>7. Accounted'
  BY <1>3, <1>6, Released
<1> QED BY <1>5, <1>7

\* The environment: it takes no connection of a call.
LEMMA OthersOK ==
  ASSUME TypeOK, Accounted
  PROVE  /\ \A c \in Callers : Cancel(c) => TypeOK' /\ Accounted'
         /\ \A k \in Conns : WriteBody(k) => TypeOK' /\ Accounted'
         /\ \A k \in Conns : Drop(k) => TypeOK' /\ Accounted'
<1>1. ASSUME NEW c \in Callers, Cancel(c) PROVE TypeOK' /\ Accounted'
  <2>1. ctxDone' = ctxDone \cup {c} /\ UNCHANGED <<pc, op, conn, use, body, holder>>
    BY <1>1 DEF Cancel, callVars, connVars
  <2> QED BY <2>1 DEF TypeOK, Accounted
<1>2. ASSUME NEW k \in Conns, WriteBody(k) PROVE TypeOK' /\ Accounted'
  <2>1. /\ body' \in {[body EXCEPT ![k] = b] : b \in {"value", "ended", "broken"}}
        /\ UNCHANGED <<pc, op, conn, use, holder, ctxDone>>
    BY <1>2 DEF WriteBody, callVars
  <2>2. TypeOK'
    BY <2>1 DEF TypeOK
  <2>3. Accounted'
    BY <2>1 DEF Accounted
  <2> QED BY <2>2, <2>3
<1>3. ASSUME NEW k \in Conns, Drop(k) PROVE TypeOK' /\ Accounted'
  <2>1. use[k] # "busy" /\ Conn(k, "closed") /\ UNCHANGED <<pc, op, conn, ctxDone>>
    BY <1>3 DEF Drop, callVars
  <2>2. /\ use' \in [Conns -> {"closed", "idle", "busy", "lent", "left"}]
        /\ body' \in [Conns -> {"silent", "value", "ended", "broken"}]
        /\ holder' \in [Conns -> Callers \cup {None}]
        /\ \A j \in Conns : use'[j] = IF j = k THEN "closed" ELSE use[j]
    BY <2>1, ConnOK
  <2>3. TypeOK'
    BY <2>1, <2>2 DEF TypeOK
  <2>4. Accounted'
    BY <2>1, <2>2 DEF Accounted
  <2> QED BY <2>3, <2>4
<1> QED BY <1>1, <1>2, <1>3

\* Every step keeps the types and the account.
LEMMA StepOK ==
  ASSUME TypeOK, Accounted, [Next]_vars
  PROVE  TypeOK' /\ Accounted'
<1>1. ASSUME NEW c \in Callers, Step(c) PROVE TypeOK' /\ Accounted'
  BY <1>1, StartsOK, DoOK, UseOK, LeaveOK DEF Step
<1>2. ASSUME NEW c \in Callers,
             \/ \E o \in Used : CallMethod(c, o)
             \/ \E s \in Codes, empty \in BOOLEAN : Answer(c, s, empty)
             \/ Cancel(c)
      PROVE  TypeOK' /\ Accounted'
  BY <1>2, StartsOK, DoOK, OthersOK
<1>3. ASSUME NEW k \in Conns, WriteBody(k) \/ Drop(k) PROVE TypeOK' /\ Accounted'
  BY <1>3, OthersOK
<1>4. CASE UNCHANGED vars
  BY <1>4 DEF vars, callVars, connVars, TypeOK, Accounted
<1> QED BY <1>1, <1>2, <1>3, <1>4 DEF Next

LEMMA Invariance == Spec => [](TypeOK /\ Accounted)
<1>1. Init => TypeOK /\ Accounted
  <2> SUFFICES ASSUME Init PROVE TypeOK /\ Accounted
    OBVIOUS
  <2>1. TypeOK
    BY DEF Init, TypeOK, Returned
  <2>2. Accounted
    BY CallsAssumption DEF Init, Accounted, Returned
  <2> QED BY <2>1, <2>2
<1>2. TypeOK /\ Accounted /\ [Next]_vars => (TypeOK /\ Accounted)'
  BY StepOK
<1> QED BY <1>1, <1>2, PTL DEF Spec

\* Every variable keeps its type.
THEOREM TypeCorrect == Spec => []TypeOK
BY Invariance, PTL

\* For any number of callers and connections, and every method: a connection
\* that is busy has one call in progress (client.go:484-498,
\* api/transport.go:69-151).
THEOREM Account == Spec => []Accounted
BY Invariance, PTL
--------------------------------------------------------------------------------
\* A step of another caller, or of the environment, does not move a call.
LEMMA OnlyOwnStep ==
  ASSUME TypeOK, Accounted, Next, NEW c \in Callers, pc[c] = "use", pc'[c] # pc[c]
  PROVE  \/ Decode(c) \/ DecodeFails(c) \/ Close(c) \/ Drain(c) \/ DrainFails(c)
         \/ Leave(c)
<1>1. ASSUME NEW d \in Callers, NEW res, Finish(d, res), d # c PROVE pc'[c] = pc[c]
  BY <1>1 DEF Finish, TypeOK
<1>2. ASSUME NEW d \in Callers, Step(d), d # c PROVE FALSE
  <2>1. CASE \E k \in Conns : Send(d, k)
    BY <1>2, <2>1 DEF Send, TypeOK
  <2>2. CASE \E res : Finish(d, res)
    BY <1>1, <1>2, <2>2
  <2>3. (\E k \in Conns : Send(d, k)) \/ \E res : Finish(d, res)
    BY <1>2 DEF Step, DialFails, DoFails, RespondError, Decode, DecodeFails, Close, Drain,
                DrainFails, Leave, CloseAndReturn
  <2> QED BY <2>1, <2>2, <2>3
<1>3. ASSUME NEW d \in Callers,
             \/ \E o \in Used : CallMethod(d, o)
             \/ \E s \in Codes, empty \in BOOLEAN : Answer(d, s, empty)
             \/ Cancel(d)
      PROVE  FALSE
  <2>1. CASE \E o \in Used : CallMethod(d, o)
    BY <2>1 DEF CallMethod, TypeOK, Returned
  <2>2. CASE \E s \in Codes, empty \in BOOLEAN : Answer(d, s, empty)
    <3>1. pc[d] = "do" /\ \E x : pc' = [pc EXCEPT ![d] = x]
      BY <2>2 DEF Answer
    <3> QED BY <3>1 DEF TypeOK
  <2>3. CASE Cancel(d)
    BY <2>3 DEF Cancel, callVars
  <2> QED BY <1>3, <2>1, <2>2, <2>3
<1>4. ASSUME NEW k \in Conns, WriteBody(k) \/ Drop(k) PROVE FALSE
  BY <1>4 DEF WriteBody, Drop, callVars
<1>5. Step(c)
  BY <1>2, <1>3, <1>4 DEF Next
<1>6. ~(\E k \in Conns : Send(c, k)) /\ ~DialFails(c) /\ ~DoFails(c) /\ ~RespondError(c)
  BY DEF Send, DialFails, DoFails, RespondError
<1> QED BY <1>5, <1>6 DEF Step

\* No method that decodes, and no Pull, takes a cut or abandoned answer for a
\* result (transport.go:149-151, client.go:322-324).
THEOREM Wholeness == Spec => OkMeansWhole
<1>1. TypeOK /\ Accounted /\ [Next]_vars =>
        [\A c \in Callers :
           pc[c] = "use" /\ pc'[c] \in {"ok", "dial"}
           => CASE Treats(c) = "decode" -> Whole(c)
                [] Treats(c) = "drain"  -> HasBody(c) => Whole(c)
                [] OTHER                -> TRUE]_vars
  <2> SUFFICES ASSUME TypeOK, Accounted, Next, NEW c \in Callers,
                      pc[c] = "use", pc'[c] \in {"ok", "dial"}
               PROVE  /\ Treats(c) = "decode" => Whole(c)
                      /\ Treats(c) = "drain" => (HasBody(c) => Whole(c))
    BY Zenon
  <2>1. \/ Decode(c) \/ DecodeFails(c) \/ Close(c) \/ Drain(c) \/ DrainFails(c)
        \/ Leave(c)
    BY OnlyOwnStep
  <2>2. ~Finish(c, "err")
    BY DEF Finish, TypeOK
  <2>3. ~DecodeFails(c) /\ (DrainFails(c) => Treats(c) # "drain")
    BY <2>2 DEF DecodeFails, DrainFails, CloseAndReturn
  <2>4. DrainFails(c) => Treats(c) # "decode"
    BY DEF DrainFails
  <2>5. Decode(c) => Treats(c) = "decode" /\ Whole(c)
    BY DEF Decode, Whole
  <2>6. Drain(c) => Treats(c) # "decode" /\ (HasBody(c) => Whole(c))
    BY DEF Drain, Whole
  <2>7. Close(c) \/ Leave(c) => Treats(c) \notin {"decode", "drain"}
    BY DEF Close, Leave
  <2> QED BY <2>1, <2>3, <2>4, <2>5, <2>6, <2>7
<1> QED BY <1>1, Invariance, PTL DEF Spec, OkMeansWhole
================================================================================
