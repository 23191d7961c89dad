--------------------------------- MODULE Handles ---------------------------------
(***************************************************************************)
(* Container and image handles and the calls that make and use them        *)
(* (client.go, container.go, image.go, errors.go).                         *)
(*                                                                         *)
(* A handle is a key: the id that the engine gave a container              *)
(* (NewContainer, Containers), the string the caller passed                *)
(* (LoadContainer), the first tag of an image as it was, or its id.  The   *)
(* engine looks a key up when a request arrives, and by then a name may    *)
(* belong to another container and a tag to another image.  An engine may  *)
(* also use the name as the id (Apple's does).                             *)
(*                                                                         *)
(* One caller makes one call at a time and holds one handle.  Other        *)
(* clients act on the engine between any two of its steps.  A request may  *)
(* be lost, and so may the answer; a request whose caller gave up may      *)
(* still arrive.  Client methods send each request once.                   *)
(***************************************************************************)
EXTENDS Naturals, FiniteSets

CONSTANTS
  Names,      \* of containers
  Refs,       \* image references (repository and tag)
  Images,     \* image ids
  MaxCtrs,    \* bound: containers ever created
  MaxCalls,   \* bound: calls of the caller
  MaxOthers,  \* bound: requests of others, and containers that exit
  None

ASSUME HandlesAssumption ==
  /\ MaxCtrs \in Nat /\ MaxCalls \in Nat /\ MaxOthers \in Nat
  /\ Names \cap Refs = {} /\ Names \cap Images = {} /\ Refs \cap Images = {}
  /\ (Names \cup Refs \cup Images) \cap Nat = {}
  /\ None \notin Names \cup Refs \cup Images \cup Nat

Ctrs == 1..MaxCtrs  \* in the order of their creation; also their fresh ids
Keys == Names \cup Ctrs \cup Refs \cup Images

VARIABLES
  world,   \* the engine: its containers, tags and images
  pc,      \* idle; sent and answered: the request; next and final: a second
  method,  \* of the call under way, or the last one
  req,     \* the request under way
  reply,   \* the answer to it
  res,     \* what the last call returned: nil, an APIError, another error
  handle,  \* the caller's handle
  late,    \* a request whose caller gave up, or None
  calls,   \* of the caller
  others   \* of other clients

vars == <<world, pc, method, req, reply, res, handle, late, calls, others>>

Lives == {"none", "created", "running", "exited", "gone"}
Live(w, i) == w.ctr[i].life \notin {"none", "gone"}

ByHandle  == {"start", "stop", "kill", "restart", "delete", "remove", "read", "image"}
ByImage   == {"info", "rmi", "tag"}
ByClient  == {"create", "load", "list", "prune", "pull", "get", "pruneImages"}
Ops       == ByHandle \cup ByImage \cup ByClient

\* Their effect is nothing, so it does not matter when they arrive.
Reads     == {"load", "list", "read", "image", "info", "get"}

Requests == [op : Ops, key : Keys \cup {None}, arg : Keys \cup {None}]
Codes    == {200, 201, 204, 304, 404, 409, 500}
Answers  == [code : Codes, key : Keys \cup {None}, of : Ctrs \cup Images \cup {None}]
Handles  == [via : ByClient \cup {"image", "none"}, key : Keys \cup {None},
             of : Ctrs \cup Images \cup {None}]
Results  == [kind : {"none", "nil", "other"}, code : {0}] \cup
            [kind : {"api"}, code : Codes]

Worlds ==
  [ctr : [Ctrs -> [key : Names \cup Ctrs, name : Names \cup {None}, life : Lives,
                   ref : Refs \cup {None}]],
   tags : [Refs -> Images \cup {None}],
   stored : SUBSET Images]

Waiting == {"sent", "next"}
Told    == {"answered", "final"}

TypeOK ==
  /\ world \in Worlds
  /\ pc \in {"idle"} \cup Waiting \cup Told
  /\ method \in Ops /\ req \in Requests
  /\ reply \in Answers
  /\ res \in Results
  /\ handle \in Handles
  /\ late \in Requests \cup {None}
  /\ calls \in 0..MaxCalls /\ others \in 0..MaxOthers
  /\ \A r \in Refs : world.tags[r] \in world.stored \cup {None}
  /\ handle.key \in Names \cup Ctrs => handle.of \in Ctrs
  /\ handle.key \in Refs \cup Images => handle.of \in Images

NoHandle  == [via |-> "none", key |-> None, of |-> None]
NoRequest == [op |-> "list", key |-> None, arg |-> None]
NoAnswer  == [code |-> 500, key |-> None, of |-> None]
Nothing   == [kind |-> "none", code |-> 0]

Init ==
  /\ \E t \in [Refs -> Images \cup {None}] :
       world = [ctr |-> [i \in Ctrs |-> [key |-> i, name |-> None, life |-> "none",
                                        ref |-> None]],
                tags |-> t,
                stored |-> {t[r] : r \in Refs} \ {None}]
  /\ pc = "idle" /\ res = Nothing /\ handle = NoHandle /\ late = None
  /\ method = "list" /\ req = NoRequest
  /\ reply = NoAnswer
  /\ calls = 0 /\ others = 0
--------------------------------------------------------------------------------
(***************************************************************************)
(* The engine.  Outcomes(w, q) are the answers to a request q in a world   *)
(* w, each with the world after it; a refusal or a failure changes nothing.*)
(***************************************************************************)
Denoted(w, k) == {i \in Ctrs : Live(w, i) /\ k \in {w.ctr[i].key, w.ctr[i].name}}

ImageOf(w, k) ==
  IF k \in Refs THEN w.tags[k] ELSE IF k \in w.stored THEN k ELSE None

Out(w, c, k, o) == [world |-> w, code |-> c, key |-> k, of |-> o]
Refused(w, c)   == Out(w, c, None, None)
SetLife(w, i, l) == [w EXCEPT !.ctr[i].life = l]

\* What a request does to a container in a given life: status and new life.
After(op, l) ==
  CASE op = "start"   -> IF l = "running" THEN {<<304, l>>} ELSE {<<204, "running">>}
    [] op = "stop"    -> IF l = "running" THEN {<<204, "exited">>} ELSE {<<304, l>>}
    [] op = "kill"    -> IF l = "running" THEN {<<204, "exited">>, <<204, l>>}
                         ELSE {<<409, l>>}
    [] op = "restart" -> {<<204, "running">>}
    [] op = "delete"  -> IF l = "running" THEN {<<409, l>>} ELSE {<<204, "gone">>}
    [] op = "remove"  -> {<<204, "gone">>}
    [] OTHER          -> {<<200, l>>}

OnContainer(w, q) ==
  UNION {{Out(SetLife(w, i, a[2]), a[1],
              IF q.op = "image" THEN w.ctr[i].ref ELSE w.ctr[i].key, i) :
            a \in After(q.op, w.ctr[i].life)} : i \in Denoted(w, q.key)}

\* The names an answer may put first.
FirstTags(w, m) ==
  LET ts == {r \in Refs : w.tags[r] = m} IN IF ts = {} THEN {m} ELSE ts

OnImage(w, q) ==
  LET m == ImageOf(w, q.key)
  IN  IF m = None THEN {}
      ELSE CASE q.op = "tag" -> {Out([w EXCEPT !.tags[q.arg] = m], 201, q.arg, m)}
             [] q.op = "rmi" ->
                  LET kept == IF q.key \in Refs
                              THEN [w.tags EXCEPT ![q.key] = None]
                              ELSE [r \in Refs |-> IF w.tags[r] = m THEN None ELSE w.tags[r]]
                      bare == \A r \in Refs : kept[r] # m
                  IN  {Out([w EXCEPT !.tags = kept,
                                     !.stored = IF bare THEN @ \ {m} ELSE @], 200, None, m)}
             [] OTHER -> {Out(w, 200, k, m) : k \in FirstTags(w, m)}

NextUnborn(w) ==
  {i \in Ctrs : w.ctr[i].life = "none" /\ \A j \in 1..(i - 1) : w.ctr[j].life # "none"}

Created(w, q, i, k) ==
  Out([w EXCEPT !.ctr[i] = [key |-> k, name |-> q.key, life |-> "created", ref |-> q.arg]],
      201, k, i)

\* The engine picks a fresh id, or takes the name.
Creations(w, q) ==
  IF w.tags[q.arg] = None THEN {Refused(w, 404)}
  ELSE IF Denoted(w, q.key) # {} THEN {Refused(w, 409)}
  ELSE UNION {{Created(w, q, i, k) : k \in {i, q.key}} : i \in NextUnborn(w)}

Pruned(w) ==
  [w EXCEPT !.ctr = [i \in Ctrs |->
     IF w.ctr[i].life \in {"created", "exited"} THEN [w.ctr[i] EXCEPT !.life = "gone"]
     ELSE w.ctr[i]]]

Pulled(w, t, m) ==
  [ctr |-> w.ctr, tags |-> [w.tags EXCEPT ![t] = m], stored |-> w.stored \cup {m}]

ImagesPruned(w) == [w EXCEPT !.stored = {m \in @ : \E t \in Refs : w.tags[t] = m}]

Outcomes(w, q) ==
  {Refused(w, 500)} \cup
  CASE q.op \in ByHandle \cup {"load"} ->
         IF Denoted(w, q.key) = {} THEN {Refused(w, 404)} ELSE OnContainer(w, q)
    [] q.op \in ByImage \cup {"get"} ->
         IF ImageOf(w, q.key) = None THEN {Refused(w, 404)} ELSE OnImage(w, q)
    [] q.op = "create" -> Creations(w, q)
    [] q.op = "list"   -> {Out(w, 200, None, None)} \cup
         {Out(w, 200, w.ctr[i].key, i) : i \in {j \in Ctrs : Live(w, j)}}
    [] q.op = "prune"  -> {Out(Pruned(w), 200, None, None)}
    [] q.op = "pull"   -> {Refused(w, 404)} \cup
         {Out(Pulled(w, q.arg, m), 200, None, m) : m \in Images}
    [] q.op = "pruneImages" -> {Out(ImagesPruned(w), 200, None, None)}

\* What a client may send.
CanSend(q) ==
  CASE q.op \in {"list", "prune", "pruneImages"} -> q.key = None /\ q.arg = None
    [] q.op = "create"           -> q.key \in Names /\ q.arg \in Refs
    [] q.op = "pull"             -> q.key \in Refs /\ q.arg \in Refs
    [] q.op = "tag"              -> q.key \in Refs \cup Images /\ q.arg \in Refs
    [] q.op \in {"get", "info", "rmi"} -> q.key \in Refs \cup Images /\ q.arg = None
    [] OTHER                     -> q.key \in Names \cup Ctrs /\ q.arg = None

Sendable == {q \in Requests : CanSend(q)}
--------------------------------------------------------------------------------
(***************************************************************************)
(* The client.                                                             *)
(***************************************************************************)
\* Mutant: a DELETE that answers 409 is a success.
ExpectedConflict(op) ==
  IF op \in {"delete", "remove"} THEN {204, 409}
  ELSE IF op \in {"start", "stop", "kill", "restart"} THEN {204}
  ELSE IF op = "create" THEN {201, 200}
  ELSE IF op = "tag" THEN {201}
  ELSE {200}

\* Mutant: a Start of what runs is a success.
ExpectedStarted(op) ==
  IF op = "start" THEN {204, 304} ELSE ExpectedConflict(op) \ {409}

\* The statuses that checkResponse is given.
Expected(op) ==
  CASE op \in {"start", "stop", "kill", "restart", "delete", "remove"} -> {204}
    [] op = "create" -> {201, 200}
    [] op = "tag"    -> {201}
    [] OTHER         -> {200}

ApiError(c) == [kind |-> "api", code |-> c]
Nil         == [kind |-> "nil", code |-> 0]
OtherError  == [kind |-> "other", code |-> 0]

\* Mutant: every APIError.
IsAnyApi(e) == e.kind = "api"

\* No NotFoundError or ConflictError is ever made, so the status decides.
IsNotFound(e) == e.kind = "api" /\ e.code = 404

\* A method of the handle the caller holds, or of the client.
Begin(q) ==
  /\ pc = "idle" /\ calls < MaxCalls
  /\ q.op \in ByHandle \cup ByImage =>
       q.key = handle.key \/ (q.op \in {"rmi", "tag"} /\ q.key \in Refs)
  /\ pc' = "sent" /\ method' = q.op /\ req' = q /\ calls' = calls + 1
  /\ res' = Nothing
  /\ UNCHANGED <<world, reply, handle, late, others>>

\* The engine handles the request and answers.
Serve ==
  /\ pc \in Waiting
  /\ \E r \in Outcomes(world, req) :
       /\ world' = r.world
       /\ reply' = [code |-> r.code, key |-> r.key, of |-> r.of]
  /\ pc' = IF pc = "sent" THEN "answered" ELSE "final"
  /\ UNCHANGED <<method, req, res, handle, late, calls, others>>

\* Mutants: the handle of NewContainer has the name it was given; the handle
\* of Image has the key of the container.
HandleByName ==
  [via |-> req.op, key |-> IF req.op \in {"load", "create"} THEN req.key ELSE reply.key,
   of |-> reply.of]

HandleKeepsKey ==
  [via |-> req.op, key |-> IF method = "image" THEN handle.key ELSE reply.key,
   of |-> reply.of]

\* The handle that a method makes of the answer.
HandleOf ==
  [via |-> req.op, key |-> IF req.op = "load" THEN req.key ELSE reply.key,
   of |-> reply.of]

Makes == {"create", "load", "list", "get"}

Return(e, h) ==
  /\ pc' = "idle" /\ res' = e /\ handle' = h
  /\ req' = NoRequest /\ reply' = NoAnswer
  /\ UNCHANGED <<world, method, calls, others>>

\* Image and Pull go on with GetImage, by the name the container was created
\* with, or by the reference without the tag of WithPullTag.
GoesOn == pc = "answered" /\ req.op \in {"image", "pull"}

Succeed ==
  /\ pc \in Told /\ reply.code \in Expected(req.op) /\ ~GoesOn
  /\ Return(Nil, IF req.op \in Makes /\ reply.of # None THEN HandleOf ELSE handle)
  /\ UNCHANGED late

AskImage ==
  /\ GoesOn /\ reply.code \in Expected(req.op)
  /\ pc' = "next"
  /\ req' = [op |-> "get", key |-> IF req.op = "pull" THEN req.key ELSE reply.key,
             arg |-> None]
  /\ UNCHANGED <<world, method, reply, res, handle, late, calls, others>>

FailStatus ==
  /\ pc \in Told /\ reply.code \notin Expected(req.op)
  /\ Return(ApiError(reply.code), handle)
  /\ UNCHANGED late

\* No answer: no connection, a broken one, or a context that is done.  The
\* request may still arrive.
GiveUp ==
  /\ pc # "idle"
  /\ Return(OtherError, handle)
  /\ late' \in IF pc = "sent" /\ late = None /\ req.op \notin Reads
               THEN {req, None} ELSE {late}
--------------------------------------------------------------------------------
\* A late request is served, or was lost.
ServeLate ==
  /\ late # None
  /\ \E r \in Outcomes(world, late) : world' = r.world
  /\ late' = None
  /\ UNCHANGED <<pc, method, req, reply, res, handle, calls, others>>

\* Other clients.
ServeOther(q) ==
  /\ others < MaxOthers
  /\ \E r \in Outcomes(world, q) : r.world # world /\ world' = r.world
  /\ others' = others + 1
  /\ UNCHANGED <<pc, method, req, reply, res, handle, late, calls>>

\* The process of a container ends; with WithAutoRemove the engine removes it.
Exit(i, l) ==
  /\ others < MaxOthers
  /\ world.ctr[i].life = "running"
  /\ world' = SetLife(world, i, l)
  /\ others' = others + 1
  /\ UNCHANGED <<pc, method, req, reply, res, handle, late, calls>>

Next ==
  \/ \E q \in Sendable : Begin(q)
  \/ Serve \/ Succeed \/ AskImage \/ FailStatus \/ GiveUp
  \/ ServeLate
  \/ \E q \in Sendable : ServeOther(q)
  \/ \E i \in Ctrs, l \in {"exited", "gone"} : Exit(i, l)

Spec == Init /\ [][Next]_vars
--------------------------------------------------------------------------------
\* A handle of NewContainer or Containers never comes to mean another
\* container, when the engine's ids are not names (client.go:235, 281).  One
\* of LoadContainer may (client.go:248), and so may any where the name is the
\* id: what follows holds for these too.
StaysOnTarget ==
  handle.via \in {"create", "list"} /\ handle.of \in Ctrs
    /\ world.ctr[handle.of].key \notin Names
  => Denoted(world, handle.key) \subseteq {handle.of}

\* When a Delete returned nil the container that the handle was made for is
\* gone, whatever others, lost answers and earlier requests that came late did
\* (container.go:114-131).
DeletedMeansGone ==
  pc = "idle" /\ method \in {"delete", "remove"} /\ res.kind = "nil"
  => world.ctr[handle.of].life = "gone"

\* A NotFound from any method of a handle means the same, so a Delete may be
\* repeated until one or the other.  Not from Image: it may be the image that
\* is not found (errors.go:40-50, container.go:337-343).
NotFoundMeansGone ==
  pc = "idle" /\ method \in ByHandle \ {"image"} /\ IsNotFound(res)
  => world.ctr[handle.of].life = "gone"

(***************************************************************************)
(* The inductive invariant behind these.                                   *)
(***************************************************************************)
KeysOf(c) == {c.key, c.name} \ {None}

\* A fresh id is a container's own, and no key denotes two that live.
Distinct(w) ==
  /\ \A i \in Ctrs : w.ctr[i].key \in Names \cup {i}
  /\ \A i, j \in Ctrs :
       Live(w, i) /\ Live(w, j) /\ i # j => KeysOf(w.ctr[i]) \cap KeysOf(w.ctr[j]) = {}

\* k denotes i, or did while i lived.
Denotes(w, k, i) == w.ctr[i].life # "none" /\ k \in KeysOf(w.ctr[i])

HandleOK ==
  handle.of \in Ctrs =>
    /\ Denotes(world, handle.key, handle.of)
    /\ handle.via \in {"create", "list"} => handle.key = world.ctr[handle.of].key

CallOK ==
  /\ late # None => CanSend(late)
  /\ pc \in {"sent", "answered"} =>
       /\ method = req.op /\ CanSend(req)
       /\ req.op \in ByHandle => req.key = handle.key
  /\ pc \in {"next", "final"} => method \in {"image", "pull"} /\ req.op = "get"
  /\ method \in ByHandle \ {"image"} /\ (pc # "idle" \/ res.kind # "none") =>
       handle.of \in Ctrs

ReplyOK ==
  /\ pc \in Told /\ req.op \in Makes /\ reply.of # None =>
       IF req.op = "get" THEN reply.key \in Refs \cup Images /\ reply.of \in Images
       ELSE reply.of \in Ctrs
  /\ pc = "answered" =>
    /\ req.op \in Makes /\ reply.of \in Ctrs =>
         /\ Denotes(world, reply.key, reply.of) /\ reply.key = world.ctr[reply.of].key
         /\ req.op = "load" => Denotes(world, req.key, reply.of)
    /\ \/ req.op \in {"delete", "remove"} /\ reply.code = 204
       \/ req.op \in ByHandle \ {"image"} /\ reply.code = 404
       => world.ctr[handle.of].life = "gone"

\* What is known of the engine, of the handle, of a call under way, and of its
\* answer; and what a call that returned said (client.go:203-284,
\* container.go:77-144).
Inv ==
  Distinct(world) /\ HandleOK /\ CallOK /\ ReplyOK
    /\ DeletedMeansGone /\ NotFoundMeansGone

\* What Effects sees of a state.
Promise == INSTANCE Effects WITH
  call <- IF pc = "idle" THEN "out"
          ELSE IF pc \in {"next", "final"} \/ (pc = "answered" /\ reply.code < 300)
          THEN "took" ELSE "open",
  result <- IF res.kind \in {"none", "nil"} THEN res.kind ELSE "error",
  adrift <- late # None

\* A request takes effect at most once, and did so when the method returns nil
\* (client.go:484-492, api/transport.go:61-143).
KeepsEffects == Promise!Spec
================================================================================
