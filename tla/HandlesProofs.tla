------------------------------ MODULE HandlesProofs -----------------------------
(***************************************************************************)
(* Proofs about module Handles: it implements Effects; its types and its   *)
(* inductive invariant, and what follows for handles.                      *)
(***************************************************************************)
EXTENDS Handles, TLAPS

USE DEF Waiting, Told

\* A status that a method expects says that the request took effect.
LEMMA ExpectedTook ==
  ASSUME NEW op
  PROVE  Expected(op) \subseteq {200, 201, 204}
  BY DEF Expected

\* A method begins: nothing took effect yet.
LEMMA RefineBegin ==
  ASSUME NEW q, Begin(q)
  PROVE  Promise!Begin
  BY DEF Begin, Nothing, Promise!Begin

\* The engine serves the first request, which takes effect or is refused, or
\* the second, which has none.
LEMMA RefineServe ==
  ASSUME Serve
  PROVE  [Promise!Next]_(Promise!vars)
<1>1. UNCHANGED <<res, late>>
  BY DEF Serve
<1>2. CASE pc = "sent"
  <2>1. pc' = "answered"
    BY <1>2 DEF Serve
  <2>2. CASE reply'.code < 300
    <3>1. Promise!Take
      BY <1>1, <1>2, <2>1, <2>2 DEF Promise!Take
    <3> QED BY <3>1 DEF Promise!Next
  <2>3. CASE ~(reply'.code < 300)
    BY <1>1, <1>2, <2>1, <2>3 DEF Promise!vars
  <2> QED BY <2>2, <2>3
<1>3. CASE pc = "next"
  <2>1. pc' = "final"
    BY <1>3 DEF Serve
  <2> QED BY <1>1, <1>3, <2>1 DEF Promise!vars
<1> QED BY <1>2, <1>3 DEF Serve

\* A method that has an expected answer returns nil, or goes on.
LEMMA RefineAnswer ==
  ASSUME Succeed \/ AskImage \/ FailStatus
  PROVE  [Promise!Next]_(Promise!vars)
<1>1. ASSUME reply.code \in Expected(req.op) PROVE reply.code < 300
  BY <1>1, ExpectedTook
<1>2. CASE Succeed
  <2>1. Promise!Succeed
    BY <1>1, <1>2 DEF Succeed, Return, Nil, Promise!Succeed
  <2> QED BY <2>1 DEF Promise!Next
<1>3. CASE AskImage
  BY <1>1, <1>3 DEF AskImage, GoesOn, Promise!vars
<1>4. CASE FailStatus
  <2>1. Promise!Fail
    BY <1>4 DEF FailStatus, Return, ApiError, Promise!Fail
  <2> QED BY <2>1 DEF Promise!Next
<1> QED BY <1>2, <1>3, <1>4

\* A caller that gives up leaves a request adrift only if it had no answer.
LEMMA RefineGiveUp ==
  ASSUME GiveUp
  PROVE  Promise!Next
<1>1. pc # "idle" /\ pc' = "idle" /\ res' = OtherError
  BY DEF GiveUp, Return
<1>2. CASE pc = "sent" /\ late = None
  <2>1. Promise!Fail
    BY <1>1, <1>2 DEF OtherError, Promise!Fail
  <2> QED BY <2>1 DEF Promise!Next
<1>3. CASE ~(pc = "sent" /\ late = None)
  <2>1. UNCHANGED late
    BY <1>3 DEF GiveUp
  <2>2. Promise!Fail
    BY <1>1, <2>1 DEF OtherError, Promise!Fail
  <2> QED BY <2>2 DEF Promise!Next
<1> QED BY <1>2, <1>3

\* A late request settles what was adrift.
LEMMA RefineLate ==
  ASSUME ServeLate
  PROVE  Promise!Next
<1>1. Promise!Settle
  BY DEF ServeLate, Promise!Settle
<1> QED BY <1>1 DEF Promise!Next

\* Whatever is lost, late or done by others, a request takes effect at most
\* once, and did so when the method returned nil (client.go:484-492,
\* api/transport.go:69-96).
THEOREM Implementation == Spec => KeepsEffects
<1>1. Init => Promise!Init
  BY DEF Init, Nothing, Promise!Init
<1>2. [Next]_vars => [Promise!Next]_(Promise!vars)
  <2> SUFFICES ASSUME [Next]_vars PROVE [Promise!Next]_(Promise!vars)
    OBVIOUS
  <2>1. ASSUME NEW q, Begin(q) PROVE Promise!Next
    BY <2>1, RefineBegin DEF Promise!Next
  <2>2. CASE Serve
    BY <2>2, RefineServe
  <2>3. CASE Succeed \/ AskImage \/ FailStatus
    BY <2>3, RefineAnswer
  <2>4. CASE GiveUp
    BY <2>4, RefineGiveUp
  <2>5. CASE ServeLate
    BY <2>5, RefineLate
  <2>6. ASSUME NEW q, ServeOther(q) PROVE UNCHANGED Promise!vars
    BY <2>6 DEF ServeOther, Promise!vars
  <2>7. ASSUME NEW i, NEW l, Exit(i, l) PROVE UNCHANGED Promise!vars
    BY <2>7 DEF Exit, Promise!vars
  <2>8. CASE UNCHANGED vars
    BY <2>8 DEF vars, Promise!vars
  <2> QED BY <2>1, <2>2, <2>3, <2>4, <2>5, <2>6, <2>7, <2>8 DEF Next
<1> QED BY <1>1, <1>2, PTL DEF Spec, KeepsEffects, Promise!Spec
--------------------------------------------------------------------------------
(***************************************************************************)
(* The engine: from a good world a request leads to a good world, in which *)
(* what was born keeps its keys and what is gone stays gone.               *)
(***************************************************************************)
Stored(w) == \A r \in Refs : w.tags[r] \in w.stored \cup {None}
Good(w)   == w \in Worlds /\ Stored(w) /\ Distinct(w)

Later(w, v) ==
  \A i \in Ctrs :
    /\ w.ctr[i].life # "none" =>
         /\ v.ctr[i].life # "none"
         /\ v.ctr[i].key = w.ctr[i].key /\ v.ctr[i].name = w.ctr[i].name
    /\ w.ctr[i].life = "gone" => v.ctr[i].life = "gone"

\* What an answer may hold.
Sober(r) ==
  r.code \in Codes /\ r.key \in Keys \cup {None} /\ r.of \in Ctrs \cup Images \cup {None}

\* A container that lives takes another life.
LEMMA LifeStep ==
  ASSUME NEW w, Good(w), NEW i \in Ctrs, Live(w, i), NEW l \in Lives \ {"none"}
  PROVE  Good(SetLife(w, i, l)) /\ Later(w, SetLife(w, i, l))
<1> DEFINE v == SetLife(w, i, l)
<1>1. v \in Worlds /\ v.tags = w.tags /\ v.stored = w.stored
  BY DEF Good, Worlds, SetLife
<1>2. \A j \in Ctrs : /\ v.ctr[j].key = w.ctr[j].key /\ v.ctr[j].name = w.ctr[j].name
                      /\ v.ctr[j].life = IF j = i THEN l ELSE w.ctr[j].life
  BY DEF Good, Worlds, SetLife
<1>3. Stored(v)
  BY <1>1 DEF Good, Stored
<1>4. \A j \in Ctrs : Live(v, j) => Live(w, j)
  BY <1>2 DEF Live
<1>5. Distinct(v)
  BY <1>2, <1>4 DEF Good, Distinct, KeysOf
<1>6. Later(w, v)
  BY <1>2 DEF Later, Live
<1> QED BY <1>1, <1>3, <1>5, <1>6 DEF Good

\* What a request makes of a container that lives.
LEMMA AfterOK ==
  ASSUME NEW op, NEW l \in Lives \ {"none", "gone"}, NEW a \in After(op, l)
  PROVE  /\ a[1] \in {200, 204, 304, 409} /\ a[2] \in Lives \ {"none"}
         /\ (op \in {"delete", "remove"} /\ a[1] = 204) => a[2] = "gone"
<1> USE DEF Lives
<1>1. CASE op = "start"
  <2>1. a \in IF l = "running" THEN {<<304, l>>} ELSE {<<204, "running">>}
    BY <1>1 DEF After
  <2> QED BY <1>1, <2>1
<1>2. CASE op = "stop"
  <2>1. a \in IF l = "running" THEN {<<204, "exited">>} ELSE {<<304, l>>}
    BY <1>2 DEF After
  <2> QED BY <1>2, <2>1
<1>3. CASE op = "kill"
  <2>1. a \in IF l = "running" THEN {<<204, "exited">>, <<204, l>>} ELSE {<<409, l>>}
    BY <1>3 DEF After
  <2> QED BY <1>3, <2>1
<1>4. CASE op = "restart"
  <2>1. a = <<204, "running">>
    BY <1>4 DEF After
  <2> QED BY <1>4, <2>1
<1>5. CASE op = "delete"
  <2>1. a \in IF l = "running" THEN {<<409, l>>} ELSE {<<204, "gone">>}
    BY <1>5 DEF After
  <2> QED BY <1>5, <2>1
<1>6. CASE op = "remove"
  <2>1. a = <<204, "gone">>
    BY <1>6 DEF After
  <2> QED BY <1>6, <2>1
<1>7. CASE op \notin {"start", "stop", "kill", "restart", "delete", "remove"}
  <2>1. a = <<200, l>>
    BY <1>7 DEF After
  <2> QED BY <1>7, <2>1
<1> QED BY <1>1, <1>2, <1>3, <1>4, <1>5, <1>6, <1>7

\* A request for a container: it acts on one that its key denotes.
LEMMA OnContainerOK ==
  ASSUME NEW w, Good(w), NEW q \in Requests, NEW r \in OnContainer(w, q)
  PROVE  /\ Good(r.world) /\ Later(w, r.world) /\ Sober(r)
         /\ r.of \in Denoted(w, q.key) /\ r.code # 404
         /\ q.op # "image" => r.key = w.ctr[r.of].key
         /\ (q.op \in {"delete", "remove"} /\ r.code = 204) => r.world.ctr[r.of].life = "gone"
<1>1. PICK i \in Denoted(w, q.key) : \E a \in After(q.op, w.ctr[i].life) :
        r = Out(SetLife(w, i, a[2]), a[1],
                IF q.op = "image" THEN w.ctr[i].ref ELSE w.ctr[i].key, i)
  BY DEF OnContainer
<1> PICK a \in After(q.op, w.ctr[i].life) :
        r = Out(SetLife(w, i, a[2]), a[1],
                IF q.op = "image" THEN w.ctr[i].ref ELSE w.ctr[i].key, i)
  BY <1>1
<1>2. i \in Ctrs /\ Live(w, i)
  BY DEF Denoted
<1>3. w.ctr[i].life \in Lives \ {"none", "gone"}
  BY <1>2 DEF Live, Good, Worlds
<1>4. /\ a[1] \in {200, 204, 304, 409} /\ a[2] \in Lives \ {"none"}
      /\ (q.op \in {"delete", "remove"} /\ a[1] = 204) => a[2] = "gone"
  BY <1>3, AfterOK
<1>5. Good(SetLife(w, i, a[2])) /\ Later(w, SetLife(w, i, a[2]))
  BY <1>2, <1>4, LifeStep
<1>6. SetLife(w, i, a[2]).ctr[i].life = a[2]
  BY <1>2 DEF SetLife, Good, Worlds
<1>7. w.ctr[i].ref \in Keys \cup {None} /\ w.ctr[i].key \in Keys
  BY <1>2 DEF Good, Worlds, Keys
<1>8. /\ r.world = SetLife(w, i, a[2]) /\ r.code = a[1] /\ r.of = i
      /\ r.key = IF q.op = "image" THEN w.ctr[i].ref ELSE w.ctr[i].key
  BY DEF Out
<1>9. Sober(r)
  BY <1>2, <1>4, <1>7, <1>8 DEF Sober, Codes
<1>10. Good(r.world) /\ Later(w, r.world)
  BY <1>5, <1>8
<1>11. r.of \in Denoted(w, q.key) /\ r.code # 404
  BY <1>4, <1>8
<1>12. q.op # "image" => r.key = w.ctr[r.of].key
  BY <1>8
<1>13. (q.op \in {"delete", "remove"} /\ r.code = 204) => r.world.ctr[r.of].life = "gone"
  <2>1. r.world.ctr[r.of].life = a[2]
    BY <1>6, <1>8
  <2>2. (q.op \in {"delete", "remove"} /\ r.code = 204) => a[2] = "gone"
    BY <1>4, <1>8
  <2> QED BY <2>1, <2>2
<1> QED BY <1>9, <1>10, <1>11, <1>12, <1>13

\* Tags and images do not concern containers.
LEMMA SameContainers ==
  ASSUME NEW w, Good(w), NEW v \in Worlds, v.ctr = w.ctr, Stored(v)
  PROVE  Good(v) /\ Later(w, v)
<1>1. Distinct(v)
  BY DEF Good, Distinct, Live
<1>2. Later(w, v)
  BY DEF Later
<1> QED BY <1>1, <1>2 DEF Good

\* A request for an image.
LEMMA OnImageOK ==
  ASSUME NEW w, Good(w), NEW q \in Requests, NEW r \in OnImage(w, q),
         q.op \in ByImage \cup {"get"}, q.op = "tag" => q.arg \in Refs
  PROVE  /\ Good(r.world) /\ Later(w, r.world) /\ Sober(r)
         /\ r.of \in Images
         /\ q.op = "get" => r.key \in Refs \cup Images
<1> DEFINE m == ImageOf(w, q.key)
<1>1. m # None
  BY DEF OnImage
<1>2. m \in Images /\ m \in w.stored
  <2>1. CASE q.key \in Refs
    BY <1>1, <2>1 DEF ImageOf, Good, Worlds, Stored
  <2>2. CASE q.key \notin Refs
    BY <1>1, <2>2 DEF ImageOf, Good, Worlds
  <2> QED BY <2>1, <2>2
<1>3. CASE q.op = "tag"
  <2> DEFINE v == [w EXCEPT !.tags[q.arg] = m]
  <2>1. r = Out(v, 201, q.arg, m)
    BY <1>1, <1>3 DEF OnImage
  <2>2. v \in Worlds /\ v.ctr = w.ctr /\ Stored(v)
    BY <1>2, <1>3 DEF Good, Worlds, Stored
  <2>3. r.world = v /\ r.code = 201 /\ r.key = q.arg /\ r.of = m
    BY <2>1 DEF Out
  <2> HIDE DEF v
  <2>4. Good(r.world) /\ Later(w, r.world)
    BY <2>2, <2>3, SameContainers
  <2>5. Sober(r)
    BY <1>2, <1>3, <2>3 DEF Sober, Codes, Keys
  <2> QED BY <1>2, <1>3, <2>3, <2>4, <2>5
<1>4. CASE q.op = "rmi"
  <2> DEFINE kept == IF q.key \in Refs THEN [w.tags EXCEPT ![q.key] = None]
                     ELSE [t \in Refs |-> IF w.tags[t] = m THEN None ELSE w.tags[t]]
             bare == \A t \in Refs : kept[t] # m
             v == [w EXCEPT !.tags = kept, !.stored = IF bare THEN @ \ {m} ELSE @]
  <2>1. r = Out(v, 200, None, m)
    BY <1>1, <1>4 DEF OnImage
  <2>2. /\ kept \in [Refs -> Images \cup {None}]
        /\ \A t \in Refs : kept[t] \in {w.tags[t], None}
    BY DEF Good, Worlds
  <2> HIDE DEF kept
  <2>3. v \in Worlds /\ v.ctr = w.ctr /\ v.tags = kept
        /\ v.stored = IF bare THEN w.stored \ {m} ELSE w.stored
    BY <2>2 DEF Good, Worlds
  <2>4. Stored(v)
    BY <2>2, <2>3 DEF Good, Stored
  <2>5. r.world = v /\ r.code = 200 /\ r.key = None /\ r.of = m
    BY <2>1 DEF Out
  <2> HIDE DEF v
  <2>6. Good(r.world) /\ Later(w, r.world)
    BY <2>3, <2>4, <2>5, SameContainers
  <2>7. Sober(r)
    BY <1>2, <2>5 DEF Sober, Codes
  <2> QED BY <1>2, <1>4, <2>5, <2>6, <2>7
<1>5. CASE q.op \notin {"tag", "rmi"}
  <2>1. PICK k \in FirstTags(w, m) : r = Out(w, 200, k, m)
    BY <1>1, <1>5 DEF OnImage
  <2>2. k \in Refs \cup Images
    BY <1>2 DEF FirstTags
  <2>3. r.world = w /\ r.code = 200 /\ r.key = k /\ r.of = m
    BY <2>1 DEF Out
  <2> QED BY <1>2, <2>2, <2>3, SameContainers DEF Sober, Codes, Keys, Good
<1> QED BY <1>3, <1>4, <1>5

\* A creation: of a container that no key denoted, by its own id or by a name
\* that is free.
LEMMA CreationsOK ==
  ASSUME NEW w, Good(w), NEW q \in Requests, q.key \in Names, q.arg \in Refs,
         NEW r \in Creations(w, q)
  PROVE  /\ Good(r.world) /\ Later(w, r.world) /\ Sober(r)
         /\ r.of # None => /\ r.of \in Ctrs
                           /\ r.world.ctr[r.of].life # "none"
                           /\ r.key = r.world.ctr[r.of].key
<1>1. CASE r \in {Refused(w, 404), Refused(w, 409)}
  <2>1. r.world = w /\ r.code \in {404, 409} /\ r.key = None /\ r.of = None
    BY <1>1 DEF Refused, Out
  <2>2. Good(r.world) /\ Later(w, r.world)
    BY <2>1, SameContainers DEF Good
  <2> QED BY <2>1, <2>2 DEF Sober, Codes
<1>2. CASE r \notin {Refused(w, 404), Refused(w, 409)}
  <2>1. /\ Denoted(w, q.key) = {}
        /\ \E i \in NextUnborn(w) : \E k \in {i, q.key} : r = Created(w, q, i, k)
    BY <1>2 DEF Creations
  <2>2. PICK i \in NextUnborn(w), k \in Names \cup Ctrs :
          k \in {i, q.key} /\ r = Created(w, q, i, k)
    BY <2>1 DEF NextUnborn
  <2>3. i \in Ctrs /\ w.ctr[i].life = "none"
    BY DEF NextUnborn
  <2> DEFINE c == [key |-> k, name |-> q.key, life |-> "created", ref |-> q.arg]
             v == [w EXCEPT !.ctr[i] = c]
  <2>4. r.world = v /\ r.code = 201 /\ r.key = k /\ r.of = i
    BY <2>2 DEF Created, Out
  <2>5. v \in Worlds /\ v.tags = w.tags /\ v.stored = w.stored
    BY <2>2, <2>3 DEF Good, Worlds, Lives
  <2>6. \A j \in Ctrs : v.ctr[j] = IF j = i THEN c ELSE w.ctr[j]
    BY <2>3 DEF Good, Worlds
  <2>7. c.key = k /\ c.name = q.key /\ c.life = "created"
    OBVIOUS
  <2> HIDE DEF c, v
  <2>8. Stored(v)
    BY <2>5 DEF Good, Stored
  <2>9. \A j \in Ctrs : v.ctr[j].key \in Names \cup {j}
    BY <2>2, <2>6, <2>7 DEF Good, Distinct
  <2>10. KeysOf(c) \subseteq {i, q.key}
    BY <2>2, <2>7 DEF KeysOf
  <2>11. ASSUME NEW j \in Ctrs, Live(w, j), j # i
         PROVE  KeysOf(w.ctr[j]) \cap {i, q.key} = {}
    <3>1. q.key \notin KeysOf(w.ctr[j])
      BY <2>1, <2>11 DEF Denoted, KeysOf
    <3>2. i \in Nat /\ w.ctr[j].key # i
      BY <2>3, <2>11, HandlesAssumption DEF Good, Distinct, Ctrs
    <3>3. w.ctr[j].name # i
      BY <2>11, <3>2, HandlesAssumption DEF Good, Worlds
    <3> QED BY <3>1, <3>2, <3>3 DEF KeysOf
  <2>12. ASSUME NEW j \in Ctrs, NEW l \in Ctrs, Live(v, j), Live(v, l), j # l
         PROVE  KeysOf(v.ctr[j]) \cap KeysOf(v.ctr[l]) = {}
    <3>1. CASE j = i
      <4>1. Live(w, l)
        BY <2>6, <2>12, <3>1 DEF Live
      <4> QED BY <2>6, <2>10, <2>11, <2>12, <3>1, <4>1
    <3>2. CASE l = i
      <4>1. Live(w, j)
        BY <2>6, <2>12, <3>2 DEF Live
      <4> QED BY <2>6, <2>10, <2>11, <2>12, <3>2, <4>1
    <3>3. CASE j # i /\ l # i
      <4>1. Live(w, j) /\ Live(w, l)
        BY <2>6, <2>12, <3>3 DEF Live
      <4> QED BY <2>6, <2>12, <3>3, <4>1 DEF Good, Distinct
    <3> QED BY <3>1, <3>2, <3>3
  <2>13. Good(v)
    BY <2>5, <2>8, <2>9, <2>12 DEF Good, Distinct
  <2>14. Later(w, v)
    BY <2>3, <2>6 DEF Later
  <2>15. Sober(r)
    BY <2>3, <2>4 DEF Sober, Codes, Keys
  <2>16. r.world.ctr[r.of].life # "none" /\ r.key = r.world.ctr[r.of].key
    BY <2>3, <2>4, <2>6, <2>7
  <2>17. Good(r.world) /\ Later(w, r.world) /\ r.of \in Ctrs
    BY <2>3, <2>4, <2>13, <2>14
  <2> QED BY <2>15, <2>16, <2>17
<1> QED BY <1>1, <1>2

\* A prune of containers.
LEMMA PrunedOK ==
  ASSUME NEW w, Good(w)
  PROVE  Good(Pruned(w)) /\ Later(w, Pruned(w))
<1> DEFINE v == Pruned(w)
<1>1. v \in Worlds /\ v.tags = w.tags /\ v.stored = w.stored
  BY DEF Pruned, Good, Worlds, Lives
<1>2. \A j \in Ctrs : /\ v.ctr[j].key = w.ctr[j].key /\ v.ctr[j].name = w.ctr[j].name
                      /\ v.ctr[j].life = IF w.ctr[j].life \in {"created", "exited"}
                                         THEN "gone" ELSE w.ctr[j].life
  BY DEF Pruned, Good, Worlds
<1> HIDE DEF v
<1>3. Stored(v)
  BY <1>1 DEF Good, Stored
<1>4. \A j \in Ctrs : Live(v, j) => Live(w, j)
  BY <1>2 DEF Live
<1>5. Distinct(v)
  BY <1>2, <1>4 DEF Good, Distinct, KeysOf
<1>6. Later(w, v)
  BY <1>2 DEF Later
<1>7. Good(v) /\ Later(w, v)
  BY <1>1, <1>3, <1>5, <1>6 DEF Good
<1> QED BY <1>7 DEF v

\* What else the engine does to images: a pull, and a prune of images.
LEMMA StoreOK ==
  ASSUME NEW w, Good(w), NEW q \in Requests, CanSend(q), q.op \in {"pull", "pruneImages"},
         NEW r \in Outcomes(w, q), r \notin {Refused(w, 500), Refused(w, 404)}
  PROVE  Good(r.world) /\ Later(w, r.world) /\ Sober(r)
<1>1. CASE q.op = "pull"
  <2>1. q.arg \in Refs
    BY <1>1 DEF CanSend
  <2>2. PICK m \in Images : r = Out(Pulled(w, q.arg, m), 200, None, m)
    BY <1>1 DEF Outcomes, ByHandle, ByImage
  <2> DEFINE v == Pulled(w, q.arg, m)
  <2>3. /\ v \in Worlds /\ v.ctr = w.ctr
        /\ v.stored = w.stored \cup {m}
        /\ \A t \in Refs : v.tags[t] = IF t = q.arg THEN m ELSE w.tags[t]
    <3>1. v = [ctr |-> w.ctr, tags |-> [w.tags EXCEPT ![q.arg] = m],
               stored |-> w.stored \cup {m}]
      BY DEF Pulled
    <3>2. [w.tags EXCEPT ![q.arg] = m] \in [Refs -> Images \cup {None}]
      BY <2>1 DEF Good, Worlds
    <3> HIDE DEF v
    <3>3. v \in Worlds
      BY <3>1, <3>2 DEF Good, Worlds
    <3> QED BY <2>1, <3>1, <3>3 DEF Good, Worlds
  <2>4. r.world = v /\ r.code = 200 /\ r.key = None /\ r.of = m
    BY <2>2 DEF Out
  <2> HIDE DEF v
  <2>5. Stored(v)
    BY <2>3 DEF Good, Stored
  <2> QED BY <2>3, <2>4, <2>5, SameContainers DEF Sober, Codes
<1>2. CASE q.op = "pruneImages"
  <2> DEFINE v == ImagesPruned(w)
  <2>1. r = Out(v, 200, None, None)
    BY <1>2 DEF Outcomes, ByHandle, ByImage
  <2>2. v \in Worlds /\ v.ctr = w.ctr /\ Stored(v)
    BY DEF ImagesPruned, Good, Worlds, Stored
  <2>3. r.world = v /\ r.code = 200 /\ r.key = None /\ r.of = None
    BY <2>1 DEF Out
  <2> HIDE DEF v
  <2> QED BY <2>2, <2>3, SameContainers DEF Sober, Codes
<1> QED BY <1>1, <1>2

\* What a request of a given method may hold.
LEMMA SendForm ==
  ASSUME NEW q \in Requests, CanSend(q)
  PROVE  /\ q.op \in ByHandle \cup {"load"} => q.key \in Names \cup Ctrs
         /\ q.op \in ByImage \cup {"get"} => q.key \in Refs \cup Images
         /\ q.op = "tag" => q.arg \in Refs
         /\ q.op = "create" => q.key \in Names /\ q.arg \in Refs
<1>1. CASE q.op \in {"create", "tag"}
  BY <1>1 DEF CanSend, ByHandle, ByImage
<1>2. CASE q.op \in {"get", "info", "rmi"}
  BY <1>2 DEF CanSend, ByHandle, ByImage
<1>3. ASSUME q.op \in ByHandle \cup {"load"} PROVE q.key \in Names \cup Ctrs
  BY <1>3, Zenon DEF CanSend, ByHandle
<1> QED BY <1>1, <1>2, <1>3 DEF ByHandle, ByImage

\* The engine keeps a good world good, and its answers mean what they say: a
\* NotFound for a container, that the key denoted none; success of a DELETE,
\* that what it denoted is gone; and an answer that handles are made of holds
\* the id of a container that was born, or a name of an image.
LEMMA EngineOK ==
  ASSUME NEW w, Good(w), NEW q \in Requests, CanSend(q) \/ q.op = "get", NEW r \in Outcomes(w, q)
  PROVE  /\ Good(r.world) /\ Later(w, r.world) /\ Sober(r)
         /\ (q.op \in ByHandle /\ r.code = 404) => Denoted(w, q.key) = {}
         /\ (q.op \in {"delete", "remove"} /\ r.code = 204) =>
              r.of \in Denoted(w, q.key) /\ r.world.ctr[r.of].life = "gone"
         /\ (q.op \in Makes \ {"get"} /\ r.of # None) =>
              /\ r.of \in Ctrs /\ r.world.ctr[r.of].life # "none"
              /\ r.key = r.world.ctr[r.of].key
         /\ (q.op = "load" /\ r.of # None) => r.of \in Denoted(w, q.key)
         /\ (q.op = "get" /\ r.of # None) => r.of \in Images /\ r.key \in Refs \cup Images
<1>0. ASSUME NEW c \in Codes, r = Refused(w, c)
      PROVE  /\ Good(r.world) /\ Later(w, r.world) /\ Sober(r)
             /\ r.code = c /\ r.of = None
  <2>1. r.world = w /\ r.code = c /\ r.key = None /\ r.of = None
    BY <1>0 DEF Refused, Out
  <2> QED BY <2>1, SameContainers DEF Good, Sober
<1>1. CASE r = Refused(w, 500)
  <2>1. /\ Good(r.world) /\ Later(w, r.world) /\ Sober(r)
        /\ r.code = 500 /\ r.of = None
    BY <1>0, <1>1 DEF Codes
  <2> QED BY <2>1
<1>2. CASE r # Refused(w, 500) /\ q.op \in ByHandle \cup {"load"}
  <2>1. r \in IF Denoted(w, q.key) = {} THEN {Refused(w, 404)} ELSE OnContainer(w, q)
    BY <1>2 DEF Outcomes, ByHandle, ByImage
  <2>2. CASE Denoted(w, q.key) = {}
    <3>1. /\ Good(r.world) /\ Later(w, r.world) /\ Sober(r)
          /\ r.code = 404 /\ r.of = None
      BY <1>0, <2>1, <2>2 DEF Codes
    <3> QED BY <2>2, <3>1
  <2>3. CASE Denoted(w, q.key) # {}
    <3>1. r \in OnContainer(w, q)
      BY <2>1, <2>3
    <3>2. /\ Good(r.world) /\ Later(w, r.world) /\ Sober(r)
          /\ r.of \in Denoted(w, q.key) /\ r.code # 404
          /\ q.op # "image" => r.key = w.ctr[r.of].key
          /\ (q.op \in {"delete", "remove"} /\ r.code = 204) => r.world.ctr[r.of].life = "gone"
      BY <3>1, OnContainerOK
    <3>3. r.of \in Ctrs /\ r.world.ctr[r.of].life # "none"
          /\ r.world.ctr[r.of].key = w.ctr[r.of].key
      BY <3>2 DEF Denoted, Live, Later
    <3>4. q.op # "get" /\ (q.op \in Makes => q.op # "image")
      BY <1>2 DEF ByHandle, Makes
    <3>5. q.op \in Makes => r.key = r.world.ctr[r.of].key
      BY <3>2, <3>3, <3>4
    <3> QED BY <3>2, <3>3, <3>4, <3>5
  <2> QED BY <2>2, <2>3
<1>3. CASE r # Refused(w, 500) /\ q.op \in ByImage \cup {"get"}
  <2>1. r \in IF ImageOf(w, q.key) = None THEN {Refused(w, 404)} ELSE OnImage(w, q)
    BY <1>3 DEF Outcomes, ByHandle, ByImage
  <2>2. CASE r = Refused(w, 404)
    <3>1. /\ Good(r.world) /\ Later(w, r.world) /\ Sober(r)
          /\ r.code = 404 /\ r.of = None
      BY <1>0, <2>2 DEF Codes
    <3> QED BY <1>3, <3>1 DEF ByHandle, ByImage
  <2>3. CASE r \in OnImage(w, q)
    <3>1. /\ Good(r.world) /\ Later(w, r.world) /\ Sober(r)
          /\ r.of \in Images
          /\ q.op = "get" => r.key \in Refs \cup Images
      BY <1>3, <2>3, SendForm, OnImageOK
    <3> QED BY <1>3, <3>1 DEF ByHandle, ByImage, Makes
  <2> QED BY <2>1, <2>2, <2>3
<1>4. CASE r # Refused(w, 500) /\ q.op = "create"
  <2>1. r \in Creations(w, q)
    BY <1>4 DEF Outcomes, ByHandle, ByImage
  <2>2. /\ Good(r.world) /\ Later(w, r.world) /\ Sober(r)
        /\ r.of # None => /\ r.of \in Ctrs
                          /\ r.world.ctr[r.of].life # "none"
                          /\ r.key = r.world.ctr[r.of].key
    BY <1>4, <2>1, SendForm, CreationsOK
  <2> QED BY <1>4, <2>2 DEF ByHandle
<1>5. CASE r # Refused(w, 500) /\ q.op = "list"
  <2>1. r \in {Out(w, 200, None, None)} \cup
              {Out(w, 200, w.ctr[i].key, i) : i \in {j \in Ctrs : Live(w, j)}}
    BY <1>5 DEF Outcomes, ByHandle, ByImage
  <2>2. r.world = w /\ r.code = 200
    BY <2>1 DEF Out
  <2>3. \/ r.key = None /\ r.of = None
        \/ r.of \in Ctrs /\ Live(w, r.of) /\ r.key = w.ctr[r.of].key
    BY <2>1 DEF Out
  <2>4. Good(r.world) /\ Later(w, r.world)
    BY <2>2, SameContainers DEF Good
  <2>5. Sober(r)
    BY <2>2, <2>3 DEF Sober, Codes, Good, Worlds, Keys
  <2>6. r.of # None => /\ r.of \in Ctrs /\ r.world.ctr[r.of].life # "none"
                       /\ r.key = r.world.ctr[r.of].key
    BY <2>2, <2>3 DEF Live
  <2> QED BY <1>5, <2>4, <2>5, <2>6 DEF ByHandle
<1>6. CASE r # Refused(w, 500) /\ q.op = "prune"
  <2>1. r = Out(Pruned(w), 200, None, None)
    BY <1>6 DEF Outcomes, ByHandle, ByImage
  <2>2. r.world = Pruned(w) /\ r.code = 200 /\ r.key = None /\ r.of = None
    BY <2>1 DEF Out
  <2>3. Good(r.world) /\ Later(w, r.world) /\ Sober(r)
    BY <2>2, PrunedOK DEF Sober, Codes
  <2> QED BY <1>6, <2>3 DEF ByHandle, Makes
<1>7. CASE r # Refused(w, 500) /\ q.op \in {"pull", "pruneImages"}
  <2>1. CASE r = Refused(w, 404)
    <3>1. Good(r.world) /\ Later(w, r.world) /\ Sober(r)
      BY <1>0, <2>1 DEF Codes
    <3> QED BY <1>7, <3>1 DEF ByHandle, Makes
  <2>2. CASE r # Refused(w, 404)
    <3>1. Good(r.world) /\ Later(w, r.world) /\ Sober(r)
      BY <1>7, <2>2, StoreOK
    <3> QED BY <1>7, <3>1 DEF ByHandle, Makes
  <2> QED BY <2>1, <2>2
<1>8. q.op \in ByHandle \cup {"load"} \cup ByImage \cup {"get", "create", "list", "prune",
                                                       "pull", "pruneImages"}
  BY DEF Requests, Ops, ByClient
<1> QED BY <1>1, <1>2, <1>3, <1>4, <1>5, <1>6, <1>7, <1>8
--------------------------------------------------------------------------------
(***************************************************************************)
(* The inductive invariant.                                                *)
(***************************************************************************)
LEMMA GoodWorld ==
  ASSUME TypeOK, Inv PROVE Good(world)
  BY DEF TypeOK, Inv, Good, Stored

\* What a container was called it is called later.
LEMMA StillDenotes ==
  ASSUME NEW w, NEW v, Later(w, v), NEW k, NEW i \in Ctrs, Denotes(w, k, i)
  PROVE  Denotes(v, k, i)
  BY DEF Denotes, Later, KeysOf

\* The engine moves while nothing of the caller does, but that a late request
\* may be gone.
LEMMA WorldMoves ==
  ASSUME TypeOK, Inv, Good(world'), Later(world, world'), late' \in {late, None},
         UNCHANGED <<pc, method, req, reply, res, handle>>
  PROVE  Inv'
<1>1. \A i \in Ctrs : /\ world.ctr[i].life # "none" => world'.ctr[i].key = world.ctr[i].key
                      /\ world.ctr[i].life = "gone" => world'.ctr[i].life = "gone"
  BY DEF Later
<1>2. Distinct(world')
  BY DEF Good
<1>3. HandleOK'
  <2> SUFFICES ASSUME handle.of \in Ctrs
               PROVE  /\ Denotes(world', handle.key, handle.of)
                      /\ handle.via \in {"create", "list"} =>
                           handle.key = world'.ctr[handle.of].key
    BY DEF HandleOK
  <2>1. /\ Denotes(world, handle.key, handle.of)
        /\ handle.via \in {"create", "list"} => handle.key = world.ctr[handle.of].key
    BY DEF Inv, HandleOK
  <2> QED BY <1>1, <2>1, StillDenotes DEF Denotes
<1>4. CallOK'
  BY DEF Inv, CallOK
<1>5. ReplyOK'
  <2>1. pc \in Told /\ req.op \in Makes /\ reply.of # None =>
          IF req.op = "get" THEN reply.key \in Refs \cup Images /\ reply.of \in Images
          ELSE reply.of \in Ctrs
    BY DEF Inv, ReplyOK
  <2>2. ASSUME pc = "answered", req.op \in Makes, reply.of \in Ctrs
        PROVE  /\ Denotes(world', reply.key, reply.of)
               /\ reply.key = world'.ctr[reply.of].key
               /\ req.op = "load" => Denotes(world', req.key, reply.of)
    <3>1. /\ Denotes(world, reply.key, reply.of) /\ reply.key = world.ctr[reply.of].key
          /\ req.op = "load" => Denotes(world, req.key, reply.of)
      BY <2>2 DEF Inv, ReplyOK
    <3> QED BY <1>1, <2>2, <3>1, StillDenotes DEF Denotes
  <2>3. ASSUME pc = "answered",
               \/ req.op \in {"delete", "remove"} /\ reply.code = 204
               \/ req.op \in ByHandle \ {"image"} /\ reply.code = 404
        PROVE  world'.ctr[handle.of].life = "gone"
    <3>1. world.ctr[handle.of].life = "gone"
      BY <2>3 DEF Inv, ReplyOK
    <3>2. handle.of \in Ctrs
      BY <2>3 DEF Inv, CallOK, ByHandle
    <3> QED BY <1>1, <3>1, <3>2
  <2> QED BY <2>1, <2>2, <2>3 DEF ReplyOK
<1>6. ASSUME pc = "idle", res.kind # "none", method \in ByHandle \ {"image"},
             world.ctr[handle.of].life = "gone"
      PROVE  world'.ctr[handle.of].life = "gone"
  BY <1>1, <1>6 DEF Inv, CallOK
<1>7. DeletedMeansGone' /\ NotFoundMeansGone'
  BY <1>6 DEF Inv, DeletedMeansGone, NotFoundMeansGone, IsNotFound, ByHandle
<1> QED BY <1>2, <1>3, <1>4, <1>5, <1>7 DEF Inv

\* A method begins: of a handle, by its key.
LEMMA InvBegin ==
  ASSUME TypeOK, Inv, NEW q \in Sendable, Begin(q)
  PROVE  Inv'
<1>1. /\ pc' = "sent" /\ method' = q.op /\ req' = q /\ res' = Nothing
      /\ UNCHANGED <<world, reply, handle, late>>
  BY DEF Begin
<1>2. q \in Requests /\ CanSend(q)
  BY DEF Sendable
<1>3. q.op \in ByHandle => q.key = handle.key
  BY DEF Begin, ByHandle
<1>4. q.op \in ByHandle => handle.of \in Ctrs
  BY <1>2, <1>3, SendForm DEF TypeOK
<1>5. CallOK'
  BY <1>1, <1>2, <1>3, <1>4 DEF Inv, CallOK
<1>6. ReplyOK'
  BY <1>1 DEF ReplyOK
<1>7. DeletedMeansGone' /\ NotFoundMeansGone'
  BY <1>1 DEF DeletedMeansGone, NotFoundMeansGone
<1>8. Distinct(world') /\ HandleOK'
  BY <1>1 DEF Inv, HandleOK
<1> QED BY <1>5, <1>6, <1>7, <1>8 DEF Inv

\* No two containers that live share a key, so what a key of the handle
\* denotes is the container that the handle is for.
LEMMA OneDenoted ==
  ASSUME TypeOK, Inv, handle.of \in Ctrs, handle.key \in Names \cup Ctrs,
         NEW i \in Denoted(world, handle.key)
  PROVE  i = handle.of \/ world.ctr[handle.of].life = "gone"
<1>1. i \in Ctrs /\ Live(world, i) /\ handle.key \in KeysOf(world.ctr[i])
  BY HandlesAssumption DEF Denoted, KeysOf, Ctrs
<1>2. world.ctr[handle.of].life # "none" /\ handle.key \in KeysOf(world.ctr[handle.of])
  BY DEF Inv, HandleOK, Denotes
<1>3. ASSUME i # handle.of PROVE ~Live(world, handle.of)
  BY <1>1, <1>2, <1>3 DEF Inv, Distinct
<1> QED BY <1>2, <1>3 DEF Live

\* The engine answers.
LEMMA InvServe ==
  ASSUME TypeOK, Inv, Serve
  PROVE  Inv' /\ TypeOK'
<1> PICK r \in Outcomes(world, req) :
      world' = r.world /\ reply' = [code |-> r.code, key |-> r.key, of |-> r.of]
  BY DEF Serve
<1>1. /\ pc \in {"sent", "next"} /\ pc' = IF pc = "sent" THEN "answered" ELSE "final"
      /\ UNCHANGED <<method, req, res, handle, late, calls, others>>
  BY DEF Serve
<1>2. req \in Requests /\ (CanSend(req) \/ req.op = "get")
  BY <1>1 DEF TypeOK, Inv, CallOK
<1>3. /\ Good(r.world) /\ Later(world, r.world) /\ Sober(r)
      /\ (req.op \in ByHandle /\ r.code = 404) => Denoted(world, req.key) = {}
      /\ (req.op \in {"delete", "remove"} /\ r.code = 204) =>
           r.of \in Denoted(world, req.key) /\ r.world.ctr[r.of].life = "gone"
      /\ (req.op \in Makes \ {"get"} /\ r.of # None) =>
           /\ r.of \in Ctrs /\ r.world.ctr[r.of].life # "none"
           /\ r.key = r.world.ctr[r.of].key
      /\ (req.op = "load" /\ r.of # None) => r.of \in Denoted(world, req.key)
      /\ (req.op = "get" /\ r.of # None) => r.of \in Images /\ r.key \in Refs \cup Images
  BY <1>2, GoodWorld, EngineOK
<1>4. reply'.code = r.code /\ reply'.key = r.key /\ reply'.of = r.of
  OBVIOUS
<1>5. Good(world') /\ Later(world, world')
  BY <1>3
<1>6. TypeOK'
  <2>1. reply' \in Answers
    BY <1>3 DEF Sober, Answers
  <2>2. world' \in Worlds /\ \A t \in Refs : world'.tags[t] \in world'.stored \cup {None}
    BY <1>5 DEF Good, Stored
  <2> QED BY <1>1, <2>1, <2>2 DEF TypeOK
<1>7. Distinct(world')
  BY <1>5 DEF Good
<1>8. HandleOK'
  <2> SUFFICES ASSUME handle.of \in Ctrs
               PROVE  /\ Denotes(world', handle.key, handle.of)
                      /\ handle.via \in {"create", "list"} =>
                           handle.key = world'.ctr[handle.of].key
    BY <1>1 DEF HandleOK
  <2>1. /\ Denotes(world, handle.key, handle.of)
        /\ handle.via \in {"create", "list"} => handle.key = world.ctr[handle.of].key
    BY DEF Inv, HandleOK
  <2>2. Denotes(world', handle.key, handle.of)
    BY <1>5, <2>1, StillDenotes
  <2>3. world'.ctr[handle.of].key = world.ctr[handle.of].key
    BY <1>5, <2>1 DEF Denotes, Later
  <2> QED BY <2>1, <2>2, <2>3
<1>9. CallOK'
  BY <1>1 DEF Inv, CallOK
<1>10. DeletedMeansGone' /\ NotFoundMeansGone'
  BY <1>1 DEF DeletedMeansGone, NotFoundMeansGone
<1>11. ReplyOK'
  <2>1. ASSUME req.op \in Makes, reply'.of # None
        PROVE  IF req.op = "get" THEN reply'.key \in Refs \cup Images /\ reply'.of \in Images
               ELSE reply'.of \in Ctrs
    BY <1>3, <1>4, <2>1
  <2>2. ASSUME req.op \in Makes, reply'.of \in Ctrs
        PROVE  /\ Denotes(world', reply'.key, reply'.of)
               /\ reply'.key = world'.ctr[reply'.of].key
               /\ req.op = "load" => Denotes(world', req.key, reply'.of)
    <3>1. reply'.of # None /\ reply'.of \notin Images
      BY <2>2, HandlesAssumption DEF Ctrs
    <3>2. req.op # "get"
      BY <1>3, <1>4, <3>1
    <3>3. /\ world'.ctr[reply'.of].life # "none" /\ reply'.key = world'.ctr[reply'.of].key
      BY <1>3, <1>4, <2>2, <3>1, <3>2
    <3>4. world'.ctr[reply'.of].key # None
      BY <1>5, <2>2, HandlesAssumption DEF Good, Worlds, Ctrs
    <3>5. ASSUME req.op = "load" PROVE Denotes(world', req.key, reply'.of)
      <4>1. reply'.of \in Denoted(world, req.key)
        BY <1>3, <1>4, <3>1, <3>5
      <4>2. req.key \in Names \cup Ctrs
        BY <1>2, <3>5, SendForm
      <4>3. req.key # None
        BY <4>2, HandlesAssumption DEF Ctrs
      <4>4. Denotes(world, req.key, reply'.of)
        BY <4>1, <4>3 DEF Denoted, Denotes, Live, KeysOf
      <4> QED BY <1>5, <2>2, <4>4, StillDenotes
    <3> QED BY <3>3, <3>4, <3>5 DEF Denotes, KeysOf
  <2>3. ASSUME pc' = "answered",
               \/ req.op \in {"delete", "remove"} /\ reply'.code = 204
               \/ req.op \in ByHandle \ {"image"} /\ reply'.code = 404
        PROVE  world'.ctr[handle.of].life = "gone"
    <3>1. pc = "sent"
      BY <1>1, <2>3
    <3>2. method = req.op /\ req.key = handle.key
      BY <2>3, <3>1 DEF Inv, CallOK, ByHandle
    <3>3. req.op \in ByHandle
      BY <2>3 DEF ByHandle
    <3>4. handle.of \in Ctrs /\ handle.key \in Names \cup Ctrs
      BY <1>2, <3>2, <3>3, SendForm DEF TypeOK, ByHandle
    <3>5. CASE world.ctr[handle.of].life = "gone"
      BY <1>5, <3>4, <3>5 DEF Later
    <3>6. CASE world.ctr[handle.of].life # "gone"
      <4>1. Live(world, handle.of) /\ handle.of \in Denoted(world, handle.key)
        BY <3>4, <3>6 DEF Inv, HandleOK, Denotes, Live, Denoted, KeysOf
      <4>2. r.code # 404
        BY <1>3, <3>2, <3>3, <4>1
      <4>3. r.of \in Denoted(world, handle.key) /\ r.world.ctr[r.of].life = "gone"
        BY <1>3, <1>4, <2>3, <3>2, <4>2
      <4>4. r.of = handle.of
        BY <3>4, <3>6, <4>3, OneDenoted
      <4> QED BY <4>3, <4>4
    <3> QED BY <3>5, <3>6
  <2> QED BY <1>1, <2>1, <2>2, <2>3 DEF ReplyOK
<1> QED BY <1>6, <1>7, <1>8, <1>9, <1>10, <1>11 DEF Inv

\* A call returns: what is left of it is its result and the handle.
LEMMA InvReturn ==
  ASSUME TypeOK, Inv, NEW e, NEW h, Return(e, h),
         late' \in {late, None} \/ (late' = req /\ pc = "sent"),
         h = handle \/ (method \notin ByHandle \ {"image"} /\ HandleOK'),
         \/ method \in {"delete", "remove"} /\ e.kind = "nil"
         \/ method \in ByHandle \ {"image"} /\ IsNotFound(e)
         => world.ctr[handle.of].life = "gone",
         pc # "idle"
  PROVE  Inv'
<1>1. /\ pc' = "idle" /\ res' = e /\ handle' = h
      /\ UNCHANGED <<world, method>>
  BY DEF Return
<1>2. HandleOK' /\ Distinct(world')
  BY <1>1 DEF Inv, HandleOK
<1>3. ReplyOK'
  BY <1>1 DEF ReplyOK
<1>4. CallOK'
  BY <1>1 DEF Inv, CallOK
<1>5. DeletedMeansGone' /\ NotFoundMeansGone'
  BY <1>1 DEF DeletedMeansGone, NotFoundMeansGone, ByHandle
<1> QED BY <1>2, <1>3, <1>4, <1>5 DEF Inv

\* The handle that a method makes is for the container that its key denotes,
\* or denoted.
LEMMA MadeOK ==
  ASSUME TypeOK, Inv, Succeed, req.op \in Makes, reply.of # None, handle' = HandleOf
  PROVE  /\ HandleOK' /\ method \notin ByHandle \ {"image"}
         /\ handle' \in Handles
         /\ handle'.key \in Names \cup Ctrs => handle'.of \in Ctrs
         /\ handle'.key \in Refs \cup Images => handle'.of \in Images
<1>1. pc \in Told /\ world' = world
  BY DEF Succeed, Return
<1>2. /\ handle'.via = req.op /\ handle'.of = reply.of
      /\ handle'.key = IF req.op = "load" THEN req.key ELSE reply.key
  BY DEF HandleOf
<1>3. handle' \in Handles
  BY DEF HandleOf, Handles, TypeOK, Requests, Answers, Makes, ByClient
<1>4. CASE req.op = "get"
  <2>1. reply.key \in Refs \cup Images /\ reply.of \in Images
    BY <1>1, <1>4 DEF Inv, ReplyOK
  <2>2. handle'.key \notin Names \cup Ctrs /\ handle'.of \notin Ctrs
    BY <1>2, <1>4, <2>1, HandlesAssumption DEF Ctrs
  <2>3. HandleOK'
    BY <2>2 DEF HandleOK
  <2>4. method \notin ByHandle \ {"image"}
    BY <1>1, <1>4 DEF Inv, CallOK, ByHandle
  <2> QED BY <1>2, <1>3, <1>4, <2>1, <2>2, <2>3, <2>4
<1>5. CASE req.op \in {"create", "load", "list"}
  <2>1. pc = "answered"
    BY <1>1, <1>5 DEF Inv, CallOK
  <2>2. method = req.op /\ CanSend(req) /\ req \in Requests
    BY <2>1 DEF Inv, CallOK, TypeOK
  <2>3. reply.of \in Ctrs
    BY <1>1, <1>5 DEF Inv, ReplyOK
  <2>4. /\ Denotes(world, reply.key, reply.of) /\ reply.key = world.ctr[reply.of].key
        /\ req.op = "load" => Denotes(world, req.key, reply.of)
    BY <2>1, <2>3 DEF Inv, ReplyOK
  <2>5. handle'.key \in Names \cup Ctrs
    BY <1>2, <2>2, <2>3, <2>4, SendForm DEF TypeOK, Worlds
  <2>6. handle'.key \notin Refs \cup Images
    BY <2>5, HandlesAssumption DEF Ctrs
  <2>7. HandleOK'
    BY <1>1, <1>2, <2>4 DEF HandleOK
  <2>8. method \notin ByHandle
    BY <1>5, <2>2 DEF ByHandle
  <2> QED BY <1>2, <1>3, <2>3, <2>5, <2>6, <2>7, <2>8
<1> QED BY <1>4, <1>5 DEF Makes

\* A method returns nil.
LEMMA InvSucceed ==
  ASSUME TypeOK, Inv, Succeed
  PROVE  Inv'
<1> DEFINE h == IF req.op \in Makes /\ reply.of # None THEN HandleOf ELSE handle
<1>1. pc \in Told /\ reply.code \in Expected(req.op) /\ Return(Nil, h) /\ late' = late
  BY DEF Succeed
<1>2. handle' = h /\ pc # "idle"
  BY <1>1 DEF Return
<1>3. h = handle \/ (method \notin ByHandle \ {"image"} /\ HandleOK')
  BY <1>2, MadeOK
<1>4. ASSUME method \in {"delete", "remove"} PROVE world.ctr[handle.of].life = "gone"
  <2>1. pc = "answered" /\ method = req.op
    BY <1>1, <1>4 DEF Inv, CallOK
  <2>2. reply.code = 204
    BY <1>1, <1>4, <2>1 DEF Expected
  <2> QED BY <1>4, <2>1, <2>2 DEF Inv, ReplyOK
<1>5. ~IsNotFound(Nil)
  BY DEF IsNotFound, Nil
<1> HIDE DEF h
<1> QED BY <1>1, <1>2, <1>3, <1>4, <1>5, InvReturn

\* A method returns an error of the answer.
LEMMA InvFailStatus ==
  ASSUME TypeOK, Inv, FailStatus
  PROVE  Inv'
<1>1. pc \in Told /\ Return(ApiError(reply.code), handle) /\ late' = late /\ pc # "idle"
  BY DEF FailStatus
<1>2. ApiError(reply.code).kind # "nil"
  BY DEF ApiError
<1>3. ASSUME method \in ByHandle \ {"image"}, IsNotFound(ApiError(reply.code))
      PROVE  world.ctr[handle.of].life = "gone"
  <2>1. pc = "answered" /\ method = req.op
    BY <1>1, <1>3 DEF Inv, CallOK, ByHandle
  <2>2. reply.code = 404
    BY <1>3 DEF IsNotFound, ApiError
  <2> QED BY <1>3, <2>1, <2>2 DEF Inv, ReplyOK
<1> QED BY <1>1, <1>2, <1>3, InvReturn

\* A method has no answer.
LEMMA InvGiveUp ==
  ASSUME TypeOK, Inv, GiveUp
  PROVE  Inv'
<1>1. /\ pc # "idle" /\ Return(OtherError, handle)
      /\ late' \in IF pc = "sent" /\ late = None /\ req.op \notin Reads
                   THEN {req, None} ELSE {late}
  BY DEF GiveUp
<1>2. late' \in {late, None} \/ (late' = req /\ pc = "sent")
  BY <1>1
<1>3. OtherError.kind # "nil" /\ ~IsNotFound(OtherError)
  BY DEF OtherError, IsNotFound
<1> QED BY <1>1, <1>2, <1>3, InvReturn

\* A method goes on with GetImage.
LEMMA InvAskImage ==
  ASSUME TypeOK, Inv, AskImage
  PROVE  Inv'
<1>1. /\ pc = "answered" /\ req.op \in {"image", "pull"} /\ pc' = "next"
      /\ req'.op = "get"
      /\ UNCHANGED <<world, method, reply, res, handle, late>>
  BY DEF AskImage, GoesOn
<1>2. Distinct(world') /\ HandleOK'
  BY <1>1 DEF Inv, HandleOK
<1>3. CallOK'
  BY <1>1 DEF Inv, CallOK
<1>4. ReplyOK'
  BY <1>1 DEF ReplyOK
<1>5. DeletedMeansGone' /\ NotFoundMeansGone'
  BY <1>1 DEF DeletedMeansGone, NotFoundMeansGone
<1> QED BY <1>2, <1>3, <1>4, <1>5 DEF Inv

\* Types, step by step; a step of the engine for others keeps the world good.
LEMMA TypeStep ==
  ASSUME TypeOK, Inv, [Next]_vars, ~Serve
  PROVE  TypeOK'
<1> USE DEF TypeOK
<1>1. ASSUME NEW q \in Sendable, Begin(q) PROVE TypeOK'
  <2>1. q \in Requests /\ q.op \in Ops
    BY DEF Sendable, Requests
  <2>2. calls' \in 0..MaxCalls
    BY <1>1, HandlesAssumption DEF Begin
  <2>3. Nothing \in Results
    BY DEF Nothing, Results
  <2> QED BY <1>1, <2>1, <2>2, <2>3 DEF Begin
<1>2. ASSUME NEW e \in Results, NEW h \in Handles, Return(e, h),
             late' \in Requests \cup {None},
             h.key \in Names \cup Ctrs => h.of \in Ctrs,
             h.key \in Refs \cup Images => h.of \in Images
      PROVE  TypeOK'
  <2>1. NoRequest \in Requests /\ NoAnswer \in Answers
    BY DEF NoRequest, Requests, Ops, ByClient, NoAnswer, Answers, Codes
  <2> QED BY <1>2, <2>1 DEF Return
<1>3. CASE Succeed
  <2> DEFINE h == IF req.op \in Makes /\ reply.of # None THEN HandleOf ELSE handle
  <2>1. Return(Nil, h) /\ late' = late /\ handle' = h
    BY <1>3 DEF Succeed, Return
  <2>2. Nil \in Results
    BY DEF Nil, Results
  <2>3. /\ h \in Handles
        /\ h.key \in Names \cup Ctrs => h.of \in Ctrs
        /\ h.key \in Refs \cup Images => h.of \in Images
    BY <1>3, <2>1, MadeOK
  <2> HIDE DEF h
  <2> QED BY <1>2, <2>1, <2>2, <2>3
<1>4. CASE AskImage
  <2>1. req' \in Requests
    BY <1>4 DEF AskImage, Requests, Answers, Ops, ByClient
  <2> QED BY <1>4, <2>1 DEF AskImage
<1>5. CASE FailStatus
  <2>1. Return(ApiError(reply.code), handle) /\ late' = late
    BY <1>5 DEF FailStatus
  <2>2. ApiError(reply.code) \in Results
    BY DEF ApiError, Results, Answers
  <2> QED BY <1>2, <2>1, <2>2
<1>6. CASE GiveUp
  <2>1. Return(OtherError, handle) /\ late' \in {late, req, None}
    BY <1>6 DEF GiveUp
  <2>2. OtherError \in Results
    BY DEF OtherError, Results
  <2> QED BY <1>2, <2>1, <2>2
<1>7. ASSUME Good(world'), late' \in {late, None}, others' \in 0..MaxOthers,
             UNCHANGED <<pc, method, req, reply, res, handle, calls>>
      PROVE  TypeOK'
  BY <1>7 DEF Good, Stored
<1>8. CASE ServeLate
  <2>1. Good(world')
    BY <1>8, GoodWorld, EngineOK DEF ServeLate, Inv, CallOK
  <2> QED BY <1>7, <1>8, <2>1 DEF ServeLate
<1>9. ASSUME NEW q \in Sendable, ServeOther(q) PROVE TypeOK'
  <2>1. Good(world')
    BY <1>9, GoodWorld, EngineOK DEF ServeOther, Sendable
  <2>2. others' \in 0..MaxOthers
    BY <1>9, HandlesAssumption DEF ServeOther
  <2> QED BY <1>7, <1>9, <2>1, <2>2 DEF ServeOther
<1>10. ASSUME NEW i \in Ctrs, NEW l \in {"exited", "gone"}, Exit(i, l) PROVE TypeOK'
  <2>1. Good(world')
    BY <1>10, GoodWorld, LifeStep DEF Exit, Live, Lives
  <2>2. others' \in 0..MaxOthers
    BY <1>10, HandlesAssumption DEF Exit
  <2> QED BY <1>7, <1>10, <2>1, <2>2 DEF Exit
<1>11. CASE UNCHANGED vars
  BY <1>11 DEF vars
<1> QED BY <1>1, <1>3, <1>4, <1>5, <1>6, <1>8, <1>9, <1>10, <1>11 DEF Next

\* The invariant, step by step.
LEMMA InvStep ==
  ASSUME TypeOK, Inv, [Next]_vars
  PROVE  Inv'
<1>1. ASSUME NEW q \in Sendable, Begin(q) PROVE Inv'
  BY <1>1, InvBegin
<1>2. CASE ServeLate
  <2>1. Good(world') /\ Later(world, world')
    BY <1>2, GoodWorld, EngineOK DEF ServeLate, TypeOK, Inv, CallOK
  <2> QED BY <1>2, <2>1, WorldMoves DEF ServeLate
<1>3. ASSUME NEW q \in Sendable, ServeOther(q) PROVE Inv'
  <2>1. Good(world') /\ Later(world, world')
    BY <1>3, GoodWorld, EngineOK DEF ServeOther, Sendable
  <2> QED BY <1>3, <2>1, WorldMoves DEF ServeOther
<1>4. ASSUME NEW i \in Ctrs, NEW l \in {"exited", "gone"}, Exit(i, l) PROVE Inv'
  <2>1. Good(world') /\ Later(world, world')
    BY <1>4, GoodWorld, LifeStep DEF Exit, Live, Lives
  <2> QED BY <1>4, <2>1, WorldMoves DEF Exit
<1>5. CASE UNCHANGED vars
  BY <1>5 DEF vars, Inv, HandleOK, CallOK, ReplyOK, DeletedMeansGone, NotFoundMeansGone
<1> QED BY <1>1, <1>2, <1>3, <1>4, <1>5, InvServe, InvSucceed, InvAskImage,
           InvFailStatus, InvGiveUp DEF Next

\* A state before any container was made.
LEMMA InvInit ==
  ASSUME Init
  PROVE  TypeOK /\ Inv
<1> PICK t \in [Refs -> Images \cup {None}] :
      world = [ctr |-> [i \in Ctrs |-> [key |-> i, name |-> None, life |-> "none",
                                        ref |-> None]],
               tags |-> t,
               stored |-> {t[r] : r \in Refs} \ {None}]
  BY DEF Init
<1>1. world \in Worlds /\ \A r \in Refs : world.tags[r] \in world.stored \cup {None}
  BY DEF Worlds, Lives
<1>2. /\ pc = "idle" /\ res = Nothing /\ handle = NoHandle /\ late = None
      /\ method = "list" /\ req = NoRequest /\ reply = NoAnswer
      /\ calls = 0 /\ others = 0
  BY DEF Init
<1>3. None \notin Ctrs /\ None \notin Names \cup Refs \cup Images /\ 0 \in 0..MaxCalls
      /\ 0 \in 0..MaxOthers
  BY HandlesAssumption DEF Ctrs
<1>4. NoRequest \in Requests /\ NoAnswer \in Answers /\ NoHandle \in Handles
      /\ Nothing \in Results /\ method \in Ops
  BY <1>2 DEF NoRequest, Requests, Ops, ByClient, NoAnswer, Answers, Codes, NoHandle,
              Handles, Nothing, Results
<1>5. TypeOK
  BY <1>1, <1>2, <1>3, <1>4 DEF TypeOK, NoHandle
<1>6. Distinct(world)
  BY DEF Distinct, Live
<1>7. HandleOK
  BY <1>2, <1>3 DEF HandleOK, NoHandle
<1>8. CallOK /\ ReplyOK /\ DeletedMeansGone /\ NotFoundMeansGone
  BY <1>2 DEF CallOK, ReplyOK, DeletedMeansGone, NotFoundMeansGone, Nothing, ByHandle
<1> QED BY <1>5, <1>6, <1>7, <1>8 DEF Inv

\* The types and the inductive invariant hold in every state.
LEMMA Inductive == Spec => [](TypeOK /\ Inv)
<1>1. Init => TypeOK /\ Inv
  BY InvInit
<1>2. TypeOK /\ Inv /\ [Next]_vars => (TypeOK /\ Inv)'
  <2> SUFFICES ASSUME TypeOK, Inv, [Next]_vars PROVE TypeOK' /\ Inv'
    OBVIOUS
  <2>1. Inv'
    BY InvStep
  <2>2. TypeOK'
    BY InvServe, TypeStep
  <2> QED BY <2>1, <2>2
<1> QED BY <1>1, <1>2, PTL DEF Spec

\* Every variable keeps its type.
THEOREM TypeCorrect == Spec => []TypeOK
BY Inductive, PTL

\* A handle denotes what it was made for, or did while that lived, and what a
\* call under way and its answer say is so (client.go:203-284,
\* container.go:77-144).
THEOREM Invariance == Spec => []Inv
BY Inductive, PTL

\* Whatever others create, remove or name, a handle of NewContainer or of
\* Containers never comes to mean another container, where ids are not names
\* (client.go:235, 281).
THEOREM Target == Spec => []StaysOnTarget
<1>1. TypeOK /\ Inv => StaysOnTarget
  <2> SUFFICES ASSUME TypeOK, Inv, handle.via \in {"create", "list"}, handle.of \in Ctrs,
                      world.ctr[handle.of].key \notin Names,
                      NEW i \in Denoted(world, handle.key)
               PROVE  i = handle.of
    BY DEF StaysOnTarget
  <2>1. handle.key = handle.of
    BY DEF Inv, HandleOK, Distinct
  <2>2. i \in Ctrs /\ handle.of \in {world.ctr[i].key, world.ctr[i].name}
    BY <2>1 DEF Denoted
  <2>3. handle.of \notin Names \cup {None}
    BY HandlesAssumption DEF Ctrs
  <2>4. world.ctr[i].key \in Names \cup {i} /\ world.ctr[i].name \in Names \cup {None}
    BY <2>2 DEF Inv, Distinct, TypeOK, Worlds
  <2> QED BY <2>2, <2>3, <2>4
<1> QED BY <1>1, Inductive, PTL

\* When a Delete returned nil, its container is gone (container.go:114-131).
THEOREM Deletion == Spec => []DeletedMeansGone
<1>1. Inv => DeletedMeansGone
  BY DEF Inv
<1> QED BY <1>1, Inductive, PTL

\* When a method of a handle returned a NotFound, its container is gone
\* (errors.go:40-50).
THEOREM Absence == Spec => []NotFoundMeansGone
<1>1. Inv => NotFoundMeansGone
  BY DEF Inv
<1> QED BY <1>1, Inductive, PTL
================================================================================
