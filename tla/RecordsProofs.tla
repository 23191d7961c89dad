------------------------------ MODULE RecordsProofs ------------------------------
(***************************************************************************)
(* Proofs about Records, for calls with options of every number and value. *)
(*                                                                         *)
(* Inv says at every point of a call what the code has made of the options *)
(* so far: the configuration holds what they say (Folded), and the request, *)
(* the object, the record and the clone are computed from it (Followed).   *)
(* The theorems then compare the two ends of that chain.                   *)
(***************************************************************************)
EXTENDS Records, NaturalsInduction, WellFoundedInduction, TLAPS

\* The configuration holds what the options said.
Folded ==
  /\ DOMAIN cfg = Fields(kind)
  /\ \A f \in Sets(kind) \cup Flags(kind) : cfg[f] = Said(f)
  /\ \A f \in Lists(kind) : cfg[f] \in Seq(Vals \cup Mounts) /\ IsSaidList(cfg[f], f)
  /\ kind \in Made => cfg["labels"] = SaidLabels
  /\ kind = "create" =>
       /\ cfg["ports"] = [p \in DOMAIN cfg["ports"] |-> cfg["ports"][p]]
       /\ \A p \in DOMAIN cfg["ports"] : cfg["ports"][p] \in Seq(Ports)
       /\ Published(cfg["ports"]) = SaidPorts

\* Each stage is made of the one before.
Followed ==
  /\ pc # "build" => sent = Request(kind, cfg)
  /\ pc \in {"made", "read", "cloned"} => kind \in Made /\ made = EngineObject(kind, sent)
  /\ pc \in {"read", "cloned"} => got = Shown(kind, made, via)
  /\ pc = "cloned" => kind = "create" /\ twin = EngineContainer(StoreRequest(got))

Inv ==
  /\ kind \in Kinds
  /\ pc \in {"build", "sent", "made", "read", "cloned"}
  /\ via \in {"get", "list"}
  /\ opts \in Seq(Options(kind)) /\ Len(opts) <= MaxOpts
  /\ Folded
  /\ Followed

--------------------------------------------------------------------------------
(***************************************************************************)
(* The last of some options, and the fields.                               *)
(***************************************************************************)
\* A set of natural numbers has a least one.
LEMMA Least ==
  ASSUME NEW T, T \subseteq Nat, T # {}
  PROVE  \E x \in T : \A y \in T : x <= y
<1>1. IsWellFoundedOn(OpToRel(<, Nat), Nat)
  BY NatLessThanWellFounded
<1>2. PICK x \in T : \A y \in T : ~(<<y, x>> \in OpToRel(<, Nat))
  <2> HIDE DEF OpToRel
  <2> QED BY <1>1, WFMin
<1>3. \A y \in T : ~(y < x)
  BY <1>2 DEF OpToRel
<1> QED BY <1>3

\* A set of positions that is not empty has a last one.
LEMMA MaxIsIn ==
  ASSUME NEW n \in Nat, NEW S, S \subseteq 1..n, S # {}
  PROVE  Max(S) \in S
<1> DEFINE Bounds == {b \in Nat : \A i \in S : i <= b}
<1>1. n \in Bounds
  OBVIOUS
<1>2. PICK m \in Bounds : \A b \in Bounds : m <= b
  BY <1>1, Least
<1>3. m \in S
  <2>1. SUFFICES ASSUME m \notin S PROVE FALSE
    OBVIOUS
  <2>2. \A i \in S : i <= m - 1
    BY <1>2, <2>1
  <2>3. m - 1 \in Nat
    <3>1. PICK i \in S : TRUE
      OBVIOUS
    <3>2. i \in Nat /\ i >= 1 /\ m \in Nat
      BY <1>2, <3>1
    <3> QED BY <2>2, <3>1, <3>2
  <2>4. m - 1 \in Bounds
    BY <2>2, <2>3
  <2> QED BY <1>2, <2>4
<1>4. \E i \in S : \A j \in S : i >= j
  BY <1>2, <1>3
<1> QED BY <1>4 DEF Max

\* The position after all of them is the last one.
LEMMA MaxNext ==
  ASSUME NEW n \in Nat, NEW S, S \subseteq 1..n
  PROVE  Max(S \cup {n + 1}) = n + 1
<1>1. n + 1 \in S \cup {n + 1} /\ \A j \in S \cup {n + 1} : n + 1 >= j
  OBVIOUS
<1>2. \A i \in S \cup {n + 1} : (\A j \in S \cup {n + 1} : i >= j) => i = n + 1
  OBVIOUS
<1> QED BY <1>1, <1>2 DEF Max

\* No field is of two sorts, and the collections are those of the lists and
\* the maps.
LEMMA Apart ==
  ASSUME NEW k \in Kinds
  PROVE  /\ (Sets(k) \cup Flags(k)) \cap Collections = {}
         /\ Sets(k) \cap Flags(k) = {}
         /\ Lists(k) \cup Maps(k) \subseteq Collections
         /\ Lists(k) \cap Maps(k) = {}
         /\ {"name", "endpoints"} \cap Fields(k) = {}
<1>1. \A f \in Sets(k) : <<k, f>> \in SetsOf
  BY DEF Sets, SetsOf, CallSets, ImageSets, NetworkSets, VolumeSets
<1>2. \A f \in Flags(k) : <<k, f>> \in FlagsOf
  BY DEF Flags, FlagsOf
<1>3. \A f \in Sets(k) :
        f \in Process \cup HostSets
                \cup {"filters", "signal", "timeout", "tail", "since", "tag", "platform",
                      "dockerfile", "subnet", "gateway", "driver"}
  BY <1>1 DEF SetsOf, CallSets, ImageSets, NetworkSets, VolumeSets
<1>4. \A f \in Flags(k) :
        f \in {"tty", "openStdin", "autoRemove", "all", "force", "removeVolumes",
               "attachStdin", "detach", "follow", "noCache"}
  BY <1>2 DEF FlagsOf
<1>5. (Sets(k) \cup Flags(k)) \cap Collections = {}
  BY <1>3, <1>4 DEF Process, HostSets, Collections
<1>6. Sets(k) \cap Flags(k) = {}
  BY <1>3, <1>4 DEF Process, HostSets
<1>7. Lists(k) \cup Maps(k) \subseteq Collections
  BY DEF Lists, Maps, Collections
<1>8. Lists(k) \cap Maps(k) = {}
  BY DEF Lists, Maps
<1>9. {"name", "endpoints"} \cap Fields(k) = {}
  BY <1>3, <1>4, <1>7 DEF Process, HostSets, Collections, Fields
<1> QED BY <1>5, <1>6, <1>7, <1>8, <1>9

\* What the field of an option is, and with which value.
LEMMA OptionForms ==
  ASSUME NEW k \in Kinds, NEW o \in Options(k)
  PROVE  /\ o.field \in Fields(k) \/ (o.field = "name" /\ k = "create")
         /\ o.field \in Sets(k) => o.val \in Vals \cup {None}
         /\ o.field \in Flags(k) => o.val = "true"
         /\ o.field \in Lists(k) => o.val \in Vals \cup Mounts
         /\ o.field = "ports" => o.val \in Ports
<1> USE Apart
<1>1. CASE \E f \in Sets(k), v \in Vals : o = Option(f, None, v)
  BY <1>1 DEF Option, Fields, Collections
<1>2. CASE \E f \in Sets(k) \ {"timeout"} : o = Option(f, None, None)
  BY <1>2 DEF Option, Fields, Collections
<1>3. CASE \E f \in Flags(k) : o = Option(f, None, "true")
  BY <1>3 DEF Option, Fields, Collections
<1>4. CASE \E f \in Lists(k) \ {"mounts"}, v \in Vals : o = Option(f, None, v)
  BY <1>4 DEF Option, Fields, Collections, Lists
<1>5. CASE \E n \in IF k \in Made THEN Keys ELSE {}, v \in Vals :
             o = Option("labels", n, v)
  BY <1>5 DEF Option, Fields, Collections, Lists, Maps
<1>6. CASE k = "create" /\ \E m \in Mounts : o = Option("mounts", None, m)
  BY <1>6 DEF Option, Fields, Collections, Lists
<1>7. CASE k = "create" /\ \E p \in Ports \ {0}, h \in Ports : o = Option("ports", p, h)
  BY <1>7 DEF Option, Fields, Collections, Lists, Maps
<1>8. CASE k = "create" /\ \E v \in Vals : o = Option("name", None, v)
  BY <1>8 DEF Option, Fields, Collections, Lists
<1> QED BY <1>1, <1>2, <1>3, <1>4, <1>5, <1>6, <1>7, <1>8 DEF Options

--------------------------------------------------------------------------------
(***************************************************************************)
(* One more option.                                                        *)
(***************************************************************************)
\* The options so far stay where they are, and the new one is the last.
LEMMA OptionsGrow ==
  ASSUME Inv, NEW o \in Options(kind), AddOption(o)
  PROVE  /\ Len(opts) \in Nat /\ DOMAIN opts = 1..Len(opts)
         /\ opts' \in Seq(Options(kind)) /\ Len(opts') <= MaxOpts
         /\ DOMAIN opts' = 1..(Len(opts) + 1)
         /\ opts'[Len(opts) + 1] = o
         /\ \A i \in 1..Len(opts) : opts'[i] = opts[i]
<1>1. opts \in Seq(Options(kind)) /\ opts' = Append(opts, o) /\ Len(opts) < MaxOpts
  BY DEF Inv, AddOption
<1>2. Len(opts) \in Nat /\ MaxOpts \in Nat
  BY <1>1, RecordsAssumption
<1>3. Len(opts') = Len(opts) + 1
  BY <1>1
<1>4. Len(opts') <= MaxOpts
  BY <1>1, <1>2, <1>3
<1> QED BY <1>1, <1>2, <1>3, <1>4

\* The options about a field.
LEMMA AboutGrows ==
  ASSUME Inv, NEW o \in Options(kind), AddOption(o), NEW f
  PROVE  /\ About(f) \subseteq 1..Len(opts)
         /\ o.field = f => About(f)' = About(f) \cup {Len(opts) + 1}
         /\ o.field # f => About(f)' = About(f)
<1>1. About(f) = {i \in 1..Len(opts) : opts[i].field = f}
  BY OptionsGrow DEF About
<1>2. About(f)' = {i \in 1..(Len(opts) + 1) : opts'[i].field = f}
  BY OptionsGrow DEF About
<1>3. Len(opts) \in Nat /\ opts'[Len(opts) + 1] = o
      /\ \A i \in 1..Len(opts) : opts'[i] = opts[i]
  BY OptionsGrow
<1>4. 1..(Len(opts) + 1) = (1..Len(opts)) \cup {Len(opts) + 1}
  BY <1>3
<1> QED BY <1>1, <1>2, <1>3, <1>4

\* The last of some options is the new one, if it is among them.
LEMMA LastGrows ==
  ASSUME Inv, NEW o \in Options(kind), AddOption(o),
         NEW is, is \subseteq 1..Len(opts), NEW d
  PROVE  /\ IF is = {} THEN TRUE ELSE opts'[Max(is)] = opts[Max(is)]
         /\ is \cup {Len(opts) + 1} # {}
         /\ opts'[Max(is \cup {Len(opts) + 1})] = o
<1>1. Len(opts) \in Nat /\ opts'[Len(opts) + 1] = o
      /\ \A i \in 1..Len(opts) : opts'[i] = opts[i]
  BY OptionsGrow
<1>2. is # {} => Max(is) \in is
  BY <1>1, MaxIsIn
<1>3. Max(is \cup {Len(opts) + 1}) = Len(opts) + 1
  BY <1>1, MaxNext
<1> QED BY <1>1, <1>2, <1>3

\* What is said of a field is what the last option about it says.
LEMMA SaidGrows ==
  ASSUME Inv, NEW o \in Options(kind), AddOption(o), NEW f
  PROVE  Said(f)' = IF o.field = f THEN o.val ELSE Said(f)
<1> DEFINE n == Len(opts)
<1>1. kind' = kind
  BY DEF AddOption
<1>2. About(f) \subseteq 1..n
  BY AboutGrows
<1>3. Said(f)' = IF About(f)' = {} THEN Default(kind, f) ELSE opts'[Max(About(f)')].val
  BY <1>1 DEF Said, Last, Default
<1>4. Said(f) = IF About(f) = {} THEN Default(kind, f) ELSE opts[Max(About(f))].val
  BY DEF Said, Last
<1>5. CASE o.field = f
  <2>1. About(f)' = About(f) \cup {n + 1}
    BY <1>5, AboutGrows
  <2>2. About(f) \cup {n + 1} # {} /\ opts'[Max(About(f) \cup {n + 1})] = o
    BY <1>2, LastGrows
  <2> QED BY <1>3, <1>5, <2>1, <2>2
<1>6. CASE o.field # f
  <2>1. About(f)' = About(f)
    BY <1>6, AboutGrows
  <2>2. About(f) # {} => opts'[Max(About(f))] = opts[Max(About(f))]
    BY <1>2, LastGrows
  <2> QED BY <1>3, <1>4, <1>6, <2>1, <2>2
<1> QED BY <1>5, <1>6

\* A list holds what the options for it said, and so does the longer one.
LEMMA ListGrows ==
  ASSUME Inv, NEW o \in Options(kind), AddOption(o), NEW B, NEW f, NEW s \in Seq(B),
         IsSaidList(s, f), o.field = f
  PROVE  IsSaidList(Append(s, o.val), f)'
<1> DEFINE n == Len(opts)
           t == Append(s, o.val)
<1>1. n \in Nat /\ opts'[n + 1] = o /\ \A i \in 1..n : opts'[i] = opts[i]
  BY OptionsGrow
<1>2. About(f) \subseteq 1..n /\ About(f)' = About(f) \cup {n + 1}
  BY AboutGrows
<1>3. PICK at \in [DOMAIN s -> About(f)] :
        /\ Range(at) = About(f)
        /\ \A i, j \in DOMAIN s : i < j => at[i] < at[j]
        /\ \A i \in DOMAIN s : s[i] = opts[at[i]].val
  BY DEF IsSaidList
<1> DEFINE m == Len(s)
           to == [i \in DOMAIN t |-> IF i = m + 1 THEN n + 1 ELSE at[i]]
<1>4. m \in Nat /\ DOMAIN s = 1..m /\ DOMAIN t = 1..(m + 1)
      /\ t[m + 1] = o.val /\ \A i \in 1..m : t[i] = s[i]
  OBVIOUS
<1>5. \A i \in 1..m : at[i] \in About(f) /\ to[i] = at[i] /\ i \in DOMAIN t
  BY <1>3, <1>4
<1>6. to[m + 1] = n + 1 /\ m + 1 \in DOMAIN t
  BY <1>4
<1>7. DOMAIN to = DOMAIN t
  OBVIOUS
<1>8. \A i \in DOMAIN t : i \in 1..m \/ i = m + 1
  BY <1>4
<1> HIDE DEF n, m, t, to
<1>9. to \in [DOMAIN t -> About(f)']
  <2>1. \A i \in DOMAIN t : to[i] \in About(f)'
    BY <1>2, <1>5, <1>6, <1>8
  <2> QED BY <2>1 DEF to
<1>10. Range(to) = About(f)'
  <2>1. Range(to) = {to[i] : i \in DOMAIN t}
    BY <1>7 DEF Range
  <2>2. Range(at) = {at[i] : i \in 1..m}
    BY <1>3, <1>4 DEF Range
  <2>3. \A x \in About(f) : \E i \in 1..m : at[i] = x
    BY <1>3, <2>2
  <2>4. \A x \in About(f)' : \E i \in DOMAIN t : to[i] = x
    BY <1>2, <1>5, <1>6, <2>3
  <2>5. \A i \in DOMAIN t : to[i] \in About(f)'
    BY <1>2, <1>5, <1>6, <1>8
  <2> QED BY <2>1, <2>4, <2>5
<1>11. \A i, j \in DOMAIN t : i < j => to[i] < to[j]
  <2>1. ASSUME NEW i \in DOMAIN t, NEW j \in DOMAIN t, i < j
        PROVE  to[i] < to[j]
    <3>1. i \in 1..m
      BY <1>4, <1>8, <2>1
    <3>2. CASE j \in 1..m
      BY <1>3, <1>4, <1>5, <2>1, <3>1, <3>2
    <3>3. CASE j = m + 1
      <4>1. at[i] \in 1..n
        BY <1>2, <1>5, <3>1
      <4> QED BY <1>1, <1>5, <1>6, <3>1, <3>3, <4>1 DEF n
    <3> QED BY <1>8, <3>2, <3>3
  <2> QED BY <2>1
<1>12. \A i \in DOMAIN t : t[i] = opts'[to[i]].val
  <2>1. ASSUME NEW i \in 1..m PROVE t[i] = opts'[to[i]].val
    <3>1. t[i] = s[i] /\ s[i] = opts[at[i]].val
      BY <1>3, <1>4
    <3>2. to[i] = at[i] /\ at[i] \in 1..n
      BY <1>2, <1>5
    <3> QED BY <1>1, <3>1, <3>2 DEF n
  <2> QED BY <1>1, <1>4, <1>6, <1>8, <2>1
<1>13. IsSaidList(t, f)'
  <2>1. t' = t
    BY <1>9 DEF t
  <2> QED BY <1>9, <1>10, <1>11, <1>12 DEF IsSaidList
<1> QED BY <1>13 DEF t

\* A list that no option is about stays what it is.
LEMMA ListStays ==
  ASSUME Inv, NEW o \in Options(kind), AddOption(o), NEW f, NEW s,
         IsSaidList(s, f), o.field # f
  PROVE  IsSaidList(s, f)'
<1>1. \A i \in 1..Len(opts) : opts'[i] = opts[i]
  BY OptionsGrow
<1>2. About(f) \subseteq 1..Len(opts) /\ About(f)' = About(f)
  BY AboutGrows
<1>3. PICK at \in [DOMAIN s -> About(f)] :
        /\ Range(at) = About(f)
        /\ \A i, j \in DOMAIN s : i < j => at[i] < at[j]
        /\ \A i \in DOMAIN s : s[i] = opts[at[i]].val
  BY DEF IsSaidList
<1>4. \A i \in DOMAIN s : s[i] = opts'[at[i]].val
  BY <1>1, <1>2, <1>3
<1> QED BY <1>2, <1>3, <1>4 DEF IsSaidList

\* The labels that are said are those of before, and the new one.
LEMMA LabelsGrow ==
  ASSUME Inv, NEW o \in Options(kind), AddOption(o)
  PROVE  SaidLabels' = IF o.field = "labels" THEN Put(SaidLabels, o.key, o.val)
                       ELSE SaidLabels
<1> DEFINE n == Len(opts)
           A == About("labels")
           Keyed(k) == {i \in A : opts[i].key = k}
           KeyedNext(k) == {i \in A' : opts'[i].key = k}
           D == {opts[i].key : i \in A}
           DNext == {opts'[i].key : i \in A'}
<1>1. n \in Nat /\ opts'[n + 1] = o /\ \A i \in 1..n : opts'[i] = opts[i]
  BY OptionsGrow
<1>2. A \subseteq 1..n
  BY AboutGrows
<1>3. SaidLabels = [k \in D |-> Last(Keyed(k), None)]
  BY DEF SaidLabels
<1>4. SaidLabels' = [k \in DNext |-> IF KeyedNext(k) = {} THEN None
                                     ELSE opts'[Max(KeyedNext(k))].val]
  BY DEF SaidLabels, Last
<1>5. CASE o.field # "labels"
  <2>1. A' = A
    BY <1>5, AboutGrows
  <2>2. DNext = D
    BY <1>1, <1>2, <2>1
  <2>3. \A k : KeyedNext(k) = Keyed(k)
    BY <1>1, <1>2, <2>1
  <2>4. \A k : Keyed(k) # {} => opts'[Max(Keyed(k))] = opts[Max(Keyed(k))]
    <3>1. ASSUME NEW k, Keyed(k) # {}
          PROVE  opts'[Max(Keyed(k))] = opts[Max(Keyed(k))]
      <4>1. Keyed(k) \subseteq 1..n
        BY <1>2
      <4> HIDE DEF Keyed
      <4>2. Max(Keyed(k)) \in 1..n
        BY <1>1, <3>1, <4>1, MaxIsIn
      <4> QED BY <1>1, <4>2
    <3> QED BY <3>1
  <2> HIDE DEF Keyed, KeyedNext, D, DNext
  <2> QED BY <1>3, <1>4, <1>5, <2>2, <2>3, <2>4 DEF Last
<1>6. CASE o.field = "labels"
  <2>1. A' = A \cup {n + 1}
    BY <1>6, AboutGrows
  <2>2. DNext = D \cup {o.key}
    BY <1>1, <1>2, <2>1
  <2>3. \A k : k # o.key => KeyedNext(k) = Keyed(k)
    BY <1>1, <1>2, <2>1
  <2>4. KeyedNext(o.key) = Keyed(o.key) \cup {n + 1}
    BY <1>1, <1>2, <2>1
  <2>5. \A k : Keyed(k) \subseteq 1..n
    BY <1>2
  <2> HIDE DEF A, Keyed, KeyedNext, D, DNext
  <2>6. \A k : Keyed(k) # {} => opts'[Max(Keyed(k))] = opts[Max(Keyed(k))]
    <3>1. ASSUME NEW k, Keyed(k) # {} PROVE Max(Keyed(k)) \in 1..n
      BY <1>1, <2>5, <3>1, MaxIsIn
    <3> QED BY <1>1, <3>1
  <2>7. KeyedNext(o.key) # {} /\ opts'[Max(KeyedNext(o.key))] = o
    <3>1. Max(KeyedNext(o.key)) = n + 1
      BY <1>1, <2>4, <2>5, MaxNext
    <3> QED BY <1>1, <2>4, <3>1
  <2>8. ASSUME NEW k \in DNext
        PROVE  SaidLabels'[k] = IF k = o.key THEN o.val ELSE SaidLabels[k]
    <3>1. CASE k = o.key
      BY <1>4, <2>7, <3>1
    <3>2. CASE k # o.key
      <4>1. k \in D
        BY <2>2, <3>2
      <4>2. KeyedNext(k) = Keyed(k)
        BY <2>3, <3>2
      <4>3. SaidLabels[k] = IF Keyed(k) = {} THEN None ELSE opts[Max(Keyed(k))].val
        BY <1>3, <4>1 DEF Last
      <4> QED BY <1>4, <2>6, <3>2, <4>2, <4>3
    <3> QED BY <3>1, <3>2
  <2>9. DOMAIN SaidLabels = D
    BY <1>3
  <2>10. SaidLabels' = [k \in DNext |-> SaidLabels'[k]]
    BY <1>4
  <2> QED BY <1>6, <2>2, <2>8, <2>9, <2>10 DEF Put
<1> QED BY <1>5, <1>6

\* The ports that are said are those of before, and the new one.
LEMMA PortsGrow ==
  ASSUME Inv, NEW o \in Options(kind), AddOption(o)
  PROVE  SaidPorts' = IF o.field = "ports" THEN SaidPorts \cup {<<o.key, o.val>>}
                      ELSE SaidPorts
<1> DEFINE n == Len(opts)
           A == About("ports")
<1>1. n \in Nat /\ opts'[n + 1] = o /\ \A i \in 1..n : opts'[i] = opts[i]
  BY OptionsGrow
<1>2. A \subseteq 1..n
  BY AboutGrows
<1>3. SaidPorts = {<<opts[i].key, opts[i].val>> : i \in A}
  BY DEF SaidPorts
<1>4. SaidPorts' = {<<opts'[i].key, opts'[i].val>> : i \in A'}
  BY DEF SaidPorts
<1>5. o.field = "ports" => A' = A \cup {n + 1}
  BY AboutGrows
<1>6. o.field # "ports" => A' = A
  BY AboutGrows
<1> HIDE DEF n, A
<1> QED BY <1>1, <1>2, <1>3, <1>4, <1>5, <1>6

\* A published port joins those that its container port has already.
LEMMA GatherPublishes ==
  ASSUME NEW m, \A p \in DOMAIN m : m[p] \in Seq(Ports), NEW k, NEW v \in Ports
  PROVE  /\ Published(Gather(m, k, v)) = Published(m) \cup {<<k, v>>}
         /\ \A p \in DOMAIN Gather(m, k, v) : Gather(m, k, v)[p] \in Seq(Ports)
         /\ Gather(m, k, v) = [p \in DOMAIN Gather(m, k, v) |-> Gather(m, k, v)[p]]
<1> DEFINE g == Gather(m, k, v)
           s == IF k \in DOMAIN m THEN Append(m[k], v) ELSE <<v>>
<1>1. g = [p \in DOMAIN m \cup {k} |-> IF p = k THEN s ELSE m[p]]
  BY DEF Gather, Put
<1>2. s \in Seq(Ports)
  OBVIOUS
<1>3. \A x : x \in Published(g)
              <=> \E p \in DOMAIN g : \E i \in DOMAIN g[p] : x = <<p, g[p][i]>>
  BY DEF Published
<1>4. \A x : x \in Published(m)
              <=> \E p \in DOMAIN m : \E i \in DOMAIN m[p] : x = <<p, m[p][i]>>
  BY DEF Published
<1>5. \A y : (\E i \in DOMAIN s : y = s[i])
               <=> y = v \/ (k \in DOMAIN m /\ \E i \in DOMAIN m[k] : y = m[k][i])
  <2>1. CASE k \in DOMAIN m
    <3> DEFINE q == m[k]
    <3>1. q \in Seq(Ports) /\ s = Append(q, v)
      BY <2>1
    <3> HIDE DEF q, s
    <3>2. Len(q) \in Nat /\ DOMAIN q = 1..Len(q) /\ DOMAIN s = 1..(Len(q) + 1)
          /\ s[Len(q) + 1] = v /\ \A i \in 1..Len(q) : s[i] = q[i]
      BY <3>1
    <3>3. \A i \in 1..(Len(q) + 1) : i \in 1..Len(q) \/ i = Len(q) + 1
      BY <3>2
    <3>4. \A i \in 1..Len(q) : i \in 1..(Len(q) + 1)
      BY <3>2
    <3>5. Len(q) + 1 \in 1..(Len(q) + 1)
      BY <3>2
    <3>6. \A y : (\E i \in DOMAIN s : y = s[i]) <=> y = v \/ \E i \in DOMAIN q : y = q[i]
      BY <3>2, <3>3, <3>4, <3>5
    <3> QED BY <2>1, <3>6 DEF q
  <2>2. CASE k \notin DOMAIN m
    <3>1. s = <<v>> /\ DOMAIN <<v>> = {1} /\ <<v>>[1] = v
      BY <2>2
    <3> QED BY <2>2, <3>1
  <2> QED BY <2>1, <2>2
<1> HIDE DEF g, s
<1>6. DOMAIN g = DOMAIN m \cup {k} /\ g[k] = s /\ \A p \in DOMAIN m : p # k => g[p] = m[p]
  BY <1>1
<1>7. \A x : x \in Published(g) <=> x \in Published(m) \/ x = <<k, v>>
  <2>1. ASSUME NEW p, NEW y
        PROVE  (p \in DOMAIN g /\ \E i \in DOMAIN g[p] : y = g[p][i])
                 <=> (p \in DOMAIN m /\ \E i \in DOMAIN m[p] : y = m[p][i])
                     \/ (p = k /\ y = v)
    <3>1. CASE p = k
      BY <1>5, <1>6, <3>1
    <3>2. CASE p # k
      BY <1>6, <3>2
    <3> QED BY <3>1, <3>2
  <2>2. ASSUME NEW x \in Published(g) PROVE x \in Published(m) \/ x = <<k, v>>
    <3>1. PICK p \in DOMAIN g : \E i \in DOMAIN g[p] : x = <<p, g[p][i]>>
      BY <1>3
    <3>2. PICK i \in DOMAIN g[p] : x = <<p, g[p][i]>>
      BY <3>1
    <3>3. (p \in DOMAIN m /\ \E j \in DOMAIN m[p] : g[p][i] = m[p][j])
          \/ (p = k /\ g[p][i] = v)
      BY <2>1, <3>1, <3>2
    <3> QED BY <1>4, <3>2, <3>3
  <2>3. ASSUME NEW x \in Published(m) PROVE x \in Published(g)
    <3>1. PICK p \in DOMAIN m : \E i \in DOMAIN m[p] : x = <<p, m[p][i]>>
      BY <1>4
    <3>2. PICK i \in DOMAIN m[p] : x = <<p, m[p][i]>>
      BY <3>1
    <3>3. \A y : (\E j \in DOMAIN m[p] : y = m[p][j])
                 => p \in DOMAIN g /\ \E j \in DOMAIN g[p] : y = g[p][j]
      BY <2>1
    <3>4. \E j \in DOMAIN m[p] : m[p][i] = m[p][j]
      BY <3>2
    <3>5. p \in DOMAIN g /\ \E j \in DOMAIN g[p] : m[p][i] = g[p][j]
      BY <3>3, <3>4
    <3> QED BY <1>3, <3>2, <3>5
  <2>4. <<k, v>> \in Published(g)
    BY <1>3, <2>1
  <2> QED BY <2>2, <2>3, <2>4
<1>8. Published(g) = Published(m) \cup {<<k, v>>}
  BY <1>7
<1>9. \A p \in DOMAIN g : g[p] \in Seq(Ports)
  BY <1>2, <1>6
<1>10. g = [p \in DOMAIN g |-> g[p]]
  BY <1>1
<1> QED BY <1>8, <1>9, <1>10 DEF g

\* An option changes its field, and no other.
LEMMA FieldsChange ==
  ASSUME Inv, NEW o \in Options(kind), AddOption(o)
  PROVE  /\ DOMAIN cfg' = DOMAIN cfg
         /\ \A f \in Fields(kind) :
              cfg'[f] = IF o.field = f THEN Changed(cfg[f], o) ELSE cfg[f]
<1>1. DOMAIN cfg = Fields(kind) /\ kind \in Kinds
  BY DEF Inv, Folded
<1>2. cfg' = IF o.field = "name" THEN cfg
             ELSE [cfg EXCEPT ![o.field] = Changed(cfg[o.field], o)]
  BY DEF AddOption, Apply
<1>3. "name" \notin Fields(kind)
  BY <1>1, Apart
<1> HIDE DEF Inv
<1> QED BY <1>1, <1>2, <1>3

\* With one more option the configuration holds what the options say.
LEMMA Folds ==
  ASSUME Inv, NEW o \in Options(kind), AddOption(o)
  PROVE  Folded'
<1>1. kind' = kind /\ kind \in Kinds /\ Folded /\ DOMAIN cfg = Fields(kind)
  BY DEF AddOption, Inv, Folded
<1>2. \A f \in Fields(kind) :
        cfg'[f] = IF o.field = f THEN Changed(cfg[f], o) ELSE cfg[f]
  BY FieldsChange
<1>3. DOMAIN cfg' = Fields(kind)'
  BY <1>1, FieldsChange DEF Fields, Sets, Flags, Lists, Maps
<1>4. \A f \in (Sets(kind) \cup Flags(kind))' : cfg'[f] = Said(f)'
  <2>1. ASSUME NEW f \in Sets(kind) \cup Flags(kind) PROVE cfg'[f] = Said(f)'
    <3>1. f \in Fields(kind) /\ f \notin Collections /\ cfg[f] = Said(f)
      BY <1>1, Apart DEF Fields, Folded
    <3>2. o.field = f => Changed(cfg[f], o) = o.val
      BY <3>1 DEF Changed, Collections
    <3> QED BY <1>2, <3>1, <3>2, SaidGrows
  <2> QED BY <1>1, <2>1 DEF Sets, Flags
<1>5. ASSUME NEW f \in Lists(kind)
      PROVE  cfg'[f] \in Seq(Vals \cup Mounts) /\ IsSaidList(cfg[f], f)'
  <2>1. f \in Fields(kind) /\ f \in {"env", "binds", "mounts"}
    BY DEF Fields, Lists
  <2>2. cfg[f] \in Seq(Vals \cup Mounts) /\ IsSaidList(cfg[f], f)
    BY <1>1 DEF Folded
  <2>3. PICK s : s = cfg[f]
    OBVIOUS
  <2>4. PICK t : t = cfg'[f]
    OBVIOUS
  <2>5. IsSaidList(s, f)
    BY <2>2, <2>3
  <2>6. t \in Seq(Vals \cup Mounts) /\ IsSaidList(t, f)'
    <3>1. CASE o.field = f
      <4>1. t = Append(s, o.val)
        BY <1>2, <2>1, <2>3, <2>4, <3>1 DEF Changed, Collections
      <4>2. o.val \in Vals \cup Mounts
        BY <1>1, <3>1, OptionForms
      <4>3. s \in Seq(Vals \cup Mounts)
        BY <2>2, <2>3
      <4>4. IsSaidList(Append(s, o.val), f)'
        BY <2>5, <3>1, <4>3, ListGrows
      <4> QED BY <4>1, <4>2, <4>3, <4>4
    <3>2. CASE o.field # f
      <4>1. t = s
        BY <1>2, <2>1, <2>3, <2>4, <3>2
      <4>2. IsSaidList(s, f)'
        BY <2>5, <3>2, ListStays
      <4> QED BY <2>2, <2>3, <4>1, <4>2
    <3> QED BY <3>1, <3>2
  <2> QED BY <2>4, <2>6 DEF IsSaidList
<1>6. kind \in Made => cfg'["labels"] = SaidLabels'
  <2>1. SUFFICES ASSUME kind \in Made PROVE cfg'["labels"] = SaidLabels'
    OBVIOUS
  <2>2. "labels" \in Fields(kind) /\ cfg["labels"] = SaidLabels
    BY <1>1, <2>1 DEF Fields, Maps, Folded
  <2>3. o.field = "labels" => Changed(cfg["labels"], o) = Put(SaidLabels, o.key, o.val)
    BY <2>2 DEF Changed, Collections
  <2> QED BY <1>2, <2>2, <2>3, LabelsGrow
<1>7. kind = "create" =>
        /\ cfg'["ports"] = [p \in DOMAIN cfg'["ports"] |-> cfg'["ports"][p]]
        /\ \A p \in DOMAIN cfg'["ports"] : cfg'["ports"][p] \in Seq(Ports)
        /\ Published(cfg["ports"])' = SaidPorts'
  <2>1. SUFFICES ASSUME kind = "create"
                 PROVE  /\ cfg'["ports"] = [p \in DOMAIN cfg'["ports"] |-> cfg'["ports"][p]]
                        /\ \A p \in DOMAIN cfg'["ports"] : cfg'["ports"][p] \in Seq(Ports)
                        /\ Published(cfg["ports"])' = SaidPorts'
    OBVIOUS
  <2>2. PICK m : m = cfg["ports"]
    OBVIOUS
  <2>3. PICK g : g = cfg'["ports"]
    OBVIOUS
  <2>4. "ports" \in Fields(kind)
    BY <2>1 DEF Fields, Maps
  <2>5. /\ m = [p \in DOMAIN m |-> m[p]]
        /\ \A p \in DOMAIN m : m[p] \in Seq(Ports)
        /\ Published(m) = SaidPorts
    BY <1>1, <2>1, <2>2 DEF Folded
  <2>6. /\ g = [p \in DOMAIN g |-> g[p]]
        /\ \A p \in DOMAIN g : g[p] \in Seq(Ports)
        /\ Published(g) = SaidPorts'
    <3>1. CASE o.field = "ports"
      <4>1. g = Gather(m, o.key, o.val)
        BY <1>2, <2>2, <2>3, <2>4, <3>1 DEF Changed, Collections
      <4>2. o.val \in Ports
        BY <1>1, <3>1, OptionForms
      <4>3. PICK k, v : k = o.key /\ v = o.val
        OBVIOUS
      <4>4. v \in Ports /\ g = Gather(m, k, v)
        BY <4>1, <4>2, <4>3
      <4>5. Published(g) = Published(m) \cup {<<k, v>>}
        BY <2>5, <4>4, GatherPublishes
      <4>6. \A p \in DOMAIN g : g[p] \in Seq(Ports)
        BY <2>5, <4>4, GatherPublishes
      <4>7. g = [p \in DOMAIN g |-> g[p]]
        BY <2>5, <4>4, GatherPublishes
      <4> QED BY <2>5, <3>1, <4>3, <4>5, <4>6, <4>7, PortsGrow
    <3>2. CASE o.field # "ports"
      <4>1. g = m
        BY <1>2, <2>2, <2>3, <2>4, <3>2
      <4> QED BY <2>5, <3>2, <4>1, PortsGrow
    <3> QED BY <3>1, <3>2
  <2>7. Published(cfg["ports"])' = Published(g)
    BY <2>3 DEF Published
  <2> QED BY <2>3, <2>6, <2>7
<1>8. \A f \in Lists(kind)' : cfg'[f] \in Seq(Vals \cup Mounts) /\ IsSaidList(cfg[f], f)'
  BY <1>1, <1>5 DEF Lists
<1> QED BY <1>1, <1>3, <1>4, <1>6, <1>7, <1>8 DEF Folded

--------------------------------------------------------------------------------
(***************************************************************************)
(* The inductive invariant.                                                *)
(***************************************************************************)
LEMMA Initial == Init => Inv
<1> SUFFICES ASSUME Init PROVE Inv
  OBVIOUS
<1>1. /\ kind \in Kinds /\ opts = <<>> /\ cfg = Config(kind)
      /\ pc = "build" /\ via = "get"
  BY DEF Init
<1>2. opts \in Seq(Options(kind)) /\ Len(opts) = 0 /\ Len(opts) <= MaxOpts
  BY <1>1, RecordsAssumption
<1>3. DOMAIN cfg = Fields(kind) /\ \A f \in Fields(kind) : cfg[f] = Default(kind, f)
  BY <1>1 DEF Config
<1>4. \A f : About(f) = {}
  BY <1>1 DEF About
<1>5. \A f \in Sets(kind) \cup Flags(kind) : cfg[f] = Said(f)
  BY <1>3, <1>4 DEF Fields, Said, Last
<1>6. \A f \in Lists(kind) \cup Maps(kind) : cfg[f] = <<>>
  <2>1. \A f \in Lists(kind) \cup Maps(kind) : f \in Fields(kind) /\ f \in Collections
    BY <1>1, Apart DEF Fields
  <2> QED BY <1>3, <2>1 DEF Default
<1>7. ASSUME NEW f \in Lists(kind)
      PROVE  cfg[f] \in Seq(Vals \cup Mounts) /\ IsSaidList(cfg[f], f)
  <2>1. cfg[f] = <<>> /\ DOMAIN cfg[f] = {}
    BY <1>6
  <2> DEFINE at == [i \in DOMAIN cfg[f] |-> 0]
  <2>2. at \in [DOMAIN cfg[f] -> About(f)] /\ Range(at) = About(f)
    BY <1>4, <2>1 DEF Range
  <2>3. IsSaidList(cfg[f], f)
    BY <2>1, <2>2 DEF IsSaidList
  <2> QED BY <2>1, <2>3
<1>8. kind \in Made => cfg["labels"] = SaidLabels
  <2>1. SaidLabels = <<>>
    BY <1>4 DEF SaidLabels
  <2> QED BY <1>6, <2>1 DEF Maps
<1>9. kind = "create" =>
        /\ cfg["ports"] = [p \in DOMAIN cfg["ports"] |-> cfg["ports"][p]]
        /\ \A p \in DOMAIN cfg["ports"] : cfg["ports"][p] \in Seq(Ports)
        /\ Published(cfg["ports"]) = SaidPorts
  <2>1. SUFFICES ASSUME kind = "create"
                 PROVE  /\ cfg["ports"] = [p \in DOMAIN cfg["ports"] |-> cfg["ports"][p]]
                        /\ \A p \in DOMAIN cfg["ports"] : cfg["ports"][p] \in Seq(Ports)
                        /\ Published(cfg["ports"]) = SaidPorts
    OBVIOUS
  <2>2. cfg["ports"] = <<>> /\ DOMAIN cfg["ports"] = {}
    BY <1>6, <2>1 DEF Maps
  <2>3. SaidPorts = {} /\ Published(cfg["ports"]) = {}
    BY <1>4, <2>2 DEF SaidPorts, Published
  <2> QED BY <2>2, <2>3
<1>10. Folded
  BY <1>3, <1>5, <1>7, <1>8, <1>9 DEF Folded
<1>11. Followed
  BY <1>1 DEF Followed
<1> QED BY <1>1, <1>2, <1>10, <1>11 DEF Inv

\* Folded speaks of the options, the configuration and the call only.
LEMMA FoldedStays ==
  ASSUME Inv, UNCHANGED <<kind, opts, cfg>>
  PROVE  /\ kind' \in Kinds
         /\ opts' \in Seq(Options(kind)') /\ Len(opts') <= MaxOpts
         /\ Folded'
<1>1. opts' \in Seq(Options(kind)') /\ Len(opts') <= MaxOpts
  BY DEF Inv, Options, Sets, Flags, Lists, Mounts, Option
<1>2. Folded'
  <2>1. kind' = kind /\ opts' = opts /\ cfg' = cfg /\ Folded
    BY DEF Inv
  <2>2. /\ Fields(kind)' = Fields(kind) /\ Sets(kind)' = Sets(kind)
        /\ Flags(kind)' = Flags(kind) /\ Lists(kind)' = Lists(kind)
    BY <2>1 DEF Fields, Sets, Flags, Lists, Maps
  <2>3. \A f : About(f)' = About(f)
    BY <2>1 DEF About
  <2>4. \A f : Said(f)' = Said(f)
    BY <2>1, <2>3 DEF Said, Last, Default
  <2>5. \A f : IsSaidList(cfg[f], f) => IsSaidList(cfg[f], f)'
    BY <2>1, <2>3 DEF IsSaidList
  <2>6. SaidLabels' = SaidLabels
    BY <2>1, <2>3 DEF SaidLabels, Last
  <2>7. SaidPorts' = SaidPorts
    BY <2>1, <2>3 DEF SaidPorts
  <2>8. Published(cfg["ports"])' = Published(cfg["ports"])
    BY <2>1 DEF Published
  <2> QED BY <2>1, <2>2, <2>4, <2>5, <2>6, <2>7, <2>8 DEF Folded
<1> QED BY <1>1, <1>2 DEF Inv

LEMMA Step ==
  ASSUME Inv, [Next]_vars
  PROVE  Inv'
<1>1. ASSUME NEW o \in Options(kind), AddOption(o) PROVE Inv'
  <2>1. kind' = kind /\ pc' = pc /\ via' = via /\ pc = "build"
    BY <1>1 DEF AddOption
  <2>2. opts' \in Seq(Options(kind)') /\ Len(opts') <= MaxOpts
    <3>1. opts' \in Seq(Options(kind)) /\ Len(opts') <= MaxOpts
      BY <1>1, OptionsGrow
    <3>2. Options(kind)' = Options(kind)
      BY <2>1 DEF Options, Sets, Flags, Lists, Mounts, Option
    <3> QED BY <3>1, <3>2
  <2>3. Folded'
    BY <1>1, Folds
  <2>4. Followed'
    BY <2>1 DEF Followed
  <2>5. kind \in Kinds /\ via \in {"get", "list"}
    BY DEF Inv
  <2> QED BY <2>1, <2>2, <2>3, <2>4, <2>5 DEF Inv
<1>2. CASE Send
  <2>1. UNCHANGED <<kind, opts, cfg>> /\ pc' = "sent" /\ via' = via
        /\ sent' = Request(kind, cfg)
    BY <1>2 DEF Send
  <2>2. Followed'
    BY <2>1 DEF Followed
  <2> QED BY <2>1, <2>2, FoldedStays DEF Inv
<1>3. CASE Create
  <2>1. /\ UNCHANGED <<kind, opts, cfg>> /\ pc = "sent" /\ pc' = "made" /\ via' = via
        /\ sent' = sent /\ kind \in Made /\ made' = EngineObject(kind, sent)
    BY <1>3 DEF Create
  <2>2. sent = Request(kind, cfg)
    BY <2>1 DEF Inv, Followed
  <2>3. Followed'
    BY <2>1, <2>2 DEF Followed
  <2> QED BY <2>1, <2>3, FoldedStays DEF Inv
<1>4. CASE CreateAgain
  <2>1. /\ UNCHANGED <<kind, opts, cfg, sent, made, got, via>>
        /\ pc = "read" /\ kind = "create" /\ pc' = "cloned"
        /\ twin' = EngineContainer(StoreRequest(got))
    BY <1>4 DEF CreateAgain
  <2>2. /\ sent = Request(kind, cfg) /\ kind \in Made
        /\ made = EngineObject(kind, sent) /\ got = Shown(kind, made, via)
    BY <2>1 DEF Inv, Followed
  <2>3. Followed'
    BY <2>1, <2>2 DEF Followed
  <2> QED BY <2>1, <2>3, FoldedStays DEF Inv
<1>5. ASSUME NEW v \in {"get", "list"}, ReadBack(v) PROVE Inv'
  <2>1. /\ UNCHANGED <<kind, opts, cfg, sent, made, twin>>
        /\ pc \in {"made", "read"} /\ pc' = "read"
        /\ got' = Shown(kind, made, v) /\ via' = v
    BY <1>5 DEF ReadBack
  <2>2. sent = Request(kind, cfg) /\ kind \in Made /\ made = EngineObject(kind, sent)
    BY <2>1 DEF Inv, Followed
  <2>3. Followed'
    BY <2>1, <2>2 DEF Followed
  <2> QED BY <2>1, <2>3, FoldedStays DEF Inv
<1>6. CASE UNCHANGED vars
  <2>1. UNCHANGED <<kind, opts, cfg, pc, sent, made, got, via, twin>>
    BY <1>6 DEF vars
  <2>2. Followed'
    BY <2>1 DEF Inv, Followed
  <2> QED BY <2>1, <2>2, FoldedStays DEF Inv
<1> QED BY <1>1, <1>2, <1>3, <1>4, <1>5, <1>6 DEF Next

\* What every stage of a call is made of, from the options to the clone.
THEOREM Inductive == Spec => []Inv
<1>1. Init => Inv
  BY Initial
<1>2. Inv /\ [Next]_vars => Inv'
  BY Step
<1> QED BY <1>1, <1>2, PTL DEF Spec

--------------------------------------------------------------------------------
(***************************************************************************)
(* What follows: types.                                                    *)
(***************************************************************************)
\* The flags start unset.
LEMMA FlagDefault ==
  ASSUME NEW k \in Kinds, NEW f \in Flags(k)
  PROVE  Default(k, f) = None
<1>1. <<k, f>> \in FlagsOf
  BY DEF Flags, FlagsOf
<1>2. f \notin Collections \cup {"timeout", "signal"}
  BY <1>1 DEF FlagsOf, Collections
<1> QED BY <1>2 DEF Default

\* What is said of a field is its default, or the value of an option about it.
LEMMA SaidIs ==
  ASSUME Inv, NEW f
  PROVE  \/ Said(f) = Default(kind, f)
         \/ \E o \in Options(kind) : o.field = f /\ Said(f) = o.val
<1>1. CASE About(f) = {}
  BY <1>1 DEF Said, Last
<1>2. CASE About(f) # {}
  <2>1. Len(opts) \in Nat /\ DOMAIN opts = 1..Len(opts)
        /\ \A i \in 1..Len(opts) : opts[i] \in Options(kind)
    BY DEF Inv
  <2>2. About(f) \subseteq 1..Len(opts)
    BY <2>1 DEF About
  <2>3. Max(About(f)) \in About(f)
    BY <1>2, <2>1, <2>2, MaxIsIn
  <2>4. opts[Max(About(f))] \in Options(kind) /\ opts[Max(About(f))].field = f
    BY <2>1, <2>2, <2>3 DEF About
  <2> QED BY <1>2, <2>4 DEF Said, Last
<1> QED BY <1>1, <1>2

\* What is left of a configuration in a request of each form.
LEMMA RequestDomains ==
  ASSUME NEW c
  PROVE  /\ DOMAIN ToAPIRequest(c) \subseteq DOMAIN c \cup {"endpoints"}
         /\ DOMAIN NetworkRequest(c) \subseteq DOMAIN c
         /\ DOMAIN ExecRequest(c)
              \subseteq (DOMAIN c \ {"detach"}) \cup {"attachStdout", "attachStderr"}
         /\ DOMAIN LogsRequest(c) \subseteq (DOMAIN c \ {"tty"}) \cup {"stdout", "stderr"}
         /\ \A k : DOMAIN LifecycleRequest(k, c) \subseteq DOMAIN c
<1>1. \A d : DOMAIN Kept(d) \subseteq DOMAIN d
  BY DEF Kept
<1>2. \A m, k, v : DOMAIN Put(m, k, v) = DOMAIN m \cup {k}
  BY DEF Put
<1>3. DOMAIN ToAPIRequest(c) \subseteq DOMAIN c \cup {"endpoints"}
  <2>1. CASE Zero(c, "network")
    <3>1. ToAPIRequest(c) = Kept(c)
      BY <2>1 DEF ToAPIRequest
    <3> QED BY <1>1, <3>1
  <2>2. CASE ~Zero(c, "network")
    <3>1. ToAPIRequest(c) = Put(Kept(c), "endpoints", {c.network})
      BY <2>2 DEF ToAPIRequest
    <3>2. DOMAIN ToAPIRequest(c) = DOMAIN Kept(c) \cup {"endpoints"}
      BY <1>2, <3>1
    <3> QED BY <1>1, <3>2
  <2> QED BY <2>1, <2>2
<1>4. DOMAIN NetworkRequest(c) \subseteq DOMAIN c
  <2>1. CASE Zero(c, "subnet")
    <3>1. PICK w : w = Without(c, {"gateway"})
      OBVIOUS
    <3>2. DOMAIN w \subseteq DOMAIN c
      BY <3>1 DEF Without
    <3>3. NetworkRequest(c) = Kept(w)
      BY <2>1, <3>1 DEF NetworkRequest
    <3> QED BY <1>1, <3>2, <3>3
  <2>2. CASE ~Zero(c, "subnet")
    <3>1. NetworkRequest(c) = Kept(c)
      BY <2>2 DEF NetworkRequest
    <3> QED BY <1>1, <3>1
  <2> QED BY <2>1, <2>2
<1>5. DOMAIN ExecRequest(c)
        \subseteq (DOMAIN c \ {"detach"}) \cup {"attachStdout", "attachStderr"}
  <2>1. PICK w : w = Without(c, {"detach"})
    OBVIOUS
  <2>2. PICK m : m = Put(Kept(w), "attachStdout", "true")
    OBVIOUS
  <2>3. ExecRequest(c) = Put(m, "attachStderr", "true")
    BY <2>1, <2>2 DEF ExecRequest
  <2>4. DOMAIN w = DOMAIN c \ {"detach"}
    BY <2>1 DEF Without
  <2>5. DOMAIN m = DOMAIN Kept(w) \cup {"attachStdout"}
    BY <1>2, <2>2
  <2>6. DOMAIN ExecRequest(c) = DOMAIN m \cup {"attachStderr"}
    BY <1>2, <2>3
  <2> QED BY <1>1, <2>4, <2>5, <2>6
<1>6. DOMAIN LogsRequest(c) \subseteq (DOMAIN c \ {"tty"}) \cup {"stdout", "stderr"}
  <2>1. PICK w : w = Without(c, {"tty"})
    OBVIOUS
  <2>2. PICK m : m = Put(Kept(w), "stdout", "true")
    OBVIOUS
  <2>3. LogsRequest(c) = Put(m, "stderr", "true")
    BY <2>1, <2>2 DEF LogsRequest
  <2>4. DOMAIN w = DOMAIN c \ {"tty"}
    BY <2>1 DEF Without
  <2>5. DOMAIN m = DOMAIN Kept(w) \cup {"stdout"}
    BY <1>2, <2>2
  <2>6. DOMAIN LogsRequest(c) = DOMAIN m \cup {"stderr"}
    BY <1>2, <2>3
  <2> QED BY <1>1, <2>4, <2>5, <2>6
<1>7. ASSUME NEW k PROVE DOMAIN LifecycleRequest(k, c) \subseteq DOMAIN c
  <2>1. LifecycleRequest(k, c) = c \/ LifecycleRequest(k, c) = Kept(c)
    BY DEF LifecycleRequest
  <2> QED BY <1>1, <2>1
<1> QED BY <1>3, <1>4, <1>5, <1>6, <1>7

\* A request carries nothing that its type has no place for.
LEMMA SentOnWire ==
  ASSUME Inv, pc # "build"
  PROVE  DOMAIN sent \subseteq Wire(kind)
<1>1. sent = Request(kind, cfg) /\ DOMAIN cfg = Fields(kind)
  BY DEF Inv, Followed, Folded
<1>2. PICK c : c = cfg
  OBVIOUS
<1>3. CASE kind = "create"
  <2>1. sent = ToAPIRequest(c)
    BY <1>1, <1>2, <1>3 DEF Request
  <2>2. DOMAIN sent \subseteq Fields(kind) \cup {"endpoints"}
    BY <1>1, <1>2, <2>1, RequestDomains
  <2> QED BY <1>3, <2>2 DEF Wire
<1>4. CASE kind = "network"
  <2>1. sent = NetworkRequest(c)
    BY <1>1, <1>2, <1>4 DEF Request
  <2>2. DOMAIN sent \subseteq Fields(kind)
    BY <1>1, <1>2, <2>1, RequestDomains
  <2> QED BY <1>4, <2>2 DEF Wire
<1>5. CASE kind = "exec"
  <2>1. sent = ExecRequest(c)
    BY <1>1, <1>2, <1>5 DEF Request
  <2>2. Fields(kind) \subseteq {"tty", "attachStdin", "detach"}
    BY <1>5 DEF Fields, Sets, SetsOf, CallSets, ImageSets, NetworkSets, VolumeSets,
                 Flags, FlagsOf, Lists, Maps, Made
  <2>3. DOMAIN sent \subseteq (Fields(kind) \ {"detach"}) \cup {"attachStdout", "attachStderr"}
    BY <1>1, <1>2, <2>1, RequestDomains
  <2> QED BY <1>5, <2>2, <2>3 DEF Wire
<1>6. CASE kind = "logs"
  <2>1. sent = LogsRequest(c)
    BY <1>1, <1>2, <1>6 DEF Request
  <2>2. Fields(kind) \subseteq {"tail", "since", "follow", "tty"}
    BY <1>6 DEF Fields, Sets, SetsOf, CallSets, ImageSets, NetworkSets, VolumeSets,
                 Flags, FlagsOf, Lists, Maps, Made
  <2>3. DOMAIN sent \subseteq (Fields(kind) \ {"tty"}) \cup {"stdout", "stderr"}
    BY <1>1, <1>2, <2>1, RequestDomains
  <2> QED BY <1>6, <2>2, <2>3 DEF Wire
<1>7. CASE kind \notin {"create", "network", "exec", "logs"}
  <2>1. sent = LifecycleRequest(kind, c)
    BY <1>1, <1>2, <1>7 DEF Request
  <2>2. DOMAIN sent \subseteq Fields(kind)
    BY <1>1, <1>2, <2>1, RequestDomains
  <2> QED BY <1>7, <2>2 DEF Wire
<1> QED BY <1>3, <1>4, <1>5, <1>6, <1>7

\* Every configuration and request is well typed, however many options there
\* are and in whatever order (container_opts.go, api/types.go).
THEOREM TypeCorrect == Spec => []TypeOK
<1>1. ASSUME Inv PROVE TypeOK
  <2>1. /\ kind \in Kinds /\ pc \in {"build", "sent", "made", "read", "cloned"}
        /\ Len(opts) <= MaxOpts /\ DOMAIN cfg = Fields(kind) /\ via \in {"get", "list"}
    BY <1>1 DEF Inv, Folded
  <2>2. \A f \in Lists(kind) : cfg[f] \in Seq(Vals \cup Mounts)
    BY <1>1 DEF Inv, Folded
  <2>3. ASSUME NEW f \in Sets(kind) PROVE cfg[f] \in Vals \cup {Default(kind, f), None}
    <3>1. cfg[f] = Said(f)
      BY <1>1 DEF Inv, Folded
    <3>2. \A o \in Options(kind) : o.field = f => o.val \in Vals \cup {None}
      BY <2>1, OptionForms
    <3> QED BY <1>1, <3>1, <3>2, SaidIs
  <2>4. ASSUME NEW f \in Flags(kind) PROVE cfg[f] \in {None, "true"}
    <3>1. cfg[f] = Said(f)
      BY <1>1 DEF Inv, Folded
    <3>2. \A o \in Options(kind) : o.field = f => o.val = "true"
      BY <2>1, OptionForms
    <3> QED BY <1>1, <2>1, <3>1, <3>2, SaidIs, FlagDefault
  <2>5. pc # "build" => DOMAIN sent \subseteq Wire(kind)
    BY <1>1, SentOnWire
  <2> QED BY <2>1, <2>2, <2>3, <2>4, <2>5 DEF TypeOK
<1> QED BY <1>1, Inductive, PTL

--------------------------------------------------------------------------------
(***************************************************************************)
(* What follows: what is read is what was said.                            *)
(***************************************************************************)
\* A field of a container reaches the engine as it is in the configuration; an
\* empty collection is left out and stands for itself.
LEMMA GivenAsKept ==
  ASSUME Inv, kind = "create", NEW f \in Fields(kind)
  PROVE  /\ f \notin Collections => Given(ToAPIRequest(cfg), f, None) = cfg[f]
         /\ f \in Collections =>
              Given(ToAPIRequest(cfg), f, <<>>) = IF DOMAIN cfg[f] = {} THEN <<>> ELSE cfg[f]
<1>1. f \in DOMAIN cfg /\ f # "endpoints"
  BY Apart DEF Inv, Folded
<1>2. PICK c : c = cfg
  OBVIOUS
<1>3. Kept(c) = [g \in {h \in DOMAIN c : ~Zero(c, h)} |-> c[g]]
  BY DEF Kept
<1>4. f \in DOMAIN Kept(c) <=> ~Zero(c, f)
  BY <1>1, <1>2, <1>3
<1>5. f \in DOMAIN Kept(c) => Kept(c)[f] = c[f]
  BY <1>3
<1>6. /\ f \in DOMAIN ToAPIRequest(c) <=> ~Zero(c, f)
      /\ f \in DOMAIN ToAPIRequest(c) => ToAPIRequest(c)[f] = c[f]
  BY <1>1, <1>4, <1>5 DEF ToAPIRequest, Put
<1>7. f \notin Collections => Given(ToAPIRequest(c), f, None) = c[f]
  BY <1>6 DEF Given, Zero
<1>8. f \in Collections =>
        Given(ToAPIRequest(c), f, <<>>) = IF DOMAIN c[f] = {} THEN <<>> ELSE c[f]
  BY <1>6 DEF Given, Zero
<1> QED BY <1>2, <1>7, <1>8

\* The sort of the fields of a container that the records are about.
LEMMA CreateFields ==
  /\ Process \cup HostSets \subseteq Sets("create") /\ "tty" \in Flags("create")
  /\ {"env", "labels", "ports"} \subseteq Fields("create")
  /\ Process \cup {"tty"} \subseteq Fields("create") \ Collections
<1>1. \A f \in Process \cup HostSets : <<"create", f>> \in SetsOf
  BY DEF SetsOf
<1>2. Process \cup HostSets \subseteq Sets("create")
  <2>1. ASSUME NEW f \in Process \cup HostSets PROVE f \in Sets("create")
    <3>1. PICK x : x = <<"create", f>>
      OBVIOUS
    <3>2. x \in SetsOf /\ x[1] = "create" /\ x[2] = f
      BY <1>1, <3>1
    <3>3. Sets("create") = {y[2] : y \in {z \in SetsOf : z[1] = "create"}}
      BY DEF Sets
    <3> HIDE <3>1
    <3> QED BY <3>2, <3>3
  <2> QED BY <2>1
<1>3. <<"create", "tty">> \in FlagsOf
  BY DEF FlagsOf
<1>4. "tty" \in Flags("create")
  BY <1>3 DEF Flags
<1>5. {"env", "labels", "ports"} \subseteq Fields("create")
  BY DEF Fields, Lists, Maps, Made
<1>6. Process \cup {"tty"} \subseteq Fields("create") \ Collections
  BY <1>2, <1>4 DEF Fields, Process, Collections
<1> QED BY <1>2, <1>4, <1>5, <1>6

\* Labels that are none are the empty map.
LEMMA NoLabels == DOMAIN SaidLabels = {} => SaidLabels = <<>>
<1>1. PICK D : D = {opts[i].key : i \in About("labels")}
  OBVIOUS
<1>2. SaidLabels = [k \in D |->
                     Last({i \in About("labels") : opts[i].key = k}, None)]
  BY <1>1 DEF SaidLabels
<1>3. DOMAIN SaidLabels = D
  BY <1>2
<1>4. D = {} => SaidLabels = <<>>
  BY <1>2
<1> QED BY <1>3, <1>4

\* A container is what the options said.
LEMMA CreatedAsSaid ==
  ASSUME Inv, kind = "create", pc \in {"made", "read", "cloned"}
  PROVE  /\ made = EngineContainer(sent)
         /\ \A f \in Process \cup {"tty"} : made.config[f] = Said(f)
         /\ made.config["env"] = cfg["env"] /\ IsSaidList(made.config["env"], "env")
         /\ made.config["labels"] = SaidLabels
         /\ made.ports = {Binding(x) : x \in SaidPorts}
<1>1. /\ made = EngineContainer(sent) /\ sent = ToAPIRequest(cfg) /\ Folded
      /\ DOMAIN cfg = Fields(kind)
  BY DEF Inv, Folded, Followed, EngineObject, Request
<1>2. PICK r : r = sent
  OBVIOUS
<1>3. /\ made.config = [f \in Process \cup {"tty", "env", "labels"} |->
                          Given(r, f, IF f \in Collections THEN <<>> ELSE None)]
      /\ made.ports = Bindings(r)
  BY <1>1, <1>2 DEF EngineContainer
<1>4. /\ \A f \in Process \cup {"tty"} : made.config[f] = Given(r, f, None)
      /\ made.config["env"] = Given(r, "env", <<>>)
      /\ made.config["labels"] = Given(r, "labels", <<>>)
  BY <1>3 DEF Process, Collections
<1>5. ASSUME NEW f \in Process \cup {"tty"} PROVE made.config[f] = Said(f)
  <2>1. f \in Sets(kind) \cup Flags(kind) /\ f \in Fields(kind) /\ f \notin Collections
    BY CreateFields
  <2>2. Given(r, f, None) = cfg[f]
    BY <1>1, <1>2, <2>1, GivenAsKept
  <2> QED BY <1>1, <1>4, <2>1, <2>2 DEF Folded
<1>6. made.config["env"] = cfg["env"] /\ IsSaidList(cfg["env"], "env")
  <2>1. "env" \in Lists(kind) /\ "env" \in Fields(kind) /\ "env" \in Collections
    BY DEF Lists, Fields, Collections
  <2>2. cfg["env"] \in Seq(Vals \cup Mounts) /\ IsSaidList(cfg["env"], "env")
    BY <1>1, <2>1 DEF Folded
  <2>3. Given(r, "env", <<>>) = IF DOMAIN cfg["env"] = {} THEN <<>> ELSE cfg["env"]
    BY <1>1, <1>2, <2>1, GivenAsKept
  <2>4. DOMAIN cfg["env"] = {} => cfg["env"] = <<>>
    BY <2>2
  <2> QED BY <1>4, <2>2, <2>3, <2>4
<1>7. IsSaidList(made.config["env"], "env")
  BY <1>6
<1>8. made.config["labels"] = SaidLabels
  <2>1. kind \in Made /\ "labels" \in Fields(kind) /\ "labels" \in Collections
    BY DEF Made, Maps, Fields, Collections
  <2>2. cfg["labels"] = SaidLabels
    BY <1>1, <2>1 DEF Folded
  <2>3. Given(r, "labels", <<>>) = IF DOMAIN cfg["labels"] = {} THEN <<>> ELSE cfg["labels"]
    BY <1>1, <1>2, <2>1, GivenAsKept
  <2>4. DOMAIN SaidLabels = {} => SaidLabels = <<>>
    BY NoLabels
  <2> QED BY <1>4, <2>2, <2>3, <2>4
<1>9. made.ports = {Binding(x) : x \in SaidPorts}
  <2>1. "ports" \in Fields(kind) /\ "ports" \in Collections
    BY DEF Maps, Fields, Collections
  <2>2. Published(cfg["ports"]) = SaidPorts
    BY <1>1 DEF Folded
  <2>3. Given(r, "ports", <<>>) = IF DOMAIN cfg["ports"] = {} THEN <<>> ELSE cfg["ports"]
    BY <1>1, <1>2, <2>1, GivenAsKept
  <2>4. DOMAIN cfg["ports"] = {} => Published(cfg["ports"]) = {}
    BY DEF Published
  <2>5. Published(<<>>) = {}
    BY DEF Published
  <2>6. Published(Given(r, "ports", <<>>)) = SaidPorts
    BY <2>2, <2>3, <2>4, <2>5
  <2> QED BY <1>3, <2>6 DEF Bindings
<1> QED BY <1>1, <1>5, <1>6, <1>7, <1>8, <1>9

\* What Get and Inspect return of a container is what the options said, for
\* options of any number, in any order (container_opts.go:36-205,
\* container.go:353-393).
THEOREM GetReturnsWhatWasSaid == Spec => []GetsWhatWasSaid
<1>1. ASSUME Inv PROVE GetsWhatWasSaid
  <2>1. SUFFICES ASSUME kind = "create", pc = "read", via = "get"
                 PROVE  /\ got.image = Said("image")
                        /\ \A f \in DOMAIN got.config \ {"env"} : got.config[f] = Said(f)
                        /\ IsSaidList(got.config.env, "env")
                        /\ got.labels = SaidLabels
    BY DEF GetsWhatWasSaid
  <2>2. got = ConvertContainer(made)
    BY <1>1, <2>1 DEF Inv, Followed, Shown
  <2>3. /\ got.image = made.config["image"] /\ got.labels = made.config["labels"]
        /\ got.config = [f \in ProcessFields |-> made.config[f]]
    BY <2>2 DEF ConvertContainer, ProcessConfig
  <2>4. /\ \A f \in Process \cup {"tty"} : made.config[f] = Said(f)
        /\ IsSaidList(made.config["env"], "env") /\ made.config["labels"] = SaidLabels
    BY <1>1, <2>1, CreatedAsSaid
  <2>5. /\ ProcessFields \ {"env"} \subseteq Process \cup {"tty"}
        /\ "env" \in ProcessFields /\ "image" \in Process
    BY DEF ProcessFields, Process
  <2>6. got.image = Said("image")
    BY <2>3, <2>4, <2>5
  <2>7. \A f \in DOMAIN got.config \ {"env"} : got.config[f] = Said(f)
    BY <2>3, <2>4, <2>5
  <2>8. got.config.env = made.config["env"]
    BY <2>3, <2>5
  <2>9. IsSaidList(got.config.env, "env")
    BY <2>4, <2>8
  <2> QED BY <2>3, <2>4, <2>6, <2>7, <2>9
<1> QED BY <1>1, Inductive, PTL

LEMMA PortRangeIsNat == PortRange \in Nat /\ PortRange > 0
BY DEF PortRange

\* Narrowing to 16 bits loses nothing of a port.
LEMMA PortsFit ==
  ASSUME NEW n \in 0..(PortRange - 1)
  PROVE  Narrow(n) = n
<1>1. \A p \in Nat : n \in 0..(p - 1) => n % p = n
  OBVIOUS
<1> QED BY <1>1, PortRangeIsNat DEF Narrow

\* The ports that are said are ports.
LEMMA SaidPortsTyped ==
  ASSUME Inv, kind = "create", NEW x \in SaidPorts
  PROVE  x[1] \in Ports /\ x[2] \in Ports
<1>1. PICK i \in About("ports") : x = <<opts[i].key, opts[i].val>>
  BY DEF SaidPorts
<1>2. opts[i] \in Options(kind) /\ opts[i].field = "ports"
  BY <1>1 DEF About, Inv
<1>3. PICK o : o = opts[i]
  OBVIOUS
<1>4. o \in Options(kind) /\ o.field = "ports"
  BY <1>2, <1>3
<1>5. o.val \in Ports
  BY <1>4, OptionForms DEF Inv
<1>6. o.key \in Ports
  <2>1. kind \in Kinds /\ "ports" \notin Sets(kind) \cup Flags(kind) \cup Lists(kind)
    BY Apart DEF Inv, Collections, Lists
  <2> QED BY <1>4, <2>1 DEF Options, Option
<1> QED BY <1>1, <1>3, <1>5, <1>6

\* Every port that was published is listed with its host port, each once, also
\* when a container port has several (container_opts.go:135-147,
\* store.go:138-145).
THEOREM ListShowsPublished == Spec => []ListsPublished
<1>1. ASSUME Inv PROVE ListsPublished
  <2>1. SUFFICES ASSUME kind = "create", pc = "read", via = "list"
                 PROVE  got.ports = {[container |-> p[1],
                                      host |-> IF p[2] = 0 THEN Assigned ELSE p[2]] :
                                       p \in SaidPorts}
    BY DEF ListsPublished
  <2> DEFINE Shows(p) == [container |-> Narrow(p.container), host |-> Narrow(p.host)]
             Listed(x) == [container |-> x[1], host |-> IF x[2] = 0 THEN Assigned ELSE x[2]]
  <2>2. got = ConvertSummary(made)
    BY <1>1, <2>1 DEF Inv, Followed, Shown
  <2>3. made.ports = {Binding(x) : x \in SaidPorts}
    BY <1>1, <2>1, CreatedAsSaid
  <2>4. got.ports = {Shows(p) : p \in made.ports}
    BY <2>2 DEF ConvertSummary
  <2>5. ASSUME NEW x \in SaidPorts
        PROVE  Shows(Binding(x)) = Listed(x)
    <3>1. x[1] \in 0..(PortRange - 1) /\ x[2] \in 0..(PortRange - 1)
      BY <1>1, <2>1, SaidPortsTyped, RecordsAssumption
    <3>2. Assigned \in 0..(PortRange - 1)
      BY PortRangeIsNat, RecordsAssumption
    <3>3. Binding(x).container = x[1]
          /\ Binding(x).host = IF x[2] = 0 THEN Assigned ELSE x[2]
      BY DEF Binding
    <3>4. Narrow(Binding(x).container) = x[1]
      BY <3>1, <3>3, PortsFit
    <3>5. Narrow(Binding(x).host) = IF x[2] = 0 THEN Assigned ELSE x[2]
      <4>1. Binding(x).host \in 0..(PortRange - 1)
        BY <3>1, <3>2, <3>3
      <4>2. Narrow(Binding(x).host) = Binding(x).host
        BY <4>1, PortsFit
      <4> QED BY <3>3, <4>2
    <3> QED BY <3>4, <3>5
  <2>6. got.ports = {Listed(x) : x \in SaidPorts}
    <3> HIDE DEF Shows, Listed
    <3> QED BY <2>3, <2>4, <2>5
  <2> QED BY <2>6
<1> QED BY <1>1, Inductive, PTL

\* A container is attached to the network named last, and to no other, however
\* often options named one (container_opts.go:62-73).
THEOREM LastNetworkWins == Spec => []OneNetwork
<1>1. ASSUME Inv PROVE OneNetwork
  <2>1. SUFFICES ASSUME kind = "create", pc # "build"
                 PROVE  IF Said("network") = None
                        THEN {"network", "endpoints"} \cap DOMAIN sent = {}
                        ELSE /\ {"network", "endpoints"} \subseteq DOMAIN sent
                             /\ sent.network = Said("network")
                             /\ sent.endpoints = {Said("network")}
    BY DEF OneNetwork
  <2>2. sent = ToAPIRequest(cfg) /\ DOMAIN cfg = Fields(kind)
    BY <1>1, <2>1 DEF Inv, Folded, Followed, Request
  <2>3. "network" \in Sets(kind)
    BY <2>1, CreateFields DEF HostSets
  <2>4. cfg["network"] = Said("network") /\ "network" \in DOMAIN cfg
    BY <1>1, <2>2, <2>3 DEF Inv, Folded, Fields
  <2>5. "endpoints" \notin DOMAIN cfg
    BY <1>1, <2>2, Apart DEF Inv
  <2>6. PICK c : c = cfg
    OBVIOUS
  <2>7. Zero(c, "network") <=> c["network"] = None
    BY DEF Zero, Collections
  <2>8. /\ DOMAIN Kept(c) = {g \in DOMAIN c : ~Zero(c, g)}
        /\ \A g \in DOMAIN Kept(c) : Kept(c)[g] = c[g]
    BY DEF Kept
  <2>9. CASE Zero(c, "network")
    <3>1. sent = Kept(c)
      BY <2>2, <2>6, <2>9 DEF ToAPIRequest
    <3>2. {"network", "endpoints"} \cap DOMAIN sent = {}
      BY <2>5, <2>6, <2>8, <2>9, <3>1
    <3> QED BY <2>4, <2>6, <2>7, <2>9, <3>2
  <2>10. CASE ~Zero(c, "network")
    <3>1. sent = Put(Kept(c), "endpoints", {c["network"]})
      BY <2>2, <2>6, <2>10 DEF ToAPIRequest
    <3>2. PICK m : m = Kept(c)
      OBVIOUS
    <3>3. "network" \in DOMAIN m /\ m["network"] = c["network"]
      BY <2>4, <2>6, <2>8, <2>10, <3>2
    <3>4. sent = [x \in DOMAIN m \cup {"endpoints"} |->
                    IF x = "endpoints" THEN {c["network"]} ELSE m[x]]
      BY <3>1, <3>2 DEF Put
    <3>5. {"network", "endpoints"} \subseteq DOMAIN sent
      BY <3>3, <3>4
    <3>6. sent["network"] = c["network"] /\ sent["endpoints"] = {c["network"]}
      BY <3>3, <3>4
    <3> QED BY <2>4, <2>6, <2>7, <2>10, <3>5, <3>6
  <2> QED BY <2>9, <2>10
<1> QED BY <1>1, Inductive, PTL

\* The store's request for a container that Get returned gives every field of
\* its process as it was.
LEMMA StoredAsGot ==
  ASSUME NEW c, c.config = [f \in ProcessFields |-> c.config[f]],
         NEW f \in Process \cup {"tty", "env", "labels"}
  PROVE  LET v == IF f = "image" THEN c.image
                  ELSE IF f = "labels" THEN c.labels ELSE c.config[f]
         IN  Given(StoreRequest(c), f, IF f \in Collections THEN <<>> ELSE None)
               = IF f \in Collections THEN IF DOMAIN v = {} THEN <<>> ELSE v ELSE v
<1> DEFINE v == IF f = "image" THEN c.image
                ELSE IF f = "labels" THEN c.labels ELSE c.config[f]
<1>1. PICK m : m = Put(Put(c.config, "image", c.image), "labels", c.labels)
  OBVIOUS
<1>2. PICK w : w = Put(c.config, "image", c.image)
  OBVIOUS
<1>3. DOMAIN c.config = ProcessFields
  BY Zenon
<1>4. w = [x \in ProcessFields \cup {"image"} |->
             IF x = "image" THEN c.image ELSE c.config[x]]
  BY <1>2, <1>3 DEF Put
<1>5. m = [x \in DOMAIN w \cup {"labels"} |-> IF x = "labels" THEN c.labels ELSE w[x]]
  BY <1>1, <1>2 DEF Put
<1>6. f \in ProcessFields \cup {"image", "labels"}
  BY DEF Process, ProcessFields
<1>7. f \in DOMAIN m /\ m[f] = v
  BY <1>4, <1>5, <1>6
<1> HIDE DEF v
<1>8. StoreRequest(c) = Kept(m)
  BY <1>1 DEF StoreRequest
<1>9. /\ f \in DOMAIN Kept(m) <=> ~Zero(m, f)
      /\ f \in DOMAIN Kept(m) => Kept(m)[f] = v
  BY <1>7 DEF Kept
<1>10. Zero(m, f) <=> IF f \in Collections THEN DOMAIN v = {} ELSE v = None
  BY <1>7 DEF Zero
<1>11. Given(Kept(m), f, IF f \in Collections THEN <<>> ELSE None)
         = IF f \in Collections THEN IF DOMAIN v = {} THEN <<>> ELSE v ELSE v
  BY <1>9, <1>10 DEF Given
<1> QED BY <1>8, <1>11 DEF v

\* A container that was read by Get and created again through the store runs
\* the same process with the same labels (store.go:56-92).
THEOREM CloneIsFaithful == Spec => []CloneRunsSame
<1>1. ASSUME Inv PROVE CloneRunsSame
  <2>1. SUFFICES ASSUME pc = "cloned", via = "get" PROVE twin.config = made.config
    BY DEF CloneRunsSame
  <2>2. /\ kind = "create" /\ twin = EngineContainer(StoreRequest(got))
        /\ got = ConvertContainer(made)
    BY <1>1, <2>1 DEF Inv, Followed, Shown
  <2> DEFINE Shared == Process \cup {"tty", "env", "labels"}
  <2>3. made = EngineContainer(sent) /\ made.config["env"] = cfg["env"]
        /\ made.config["labels"] = SaidLabels
    BY <1>1, <2>1, <2>2, CreatedAsSaid
  <2>4. made.config = [f \in Shared |-> made.config[f]]
    <3>1. PICK r : r = sent
      OBVIOUS
    <3>2. made.config = [f \in Shared |->
                           Given(r, f, IF f \in Collections THEN <<>> ELSE None)]
      BY <2>3, <3>1 DEF EngineContainer
    <3> QED BY <3>2
  <2>5. PICK g : g = got
    OBVIOUS
  <2>6. /\ g.config = [f \in ProcessFields |-> made.config[f]]
        /\ g.image = made.config["image"] /\ g.labels = made.config["labels"]
    BY <2>2, <2>5 DEF ConvertContainer, ProcessConfig
  <2>7. twin.config = [f \in Shared |->
          Given(StoreRequest(g), f, IF f \in Collections THEN <<>> ELSE None)]
    BY <2>2, <2>5 DEF EngineContainer
  <2>8. made.config["env"] \in Seq(Vals \cup Mounts)
    BY <1>1, <2>2, <2>3 DEF Inv, Folded, Lists
  <2>9. ASSUME NEW f \in Shared
        PROVE  Given(StoreRequest(g), f, IF f \in Collections THEN <<>> ELSE None)
                 = made.config[f]
    <3>1. PICK v : v = IF f = "image" THEN g.image
                       ELSE IF f = "labels" THEN g.labels ELSE g.config[f]
      OBVIOUS
    <3>2. Given(StoreRequest(g), f, IF f \in Collections THEN <<>> ELSE None)
            = IF f \in Collections THEN IF DOMAIN v = {} THEN <<>> ELSE v ELSE v
      <4>1. g.config = [x \in ProcessFields |-> g.config[x]]
        BY <2>6
      <4> QED BY <3>1, <4>1, StoredAsGot
    <3>3. v = made.config[f]
      BY <2>6, <3>1 DEF Process, ProcessFields
    <3>4. f \in Collections /\ DOMAIN v = {} => v = <<>>
      <4>1. SUFFICES ASSUME f \in Collections, DOMAIN v = {} PROVE v = <<>>
        OBVIOUS
      <4>2. CASE f = "env"
        <5>1. v \in Seq(Vals \cup Mounts)
          BY <2>8, <3>3, <4>2
        <5> QED BY <4>1, <5>1
      <4>3. CASE f = "labels"
        <5>1. v = SaidLabels
          BY <2>3, <3>3, <4>3
        <5> QED BY <4>1, <5>1, NoLabels
      <4> QED BY <4>1, <4>2, <4>3 DEF Process, Collections
    <3> QED BY <3>2, <3>3, <3>4
  <2> HIDE DEF Shared
  <2> QED BY <2>4, <2>7, <2>9
<1> QED BY <1>1, Inductive, PTL

\* A network reads back with the labels and the subnet that were said, and with
\* a subnet the gateway (network_ops.go:19-27, 147-162).
THEOREM NetworkIsRead == Spec => []NetworkReadsBack
<1>1. ASSUME Inv PROVE NetworkReadsBack
  <2>1. SUFFICES ASSUME kind = "network", pc = "read"
                 PROVE  /\ got.subnet = Said("subnet") /\ got.labels = SaidLabels
                        /\ Said("subnet") # None => got.gateway = Said("gateway")
    BY DEF NetworkReadsBack
  <2>2. PICK r : r = sent
    OBVIOUS
  <2>3. PICK c : c = cfg
    OBVIOUS
  <2>4. got = ConvertNetwork(r) /\ r = NetworkRequest(c) /\ DOMAIN c = Fields(kind)
    BY <1>1, <2>1, <2>2, <2>3 DEF Inv, Folded, Followed, Shown, EngineObject, Request
  <2>5. /\ got.labels = Given(r, "labels", <<>>) /\ got.subnet = Given(r, "subnet", None)
        /\ got.gateway = Given(r, "gateway", None)
    BY <2>4 DEF ConvertNetwork
  <2>6. "subnet" \in Sets(kind) /\ "gateway" \in Sets(kind) /\ "labels" \in Maps(kind)
    <3>1. PICK x, y : x = <<"network", "subnet">> /\ y = <<"network", "gateway">>
      OBVIOUS
    <3>2. x \in SetsOf /\ x[1] = "network" /\ x[2] = "subnet"
      BY <3>1 DEF SetsOf, NetworkSets
    <3>3. y \in SetsOf /\ y[1] = "network" /\ y[2] = "gateway"
      BY <3>1 DEF SetsOf, NetworkSets
    <3>4. Sets("network") = {z[2] : z \in {u \in SetsOf : u[1] = "network"}}
      BY DEF Sets
    <3>5. "subnet" \in Sets("network")
      BY <3>2, <3>4
    <3>6. "gateway" \in Sets("network")
      BY <3>3, <3>4
    <3> QED BY <2>1, <3>5, <3>6 DEF Maps, Made
  <2>7. /\ c["subnet"] = Said("subnet") /\ c["gateway"] = Said("gateway")
        /\ c["labels"] = SaidLabels
    BY <1>1, <2>1, <2>3, <2>6 DEF Inv, Folded, Made
  <2>8. {"subnet", "gateway", "labels"} \subseteq DOMAIN c
    BY <2>4, <2>6 DEF Fields
  <2>9. PICK w : w = IF Zero(c, "subnet") THEN Without(c, {"gateway"}) ELSE c
    OBVIOUS
  <2>10. r = Kept(w)
    BY <2>4, <2>9 DEF NetworkRequest
  <2>11. /\ w["subnet"] = c["subnet"] /\ w["labels"] = c["labels"]
         /\ {"subnet", "labels"} \subseteq DOMAIN w
         /\ ~Zero(c, "subnet") => w = c
    BY <2>8, <2>9 DEF Without
  <2>12. ASSUME NEW f \in DOMAIN w
         PROVE  /\ f \in DOMAIN r <=> ~Zero(w, f)
                /\ f \in DOMAIN r => r[f] = w[f]
    BY <2>10 DEF Kept
  <2>13. got.subnet = Said("subnet")
    BY <2>5, <2>7, <2>11, <2>12 DEF Given, Zero, Collections
  <2>14. got.labels = SaidLabels
    <3>1. got.labels = IF DOMAIN SaidLabels = {} THEN <<>> ELSE SaidLabels
      BY <2>5, <2>7, <2>11, <2>12 DEF Given, Zero, Collections
    <3> QED BY <3>1, NoLabels
  <2>15. Said("subnet") # None => got.gateway = Said("gateway")
    <3>1. SUFFICES ASSUME Said("subnet") # None PROVE got.gateway = Said("gateway")
      OBVIOUS
    <3>2. w = c
      BY <2>7, <2>11, <3>1 DEF Zero, Collections
    <3> QED BY <2>5, <2>7, <2>8, <2>12, <3>2 DEF Given, Zero, Collections
  <2> QED BY <2>13, <2>14, <2>15
<1> QED BY <1>1, Inductive, PTL
================================================================================
