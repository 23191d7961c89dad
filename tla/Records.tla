--------------------------------- MODULE Records ---------------------------------
(***************************************************************************)
(* What a caller says and what it reads back: functional options folded    *)
(* over a configuration, the request made of it, and the records made of   *)
(* the engine's answers (container_opts.go, container.go, store.go,        *)
(* network_ops.go, volume_ops.go, api/types.go).                           *)
(*                                                                         *)
(* A caller applies options one by one, in any order and as often as it    *)
(* likes, and makes the call.  What it created it may read by Get (or      *)
(* Inspect) and by List, and a container it has read it may create again   *)
(* through containers.Store.  Values are opaque; None is a zero value,     *)
(* which the JSON and the queries leave out.  Ports are numbers, since     *)
(* List narrows them; their protocols are left out.                        *)
(***************************************************************************)
EXTENDS Naturals, Sequences, FiniteSetsExt, Functions

CONSTANTS
  Vals,      \* strings and lists that are not empty
  Keys,      \* names of labels
  Ports,     \* port numbers; 0 asks the engine for one
  Assigned,  \* the port an engine assigns
  Bare,      \* the network of a container that names none
  MaxOpts,   \* bound: options of one call
  None

PortRange == 65536  \* 2^16

ASSUME RecordsAssumption ==
  /\ Ports \subseteq 0..(PortRange - 1) /\ Assigned \in 1..(PortRange - 1)
  /\ MaxOpts \in Nat
  /\ None \notin Vals /\ Bare \notin Vals

VARIABLES
  kind,  \* the call
  opts,  \* the options applied so far: history
  cfg,   \* its configuration
  pc,    \* build, sent, made, read, cloned
  sent,  \* the request, its zero values left out
  made,  \* what the engine created, or None
  got,   \* what the caller read of it, or None
  via,   \* by get or by list
  twin   \* the container that was created from what was read, or None

vars == <<kind, opts, cfg, pc, sent, made, got, via, twin>>
--------------------------------------------------------------------------------
(***************************************************************************)
(* The fields of each configuration, by what an option does to them.       *)
(***************************************************************************)
Process == {"image", "cmd", "entrypoint", "workdir", "user"}
HostSets == {"network", "dns", "dnsSearch", "hostname", "platform"}

\* c.f = v: the fields that an option of a call sets.
CallSets ==
  {<<"list", "filters">>, <<"kill", "signal">>, <<"stop", "timeout">>,
   <<"stop", "signal">>, <<"restart", "timeout">>, <<"logs", "tail">>,
   <<"logs", "since">>}

ImageSets ==
  {<<"pull", "tag">>, <<"pull", "platform">>, <<"build", "tag">>,
   <<"build", "dockerfile">>}

NetworkSets == {<<"network", "subnet">>, <<"network", "gateway">>}

VolumeSets == {<<"volume", "driver">>}

SetsOf ==
  ({"create"} \X (Process \cup HostSets))
    \cup CallSets \cup ImageSets \cup NetworkSets \cup VolumeSets

\* c.f = true: the fields that one switches on.
FlagsOf ==
  {<<"create", "tty">>, <<"create", "openStdin">>, <<"create", "autoRemove">>,
   <<"list", "all">>, <<"delete", "force">>, <<"delete", "removeVolumes">>,
   <<"exec", "tty">>, <<"exec", "attachStdin">>, <<"exec", "detach">>,
   <<"logs", "follow">>, <<"logs", "tty">>, <<"build", "noCache">>}

Kinds == {"create", "list", "stop", "kill", "delete", "restart", "exec", "logs",
          "pull", "build", "network", "volume"}
Made  == {"create", "network", "volume"}

Sets(k)  == {x[2] : x \in {y \in SetsOf : y[1] = k}}
Flags(k) == {x[2] : x \in {y \in FlagsOf : y[1] = k}}
Lists(k) == IF k = "create" THEN {"env", "binds", "mounts"} ELSE {}
Maps(k)  == (IF k \in Made THEN {"labels"} ELSE {})
              \cup (IF k = "create" THEN {"ports"} ELSE {})
Fields(k) == Sets(k) \cup Flags(k) \cup Lists(k) \cup Maps(k)

Collections == {"env", "binds", "mounts", "labels", "ports"}

\* The literals that the methods start from.
Default(k, f) ==
  IF f \in Collections THEN <<>>
  ELSE IF f = "timeout" THEN "5"
  ELSE IF k = "kill" /\ f = "signal" THEN "KILL"
  ELSE None

Config(k) == [f \in Fields(k) |-> Default(k, f)]

Mounts == [source : Vals, readOnly : BOOLEAN]

Option(f, k, v) == [field |-> f, key |-> k, val |-> v]

Options(k) ==
  {Option(f, None, v) : f \in Sets(k), v \in Vals}
    \cup {Option(f, None, None) : f \in Sets(k) \ {"timeout"}}
    \cup {Option(f, None, "true") : f \in Flags(k)}
    \cup {Option(f, None, v) : f \in Lists(k) \ {"mounts"}, v \in Vals}
    \cup {Option("labels", n, v) : n \in IF k \in Made THEN Keys ELSE {}, v \in Vals}
    \cup (IF k # "create" THEN {}
          ELSE {Option("mounts", None, m) : m \in Mounts}
                 \cup {Option("ports", p, h) : p \in Ports \ {0}, h \in Ports}
                 \cup {Option("name", None, v) : v \in Vals})

\* m[k] = v, and m[k] = append(m[k], v), in a map that may be nil.
Put(m, k, v)    == [x \in DOMAIN m \cup {k} |-> IF x = k THEN v ELSE m[x]]
Gather(m, k, v) == Put(m, k, IF k \in DOMAIN m THEN Append(m[k], v) ELSE <<v>>)

\* Mutants: an option replaces a list; a second port is dropped.
ChangedReplaces(was, o) ==
  CASE o.field = "labels" -> Put(was, o.key, o.val)
    [] o.field = "ports"  -> Gather(was, o.key, o.val)
    [] o.field \in {"env", "binds", "mounts"} -> <<o.val>>
    [] OTHER              -> o.val

ChangedPutsPort(was, o) ==
  CASE o.field = "labels" -> Put(was, o.key, o.val)
    [] o.field = "ports"  -> Put(was, o.key, <<o.val>>)
    [] o.field \in {"env", "binds", "mounts"} -> Append(was, o.val)
    [] OTHER              -> o.val

\* What an option makes of its field.
Changed(was, o) ==
  CASE o.field = "labels" -> Put(was, o.key, o.val)
    [] o.field = "ports"  -> Gather(was, o.key, o.val)
    [] o.field \in {"env", "binds", "mounts"} -> Append(was, o.val)
    [] o.field \notin Collections -> o.val

\* One option.  WithName does nothing.
Apply(c, o) ==
  IF o.field = "name" THEN c ELSE [c EXCEPT ![o.field] = Changed(@, o)]
--------------------------------------------------------------------------------
(***************************************************************************)
(* Requests.                                                               *)
(***************************************************************************)
Zero(c, f) == IF f \in Collections THEN DOMAIN c[f] = {} ELSE c[f] = None
Kept(c)    == [f \in {g \in DOMAIN c : ~Zero(c, g)} |-> c[f]]
Without(c, fs) == [f \in DOMAIN c \ fs |-> c[f]]

\* Mutant: no NetworkingConfig.
ToAPIRequestMode(c) == Kept(c)

\* createConfig.toAPIRequest: a network is named twice.
ToAPIRequest(c) ==
  IF Zero(c, "network") THEN Kept(c)
  ELSE Put(Kept(c), "endpoints", {c.network})

\* Mutant: detach is sent along.
ExecRequestDetached(c) ==
  Put(Put(Kept(c), "attachStdout", "true"), "attachStderr", "true")

\* Exec always attaches both outputs and is never detached.
ExecRequest(c) ==
  Put(Put(Kept(Without(c, {"detach"})), "attachStdout", "true"), "attachStderr", "true")

\* Logs asks for both outputs, and keeps its tty for the reader.
LogsRequest(c) ==
  Put(Put(Kept(Without(c, {"tty"})), "stdout", "true"), "stderr", "true")

\* Kill sends a signal that is empty, too.
LifecycleRequest(k, c) == IF k = "kill" THEN c ELSE Kept(c)

\* Mutant: both sides need to be there.
NetworkRequestStrict(c) ==
  IF Zero(c, "subnet") \/ Zero(c, "gateway") THEN Kept(Without(c, {"subnet", "gateway"}))
  ELSE Kept(c)

\* A gateway without a subnet is left out.
NetworkRequest(c) == IF Zero(c, "subnet") THEN Kept(Without(c, {"gateway"})) ELSE Kept(c)

Request(k, c) ==
  CASE k = "create"  -> ToAPIRequest(c)
    [] k = "network" -> NetworkRequest(c)
    [] k = "exec"    -> ExecRequest(c)
    [] k = "logs"    -> LogsRequest(c)
    [] k \notin {"create", "network", "exec", "logs"} -> LifecycleRequest(k, c)
--------------------------------------------------------------------------------
(***************************************************************************)
(* The engine: what it makes of a request it accepts, and how it shows it. *)
(* What an image adds of its own is left out.                              *)
(***************************************************************************)
Given(r, f, default) == IF f \in DOMAIN r THEN r[f] ELSE default

\* The pairs of a container port and a host port in m.
Published(m) == UNION {{<<p, m[p][i]>> : i \in DOMAIN m[p]} : p \in DOMAIN m}

Binding(x)  == [container |-> x[1], host |-> IF x[2] = 0 THEN Assigned ELSE x[2]]
Bindings(r) == {Binding(x) : x \in Published(Given(r, "ports", <<>>))}

EngineContainer(r) ==
  [config |-> [f \in Process \cup {"tty", "env", "labels"} |->
                 Given(r, f, IF f \in Collections THEN <<>> ELSE None)],
   networks |-> Given(r, "endpoints", {Bare}),
   ports |-> Bindings(r),
   mounts |-> {[source |-> v, readOnly |-> FALSE] : v \in Range(Given(r, "binds", <<>>))}
                \cup Range(Given(r, "mounts", <<>>))]

EngineObject(k, r) == IF k = "create" THEN EngineContainer(r) ELSE r

(***************************************************************************)
(* The records made of its answers.                                        *)
(***************************************************************************)
ProcessFields    == {"cmd", "entrypoint", "workdir", "user", "tty", "env"}
EmptyProcess     == [f \in ProcessFields |-> IF f = "env" THEN <<>> ELSE None]
ProcessConfig(c) == [f \in ProcessFields |-> c[f]]
Sources(ms)      == {m.source : m \in ms}

\* convertContainer: no ports, and mounts without their mode.
ConvertContainer(o) ==
  [image |-> o.config.image, config |-> ProcessConfig(o.config),
   labels |-> o.config.labels, networks |-> o.networks,
   ports |-> {}, mounts |-> Sources(o.mounts)]

\* uint16(p)
Narrow(p) == p % PortRange

\* convertSummary: no process.
ConvertSummary(o) ==
  [image |-> o.config.image, config |-> EmptyProcess,
   labels |-> o.config.labels, networks |-> o.networks,
   ports |-> {[container |-> Narrow(p.container), host |-> Narrow(p.host)] : p \in o.ports},
   mounts |-> Sources(o.mounts)]

\* convertNetwork
ConvertNetwork(o) ==
  [labels |-> Given(o, "labels", <<>>), subnet |-> Given(o, "subnet", None),
   gateway |-> Given(o, "gateway", None)]

\* convertVolume
ConvertVolume(o) ==
  [labels |-> Given(o, "labels", <<>>), driver |-> Given(o, "driver", None)]

Shown(k, o, v) ==
  CASE k = "network" -> ConvertNetwork(o)
    [] k = "volume"  -> ConvertVolume(o)
    [] k = "create"  -> IF v = "get" THEN ConvertContainer(o) ELSE ConvertSummary(o)

\* Mutant: the user is forgotten.
StoreRequestRoot(c) ==
  Kept(Put(Put(Without(c.config, {"user"}), "image", c.image), "labels", c.labels))

\* containerStore.Create
StoreRequest(c) ==
  Kept(Put(Put(c.config, "image", c.image), "labels", c.labels))
--------------------------------------------------------------------------------
Init ==
  /\ kind \in Kinds
  /\ opts = <<>> /\ cfg = Config(kind)
  /\ pc = "build" /\ sent = <<>> /\ made = None /\ got = None /\ via = "get" /\ twin = None

AddOption(o) ==
  /\ pc = "build" /\ Len(opts) < MaxOpts
  /\ opts' = Append(opts, o)
  /\ cfg' = Apply(cfg, o)
  /\ UNCHANGED <<kind, pc, sent, made, got, via, twin>>

Send ==
  /\ pc = "build"
  /\ pc' = "sent"
  /\ sent' = Request(kind, cfg)
  /\ UNCHANGED <<kind, opts, cfg, made, got, via, twin>>

Create ==
  /\ pc = "sent" /\ kind \in Made
  /\ pc' = "made"
  /\ made' = EngineObject(kind, sent)
  /\ UNCHANGED <<kind, opts, cfg, sent, got, via, twin>>

\* Get, Inspect and Info of a container, or List; Inspect or List of others.
ReadBack(v) ==
  /\ pc \in {"made", "read"}
  /\ pc' = "read"
  /\ got' = Shown(kind, made, v) /\ via' = v
  /\ UNCHANGED <<kind, opts, cfg, sent, made, twin>>

CreateAgain ==
  /\ pc = "read" /\ kind = "create"
  /\ pc' = "cloned"
  /\ twin' = EngineContainer(StoreRequest(got))
  /\ UNCHANGED <<kind, opts, cfg, sent, made, got, via>>

Next ==
  \/ \E o \in Options(kind) : AddOption(o)
  \/ Send \/ Create \/ CreateAgain
  \/ \E v \in {"get", "list"} : ReadBack(v)

Spec == Init /\ [][Next]_vars
--------------------------------------------------------------------------------
\* What the types of the requests have a place for, of what the calls set.
Wire(k) ==
  CASE k = "create" -> Fields(k) \cup {"endpoints"}
    [] k = "exec"   -> {"tty", "attachStdin", "attachStdout", "attachStderr"}
    [] k = "logs"   -> {"follow", "tail", "since", "stdout", "stderr"}
    [] k \notin {"create", "exec", "logs"} -> Fields(k)

TypeOK ==
  /\ kind \in Kinds
  /\ pc \in {"build", "sent", "made", "read", "cloned"}
  /\ Len(opts) <= MaxOpts
  /\ DOMAIN cfg = Fields(kind)
  /\ \A f \in Sets(kind) : cfg[f] \in Vals \cup {Default(kind, f), None}
  /\ \A f \in Flags(kind) : cfg[f] \in {None, "true"}
  /\ \A f \in Lists(kind) : cfg[f] \in Seq(Vals \cup Mounts)
  /\ pc # "build" => DOMAIN sent \subseteq Wire(kind)
  /\ via \in {"get", "list"}

(***************************************************************************)
(* What the options say, read off their sequence.                          *)
(***************************************************************************)
About(f)    == {i \in DOMAIN opts : opts[i].field = f}
Last(is, d) == IF is = {} THEN d ELSE opts[Max(is)].val
Said(f)     == Last(About(f), Default(kind, f))
SaidLabels  ==
  [k \in {opts[i].key : i \in About("labels")} |->
     Last({i \in About("labels") : opts[i].key = k}, None)]
SaidPorts   == {<<opts[i].key, opts[i].val>> : i \in About("ports")}

\* s is what the options for f said, all of it, in their order: at says which
\* option each element is from.
IsSaidList(s, f) ==
  \E at \in [DOMAIN s -> About(f)] :
    /\ Range(at) = About(f)
    /\ \A i, j \in DOMAIN s : i < j => at[i] < at[j]
    /\ \A i \in DOMAIN s : s[i] = opts[at[i]].val

\* What Get and Inspect return of a container is what the options said: of
\* each setting the last, of the environment all, in their order
\* (container_opts.go:36-205, container.go:353-393).
GetsWhatWasSaid ==
  kind = "create" /\ pc = "read" /\ via = "get" =>
    /\ got.image = Said("image")
    /\ \A f \in DOMAIN got.config \ {"env"} : got.config[f] = Said(f)
    /\ IsSaidList(got.config.env, "env")
    /\ got.labels = SaidLabels

\* Every port that was published is listed with its host port, also when a
\* container port has several (container_opts.go:135-147, store.go:138-145).
ListsPublished ==
  kind = "create" /\ pc = "read" /\ via = "list" =>
    got.ports = {[container |-> p[1], host |-> IF p[2] = 0 THEN Assigned ELSE p[2]] :
                   p \in SaidPorts}

\* A container is attached to the network named last, and to no other, whether
\* an engine goes by the mode or by the endpoints (container_opts.go:62-73).
OneNetwork ==
  kind = "create" /\ pc # "build" =>
    IF Said("network") = None
    THEN {"network", "endpoints"} \cap DOMAIN sent = {}
    ELSE /\ {"network", "endpoints"} \subseteq DOMAIN sent
         /\ sent.network = Said("network") /\ sent.endpoints = {Said("network")}

\* A container that was read by Get and created again through the store runs
\* the same process with the same labels (store.go:56-92).
CloneRunsSame ==
  pc = "cloned" /\ via = "get" => twin.config = made.config

\* A network has the labels and the subnet that were said, and with a subnet
\* the gateway (network_ops.go:19-27, 147-162).
NetworkReadsBack ==
  kind = "network" /\ pc = "read" =>
    /\ got.subnet = Said("subnet") /\ got.labels = SaidLabels
    /\ Said("subnet") # None => got.gateway = Said("gateway")
================================================================================
