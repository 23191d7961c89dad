# acgo in TLA+

acgo is a Go client for socktainer, a daemon that serves a Docker-compatible
HTTP API over a Unix socket, with a manager for the daemon's process. These
modules model the parts of it that have state, concurrency or failure, check
them with TLC and prove the main results with TLAPS. Line numbers refer to the
source files at the root of the repository (`client.go`, `socktainer/manager.go`,
`api/transport.go`, ...).

## Inventory

| Part | State | Operations | Meets | What is hard |
|---|---|---|---|---|
| `socktainer.Manager` | mutex `mu`, `cmd`, `managed` | `Start`, `Stop`, `IsRunning`, `SocketPath` | daemon processes, the socket file, contexts, other Managers and users | calls from several goroutines, the gap between ping, stat, remove and spawn, crashes and stale files, timeouts, who owns a process |
| `api.Transport`, `checkResponse`, `responseError` | the connections of its `http.Client` | `Get`, `Post`, `PostRaw`, `Delete`, `Put`, `DecodeResponse` | every API method, the daemon | bodies that are cut, never end, or are never closed; cancelled calls |
| `Client` | transport, options | system, container, image, network and volume methods, `Close` | transport | a timeout that nobody reads, resources at `Close` |
| `Client.Events`, `DecodeStream` | two goroutines, four channels | subscribe, receive, cancel | the engine's stream, a subscriber | order, loss, the end of the stream, a subscriber that stops |
| `container.Wait` | a goroutine, two channels | wait, receive | the container, a subscriber | two closed channels, a failed wait, a late or absent receive |
| container handles | the key a handle was made with | lifecycle, `Inspect`, `Image`, ... | the daemon's containers, other clients | lost responses, retries, a key that comes to mean another container |
| `Exec`, `Logs`, `demuxReader`, `idleTimeoutReader` | a raw connection, a frame buffer | exec, read, close | the daemon's frames | frames cut anywhere, a pause taken for the end, an error that is swallowed |
| image handles, `Pull`, `Push`, `Build` | tags as they were | tag, delete, pull, push | the daemon's image store | stale tags, errors inside a stream of status 200 |
| stores, networks, volumes | none | list, get, create, delete, prune | transport | conversions, dropped fields |
| options | a configuration record | functional options, `toAPIRequest` | requests | options without effect, later ones overriding earlier ones |

What makes each part correct:

- Manager: mutual exclusion of its calls; a signal reaches only a child of its
  own that was not reaped; a Start that fails leaves no process; what Start
  reports ready is what it spawned and a daemon finds the path free, as far as
  the code can see to it; calls return.
- Events: every message once and in order; a closed channel with its reason;
  both goroutines end.
- Calls: no path loses a connection; a nil error means a whole answer; a
  context that is done ends the call.
- Wait: one outcome, and a way to read it that is never wrong; no leak.
- Handles: an operation acts on the container the handle was made for.
- Streams: the bytes out are the payloads in, however reads and frames are cut;
  the end that is reported is the end; no path leaves a connection open.
- Records: what is read back is what the options said.

## Modules

| Module | Models | Composed of |
|---|---|---|
| `Manager` | `socktainer/manager.go` and its environment | |
| `Ownership` | what `Start` and `Stop` promise; abstract | `Manager` implements it |
| `MCManager` | symmetry for TLC | `Manager` |
| `ManagerProofs`, `ManagerRefinement` | proofs | `Manager`, `Ownership` |
| `Events` | `Client.Events` over `DecodeStream` | |
| `EventsProofs` | proofs | `Events` |
| `HttpCalls` | every API method as request, status, body, connection | |
| `MCHttpCalls` | one method of each kind | `HttpCalls` |
| `HttpCallsProofs` | proofs | `HttpCalls` |
| `Wait` | `container.Wait` | |
| `WaitProofs` | proofs | `Wait` |
| `OutputStream` | `Exec`, `Logs`, the connection and the readers | |
| `Pipe` | what a reader of output promises; abstract | `OutputStream` implements it |
| `OutputStreamProofs` | proofs | `OutputStream`, `Pipe` |
| `Handles` | container and image handles against an engine | |
| `Effects` | what a call promises of its effect; abstract | `Handles` implements it |
| `HandlesProofs` | proofs | `Handles`, `Effects` |
| `MCHandles` | symmetry for TLC | `Handles` |
| `Records` | options, requests, and the records read back | |
| `RecordsProofs` | proofs | `Records` |

### Manager

`mu`, `managed` and `cmd` are the fields of the struct. A caller walks through
`Start` and `Stop` in the steps between which something else can happen: take
the lock, ping, resolve the binary, stat, remove, spawn, poll; stop, select on
the waiter and the five seconds, kill, reap. `resolveBinary` and `MkdirAll` are
one step, which fails or not. A stat that fails (`StatSocket`) and a removal
that fails (`RemoveFails`) are ignored, as in the code, which then launches a
daemon over the file (`spawnOver`). `ping` is a guard: it may succeed when the
process behind the socket file serves and the context is not done, and it may
fail when that does not hold, or (`Flaky`) when the answer is late or not 200.
`IsRunning` is a ping and changes nothing, so it is no action.

`strays` is history: the properties read it, and no step does. It holds the
processes that may take a path which was cleared for another, because the code
cannot know of them: a user's daemons; what Start launched over a file that it
could not clear; what was still booting when its program crashed; and what was
still booting when Start took the answer of another process for its own.

The environment is in the same module. A process boots, binds the path if it is
free and exits if not, serves, crashes, obeys an interrupt or ignores it; a user
may launch one (`External`); the watcher of `exec.CommandContext` kills a child
when the context given to `Start` is done, even after `Start` returned; the host
program may crash and start again (`Crashing`). `Wait` of a child returns only
when it is dead.

`Ownership` is what the doc comments of `Start` and `Stop` promise, as far as
the code keeps it: no mutex, no socket, no ping, only which process a Manager
holds, interrupts and reaps. The refinement mapping (`call`, `life`, `held`,
`told`, `reaped`) is at the end of `Manager`.

### Events

The decoder's `ch` and the subscriber's `evCh` are unbuffered, so a send is a
joint step with the receiver. The error channels hold one. Which channel is
closed follows from where a goroutine stands. Messages are numbers in the order
of the engine's writes; their fields, and the filters, are left out. `GetFails`
is the early return with two closed channels and no goroutine.

### HttpCalls

A table gives, for each method of the API, the statuses it expects and what it
does with the body of an expected response: decode one value, close it, drain
it, hand it out, or leave it. The steps are the same for all: a connection (an
idle one or a new one), `Do`, the status check, the body. Bodies may be empty,
silent, hold a value, end, or break off; after a value the end may never come,
which the comment at `container.go:216-219` says of socktainer's chunked
answers. Which status a daemon answers is free. What a connection does (reuse
only after a body that ended, closed otherwise) is `net/http`'s and marked
external. `Image` and `Pull` go on with a second request.

### Wait

The goroutine posts, and either reports one error or sends the result, then
closes `errCh` and then `resCh`, the reverse of its two `defer`s. A receive from
a channel that is closed and empty gives the zero value, which is what makes the
two channels easy to misread. The container was started, exits once and may be
removed; the condition `next-exit` is left out.

### OutputStream and Pipe

One call of `Exec` or `Logs` and the reader it returns. `Exec` creates, dials a
connection of its own, writes the request and reads the head of the answer,
each of which may fail, until it returns a reader (`ok`), an error (`err`), or
neither an error nor an Output (`noOutput`). The daemon writes frames: a header
whose last bytes are the size, big-endian, and then that many bytes; or bare
bytes for a terminal. The bytes a command writes are numbered, and marked to
tell them from header bytes, which no step of the client looks at. `size` and
`part` are the two local variables of a `demuxReader.Read` that is under way
(the size in the last header; what `io.ReadFull` has so far), `buf` is its
field. A read of the connection may return any part of what was sent, so every
cut is explored, and may fail in each way the connection can: the end of the
body, 500ms of silence (`Exec`), a break, the context (`Logs`), `Close`. A
connection that ends before the head gives a reader whose `Close` does nothing
(`nop`), so that Exec has to close the connection itself. The
`idleTimeoutReader` makes all of them an EOF (`ErrorOf`), `ReadFull` makes an EOF
inside a header or frame an unexpected EOF (`FullError`), and one between a
header and its payload stays an EOF (`stream.go:41`).

`Pipe` has no frames, reads or connection: what the consumer has is a prefix of
what was written, and then comes one outcome, which for a strict reader (that of
`Logs`) is EOF only after all of the output.

### Handles and Effects

The engine is external: containers with an id or a name as key, lives, tags,
images, and what each request does to them (`Outcomes`), with a failure always
possible. The caller makes one call at a time and holds one handle; a call is
sent, served, and answered, and `Image` and `Pull` go on with a second request
(`AskImage`). A caller that gives up (`GiveUp`) leaves a request that may still
arrive (`ServeLate`) at any later time, also after the call was repeated. Other
clients create, delete, tag and prune between any two steps; a container may
exit and be removed by itself. `handle.of` is the container or image a handle
was made for, which the client does not know and the properties compare with
what its key denotes.

`Effects` is a call without an engine: it takes effect at most once, before it
returns, and did when it returns nil; after an error its request may be adrift.

### Records

A caller applies options to the configuration of one call, in any order and any
number up to `MaxOpts` (`Apply` is one option), and sends what `Request` makes of
it. The engine makes a container, network or volume of a request it accepts, and
the caller reads it with `Get` or `List` and may create a container again from
what it read. `Kept` is `omitempty`; the conversions are `ConvertContainer`,
`ConvertSummary`, `ConvertNetwork`, `ConvertVolume`. Strings are opaque. Ports are
numbers, since `List` narrows them to 16 bits, which the ports of a protocol
fit in (`RecordsAssumption`), so that nothing is lost; a host port 0 lets the
engine choose.

## Runs

| Run | Instance | What it shows |
|---|---|---|
| `manager_alone` | 1 Manager, 2 callers, 2 spawns, flaky pings, fair | types; every call returns |
| `manager_shared` | 1 crashing Manager, 2 callers, 2 spawns, 1 user's daemon, flaky pings | the inductive invariant; a boot finds the path free and Start reports its own daemon, but for strays and a path that was not cleared; signals only to own children; a failed Start reaps; the Manager implements `Ownership` |
| `manager_stop_leaks` | as `manager_alone`, 2 contexts | Stop leaves a daemon it started (finding) |
| `manager_removes_live` | as `manager_alone`, 2 contexts | Start unlinks a live socket (finding) |
| `events` | 4 messages, fair | no loss, a reason with every close, everything ends |
| `events_cancel` | 4 messages, fair | cancelling does not close (finding) |
| `http_calls` | 2 callers, 1 connection, 6 methods, one of each kind, fair | types; every connection accounted for; no cut answer passes; cancelled calls return |
| `wait` | 2 waits, 2 exit codes, fair | both channels together tell the truth; one outcome; the inductive invariant; the goroutine ends without a subscriber |
| `exec` | 3 frames of 0 to 2 bytes, headers of 3 bytes, reads of 1 or 2, fair | no byte lost, doubled or misread; every path accounts for its connection; the reader implements `Pipe`; `Exec` returns; no read hangs |
| `exec_no_output` | as `exec` | no error and no output of a command that wrote (finding) |
| `handles` | 1 name, 2 containers, 2 references, 2 images, 3 calls, 1 act of others | the inductive invariant; what a handle denotes; what nil and NotFound say after lost and late requests; `Handles` implements `Effects` |
| `records` | 3 options of each of 12 calls | what is read back is what was said, ports, the network, a container created again |

### Bounds, and why they are enough

- Two callers meet in every pair of steps, and the mutex hands over between
  them; a third would repeat what the second does. Two spawns give a Manager an
  old and a new process, which all hazards of a forgotten or replaced `cmd` need;
  a user's daemon gives the third party. With three spawns, a crash and no user,
  `BootsOnFreePath` and `ReadyIsOwn` were checked as well (1.45 million states).
  What a second Manager adds is left to
  the proofs, which hold for any number of them.
- `MaxPolls` = 1: one retry of `waitReady`, after which it ends in each of its
  four ways. The timeout may fire at any poll, so more of them add no new end.
- One context where every call may be cancelled but it does not matter whose;
  two where a finding needs an old Start and a new one.
- `MaxEvents` = 4 is one more than the three places a message can be in
  (decoder, forwarder, received).
- One connection for two callers: one caller gets what the other gave back, and
  a caller without a free connection can only fail, which it also can otherwise.
  Methods with equal rows behave alike, so one of each kind stands for all 52 rows.
- Two exit codes: zero, which a closed channel also gives, and another.
- A header of three bytes with a size of two, base 2: a size byte that is not
  the last, so that the order of the bytes matters, and one byte that is not of
  the size. Payloads of 0, 1 and 2 against reads of 1 and 2: a frame that is
  empty, that fits, and that does not. Three frames: two empty ones can follow
  each other, before or after one with data.
- Two containers under one name: the one a handle was made for and its
  successor. Three calls: make a handle, a call that is given up, and its
  repetition. One act of others is enough to come between; more only lengthen
  the runs (two were checked as well, in 1.75 million states).
- Three options: two that meet in one field and one in another. Port 8080 does
  not fit in a byte.

Symmetry is used only in `manager_shared` and `handles`, where no liveness is
checked. `manager_shared` also has a VIEW (`Seen` in `MCManager`), which takes
states for one that differ only in the last call of a caller outside a method and
what it returned, and in whether a dead process was a stray that is neither
`m.cmd` nor the owner of the file. No step reads these, and no property reads them
of a state from which it judges a step, so states that are taken for one have the
same steps and the same verdicts. `CHECK_DEADLOCK` is off for `events`, `wait`, `exec`, `handles` and
`records`: a stream that ended, a wait that was received, a caller that made its
calls are over.

### Fairness

Only the client's own goroutines are fair. In `Manager`, a caller inside a
method takes its next step, since every wait in it is bounded by a timer or by
a dead child; the lock is acquired (strong fairness: Go's mutex hands over to a
waiter that starves); the waiter reaps a dead child. In `Events`, the call and
the two goroutines; `Ends` also assumes the subscriber ranges, `CancelCloses`
does not. In `HttpCalls` and `Wait`, the steps of a call and of the goroutine.
In `OutputStream`, a dial and a write, which the kernel answers for a Unix
socket; the deadline of the head (`HeadFails`, weakly fair: it fires when nothing
else ends the wait); and a read, which takes what has come or ends when it must.
A break of the connection is not fair, so `ReadsReturn` holds for `Exec` by the
pause alone and for `Logs` by the context alone. `Handles` and `Records` state no
liveness. Nothing is assumed of the daemon, the engine, a user, a context or the
next call, and no answer ever has to come.

## What is proved

For every value of the constants, by TLAPS:

| Theorem | Module | Statement |
|---|---|---|
| `TypeCorrect`, `Invariance` | `ManagerProofs` | types, the inductive invariant |
| `SignalsSafe` | `ManagerProofs` | `Spec => SignalsOnlyOwn` |
| `FailureReaps` | `ManagerProofs` | `Spec => FailedStartReaps` |
| `FreePath` | `ManagerProofs` | `OneManager => (Spec => []BootsOnFreePath)` |
| `OwnDaemonReady` | `ManagerProofs` | `OneManager => (Spec => ReadyIsOwn)` |
| `CallsGetNearer` | `ManagerProofs` | `Spec => Nearer`: a call never goes back |
| `KilledIsReaped` | `ManagerProofs` | `Spec => []WaitsForTheDead`: the last wait is for a dead child |
| `Refinement` | `ManagerRefinement` | `Spec => KeepsPromise` |
| `OneHolder` | `ManagerRefinement` | `Spec => []HeldByOne`, for any number of Managers |
| `TypeCorrect`, `Invariance` | `EventsProofs` | types, the inductive invariant |
| `Delivery` | `EventsProofs` | `Spec => []NoLoss`, for streams of any length |
| `ClosingSaysWhy` | `EventsProofs` | `Spec => []ClosedSaysWhy` |
| `ErrorsNeverBlock` | `EventsProofs` | `Spec => []ErrorsFit` |
| `TypeCorrect`, `Invariance` | `WaitProofs` | types, capacities, the inductive invariant |
| `Telling` | `WaitProofs` | `Spec => []BothTell` |
| `Single` | `WaitProofs` | `Spec => []OneOutcome` |
| `TypeCorrect`, `Invariance` | `HandlesProofs` | types, the inductive invariant |
| `Target` | `HandlesProofs` | `Spec => []StaysOnTarget` |
| `Deletion` | `HandlesProofs` | `Spec => []DeletedMeansGone` |
| `Absence` | `HandlesProofs` | `Spec => []NotFoundMeansGone` |
| `Implementation` | `HandlesProofs` | `Spec => KeepsEffects` |
| `TypeCorrect` | `HttpCallsProofs` | `Spec => []TypeOK`, for all 52 rows of the table |
| `Account` | `HttpCallsProofs` | `Spec => []Accounted` |
| `Wholeness` | `HttpCallsProofs` | `Spec => OkMeansWhole` |
| `SizeRoundTrip` | `OutputStreamProofs` | the size read from a header is the size written, for any base and width |
| `TypeCorrect`, `Inductive` | `OutputStreamProofs` | types, the inductive invariant |
| `NoConnectionLeaks` | `OutputStreamProofs` | `Spec => []ConnAccounted` |
| `NoByteLost` | `OutputStreamProofs` | `Spec => []Conserved`, for frames and cuts of any size |
| `ImplementsPipe` | `OutputStreamProofs` | `Spec => KeepsPipe` |
| `TypeCorrect`, `Inductive` | `RecordsProofs` | types, the inductive invariant |
| `GetReturnsWhatWasSaid` | `RecordsProofs` | `Spec => []GetsWhatWasSaid`, for any number of options |
| `ListShowsPublished` | `RecordsProofs` | `Spec => []ListsPublished` |
| `LastNetworkWins` | `RecordsProofs` | `Spec => []OneNetwork` |
| `CloneIsFaithful` | `RecordsProofs` | `Spec => []CloneRunsSame` |
| `NetworkIsRead` | `RecordsProofs` | `Spec => []NetworkReadsBack` |

With these, every invariant and every action property of the passing runs is a
theorem, and so are the three refinements.

The assumptions are those of the constants (`ConstantsAssumption`,
`EventsAssumption`, `WaitAssumption`, `HandlesAssumption`, `CallsAssumption`,
`StreamAssumption`, `RecordsAssumption`): the distinguished values are distinct
from the ordinary ones, a bound is a number. Two theorems have a hypothesis of
their own, `OneManager`: no second Manager uses the socket path. With a second
one the path may be the daemon of either. Users, crashes of daemons and of the
program, late pings, and stats and removals that fail are all allowed.

*Manager.* That a signal goes only to an own, unreaped child is not inductive:
it needs that `cmd` is a child of this life of the program (`CmdOK`), that a
caller inside a method holds the mutex (`MutexOK`), that only a stop in progress
has an interrupted `cmd` (`InterruptedOK`), and that `Wait` follows the interrupt
(`WaitOK`). `Inv` is these together with what each program point has
established (`ProgressOK`) and what an unborn process cannot have (`BirthOK`).
The refinement maps every step to one of `Ownership` or to a stutter, from the
same invariant. `HeldByOne` is the part that the runs, with one Manager, cannot show:
no process is held by two of them, and none of a user by any.

*A Manager alone.* `BootsOnFreePath` is not inductive either. `BootOK` adds that a
daemon that is no stray boots only while the Start that spawned it, or the stop
within, goes on (so nobody else removes, binds or spawns), that a caller about to
spawn over a cleared path has nothing behind it but a stray (`PathOK`), and that a
caller that polls has its own process behind it, a stray, or none. The proof covers
contexts that end at any time and pings that fail although the daemon serves: such
a ping makes a Start replace a live daemon, but never meets one that boots. The
exceptions are what the code really does not exclude: if `os.Remove` fails, the
new daemon boots on an occupied path, cannot bind and exits, and if the old one
answers a ping by then, Start reports that one as ready; and a user's daemon, or
one that outlives a crash of the program while it boots, may bind the path between
the removal and the bind of the new one.

*Calls of a Manager.* That calls return is liveness, but the two safety halves of
the argument are proved. `Nearer`: each step of a caller inside a method, or the
crash of its program, lowers `Ahead`, the number of statements and polls still to
come. `WaitsForTheDead`: the one wait without a timer, `<-done` after the Kill, is
for a child of the Manager that is dead and whose `Wait` is under way or done.
Together with the fairness of a runnable goroutine and of the reaping of a dead
child they give `CallsReturn`, which TLC checks.

*Events.* `NoLoss` needs that the forwarder holds a message exactly when it is
about to send one. `ClosedSaysWhy` needs that the one error is in one place at a
time (`ErrorOK`) and that the forwarder drains only after the decoder ended. From
the same, a send into a channel of errors finds it empty (`ErrorsFit`), so that no
goroutine waits for a subscriber that never looks at `errCh`: the part of `Ends`
that is not about fairness.

*Wait.* Each wait is pending with empty channels, or its outcome is an error or
a result, in the buffer or received (`Pending`, `Failed`, `Succeeded`).

*Handles.* An answer of the engine is about what a key denotes when the request
arrives, and a handle is about what its key denoted when it was made. `Inv` joins
the two: keys of containers that live differ (`Distinct`), the key of a handle is
or was one of its container's (`HandleOK`), and the request of a method of a
handle has that key (`CallOK`). So a key that denotes none, or one that was just
deleted, leaves the handle's container gone (`ReplyOK`), which the result of the
call then repeats. That every request keeps this, also one that comes late or
from others, is one lemma about the engine (`EngineOK`: it keeps the world good,
what was born keeps its keys, and what is gone stays gone), with one lemma for
each kind of request under it.

*HttpCalls.* `Accounted` is inductive with the types: a call that gives its
connection back was the only one to have it (`Released`), and a method goes on
only with one of the table (`NextMethod`). `Wholeness` then needs that nothing but
its own step moves a call (`OnlyOwnStep`).

*OutputStream.* Three layers. `SizeRoundTrip`: a header of any base and width is
read as the size that was written into it, which needs that the places are
powers of the base (`PlaceValues`) and one digit of division at a time
(`NextDigit`). Then sequences: `Framed(s, v, w)` says that `s` is whole frames with
what the command wrote between its first `v` and its first `w` bytes, so that
taking the first header off gives a size and a payload that are both true
(`FramedFirst`), and a write adds a frame at the end (`FramedAppend`). The
inductive invariant `IInv` says it of what a read that is under way has (`part`)
joined to what is still on the wire: between frames it is `Framed`, inside one it
is the rest of a payload and then `Framed`. Wherever the reads cut, the two
together stay the same, so `Conserved` and the steps of `Pipe` follow. `Framed` is
an existential over sets of sequences, which TLC cannot enumerate; its
consequences `Conserved` and `KeepsPipe` are what the run `exec` checks.

*Records.* `Inv` says of each point of a call what the code has made of the
options so far: the configuration is what they say (`Folded`: the last value of a
setting, all items of a list in their order, the last of each label and port),
and the request, the object, the record and the clone are computed from it
(`Followed`). One more option keeps `Folded` (`Folds`): it is the last of what it
is about and changes nothing else (`MaxNext`, `LastGrows`, `ListGrows`,
`LabelsGrow`, `PortsGrow`). The theorems then compare the two ends of the chain:
what `omitempty` drops is what its reader takes as the default.

Induction over the length of a sequence or the number of bytes is beyond the
prover as a principle. Where a proof needs it, it takes the least
counterexample instead, which the well-foundedness of the natural numbers gives (`Least`).

Only model-checked are the liveness properties: `CallsReturn`, `Ends`,
`CancelReturns`, `EndsAlone`, `ExecReturns`, `ReadsReturn`.
They rest on fairness, hence on ENABLED, which the prover does not reason about.
The runs that expect a violation have nothing to prove.

## Where the code differs from what is written

Four disagreements have a run that shows them:

1. `socktainer/manager.go:119`: Stop is to shut down a daemon "if this Manager
   started it". A second Start that finds it answering makes it external, and
   Stop leaves it (`manager_stop_leaks`). The comment of Start (lines 75-76) says
   that Stop becomes a no-op, so the two comments differ.
2. `manager.go:96`: "stale socket". The file is removed whenever the ping failed,
   also for a context that is done (`manager_removes_live`).
3. `client.go:160`: "The channel closes when the context is cancelled", but not
   if the subscriber stopped receiving (`events_cancel`).
4. `container.go:45`: "ExecResult holds the output of an exec command". An error
   of the start is dropped, also when the command ran and wrote: the result has
   no error and a nil `Output` (`exec_no_output`).

Also met, without a run. In the manager and the client:

- `manager.go:96-97`: the path is cleaned up "so the new process can bind
  successfully", but any error of the stat skips the removal (98) and the error of
  the removal is dropped (99): the new daemon may be launched over an occupied
  path, and `waitReady` may take the answer of the daemon there for its own.
  `BootsOnFreePath` and `ReadyIsOwn` name this exception.
- `api/transport.go:145`: "DecodeResponse reads the full response body". It decodes
  one value and closes the body. This is also what lets it return when a chunked
  body lacks its end (`container.go:217`); `HttpCalls` models what the code does
  (`Decode`), and states no property of it.
- `manager.go:195`: the test for a process that exited can never be true, because
  `Wait` was not called: a dead child is polled until the timeout.
- `client.go:431`: a push (and a build, 427) whose stream is cut or cancelled
  returns nil; a pull does not.
- `README.md:82-84`: `<-resCh` returns at once, with status 0, when the wait failed.
  `client_test.go:421-427`: a late select may take the nil of the closed `errCh`
  for an unexpected error.
- `client.go:160` says "a channel of engine events", but the status of the
  response is not checked: the object of an error answer is delivered as an event
  without fields.
- `opts.go:37` says "WithTimeout sets a default timeout for API calls", but the
  field is read nowhere; `client.go:55` says "Close releases resources held by
  the client", but it does nothing (and `TagImage`, `PruneImages` and others
  leave the body of an expected response open).
- `README.md:144` says SIGTERM where the code sends `os.Interrupt`; the context
  given to `Start` goes on to govern the daemon after `Start` returned; when a
  user's daemon, or one left by a crash, takes the path first, Start reports that
  one ready.

In handles:

- `LoadContainer` keeps the string it was given (`client.go:248`), though its
  comment says "by ID": a handle made by name comes to mean the next container of
  that name. With an engine whose ids are names, every handle may. What a nil or
  a NotFound says holds for these, too.
- A create whose answer is lost (`client.go:222`) leaves a container without a
  handle; its name is taken, and a repeated create is refused.
- `Image` asks for the image by the name that it read before (`container.go:338-342`):
  what comes back is what the name means by then, and a NotFound may be the image's. An image handle
  acts by the first tag it had (`image.go:38`), wherever that points now. `Pull`
  with `WithPullTag` ends with `GetImage` of the reference without the tag
  (`client.go:326`).
- `Start` of a container that runs (304) is an error. `NotFoundError` and
  `ConflictError` are never made.

In streams:

- A pause of 500ms and a broken connection are taken for the end of the output
  of an exec (`container.go:274-277`), as the comment at 216-219 explains for the
  first; the context is not watched after the exec was created; a status 101,
  which is accepted, gives an empty output, since `http.ReadResponse` gives it no
  body.
- A stream that ends between a header and its payload ends with a clean EOF
  (`stream.go:41`). `Logs` can meet it only if the body ends there.
- Logs of a container with a terminal have to be asked for with `WithLogsTTY`,
  or the raw bytes are read as headers; the module assumes the two agree.

In options and records:

- `WithName` and `WithExecDetach` have no effect; `List` of both stores ignores its
  filters (`store.go:36, 130`); a gateway without a subnet is dropped
  (`network_ops.go:23`).
- A record of `Get` has no ports, and one of `List` no process, so a container
  created again from a list runs the defaults of its image; networks, mounts and
  ports are not created again but stay in the record that is returned
  (`store.go:56-89`). Mounts lose that they are read-only.
- `ContainerStatsResponse` (`api/types.go:279-285`) names nested fields with dots,
  which `encoding/json` does not follow: the numbers are always zero. The creation
  time of an image handle is never set.

## Not modelled

- `Stats`, `Client.Close`, `JSONLineScanner` (used nowhere), `IsConflict`, the
  options of the Client: without state, or without use.
- What `Build` and `Push` do to the engine or a registry.
- The wire types (`api/types.go`, `containers/`, `images/`, `mount/`, `network/`,
  `system/`, `volume/`): declarations; the fields that matter are in `Records`.
- The format of messages, JSON, URLs and the socket protocol.
- The daemon itself, `net/http`, `os/exec` and the kernel appear only as the
  code meets them.

## Plan

What is left is proofs:

1. A first-in first-out specification that `Events` implements, of which `NoLoss`
   is the state half.
2. The measures behind the other liveness properties, as `Nearer` is for
   `CallsReturn`: the steps left to a goroutine of `Events` and `Wait`, and to a
   call of `HttpCalls`.
