-------------------------------- MODULE Manager --------------------------------
(***************************************************************************)
(* The socktainer daemon manager (socktainer/manager.go).                  *)
(*                                                                         *)
(* A Manager starts the daemon unless something already answers on the     *)
(* socket, remembers in `managed' whether it did, and stops only what it   *)
(* started.  Start and Stop run under the mutex `mu' and talk to the world *)
(* in several steps (ping, stat, remove, fork, signal, wait), between      *)
(* which other goroutines, other Managers, the daemons, the user and the   *)
(* context given to Start all move.                                        *)
(*                                                                         *)
(* One module for the Manager and its environment: the daemons as          *)
(* processes, the one socket path they share, and the contexts.            *)
(***************************************************************************)
EXTENDS Integers, FiniteSets

CONSTANTS
  Managers,   \* the Manager values, each in a program of its own
  Callers,    \* goroutines that call Start and Stop
  Procs,      \* process identifiers, never used twice: the bound on spawns
  External,   \* those of Procs that only a user launches
  Contexts,   \* context.Context values passed to Start
  MaxPolls,   \* bound on the retries of one waitReady (startTimeout / 500ms)
  Flaky,      \* may a live daemon miss the 2s of a ping, or answer not 200?
  Crashing,   \* those of Managers whose program may crash
  None,       \* nil: no caller, no owner, no command, no socket file
  Unstarted   \* a *exec.Cmd whose Process is nil

ASSUME ConstantsAssumption ==
  /\ External \subseteq Procs
  /\ Crashing \subseteq Managers
  /\ MaxPolls \in Nat
  /\ Flaky \in BOOLEAN
  /\ None \notin Managers \cup Callers \cup Procs \cup Contexts
  /\ Unstarted \notin Procs \cup {None}

VARIABLES
  \* the fields of the Manager
  mu,         \* the caller that holds m.mu, or None
  managed,    \* m.managed
  cmd,        \* m.cmd: nil, a command without a process, or its process
  \* the calls in progress
  pc,         \* where a caller stands in Start or Stop
  op,         \* which of the two it called last
  at,         \* on which Manager
  ctx,        \* with which context, None outside Start
  polls,      \* retries of the waitReady loop
  \* the processes
  state,      \* unborn, booting, serving or dead
  owner,      \* the Manager whose live program forked it, or None
  lease,      \* the context its exec.CommandContext watches
  wait,       \* cmd.Wait: not called, called, or returned (ProcessState set)
  signals,    \* the signals it was sent
  \* the rest of the world
  sock,       \* the process that bound the file at socketPath, or None
  cancelled,  \* the contexts that are done
  \* history, which the properties read and no step does
  strays      \* those who may take a path that was cleared for another:
              \* External, what Start launched over a file that it could not
              \* clear, and what was still booting when its program crashed
              \* or when Start took the answer of another for its own

mgrVars  == <<mu, managed, cmd>>
callVars == <<pc, op, at, ctx, polls>>
procVars == <<state, owner, lease, wait, signals, strays>>
vars     == <<mgrVars, callVars, procVars, sock, cancelled>>

Returned == {"idle", "ok", "err"}      \* outside a call; what the last returned
Stopping == {"stop", "select", "reap"} \* inside stopLocked
Spawning == {"spawn", "spawnOver"}     \* the path cleared, or not; all the same
                                       \* to the code
Starting == {"ping", "resolve", "remove", "poll"} \cup Spawning
Locked   == Starting \cup Stopping
PCs      == Returned \cup {"lock"} \cup Locked
Alive    == {"booting", "serving"}

TypeOK ==
  /\ mu \in [Managers -> Callers \cup {None}]
  /\ managed \in [Managers -> BOOLEAN]
  /\ cmd \in [Managers -> Procs \cup {None, Unstarted}]
  /\ pc \in [Callers -> PCs]
  /\ op \in [Callers -> {"Start", "Stop"}]
  /\ at \in [Callers -> Managers]
  /\ ctx \in [Callers -> Contexts \cup {None}]
  /\ polls \in [Callers -> 0..MaxPolls]
  /\ state \in [Procs -> {"unborn", "booting", "serving", "dead"}]
  /\ owner \in [Procs -> Managers \cup {None}]
  /\ lease \in [Procs -> Contexts \cup {None}]
  /\ wait \in [Procs -> {"none", "waiting", "done"}]
  /\ signals \in [Procs -> SUBSET {"INT", "KILL"}]
  /\ sock \in Procs \cup {None}
  /\ cancelled \subseteq Contexts
  /\ strays \subseteq Procs

\* A fresh Manager: NewManager sets only its options.
Init ==
  /\ mu = [m \in Managers |-> None]
  /\ managed = [m \in Managers |-> FALSE]
  /\ cmd = [m \in Managers |-> None]
  /\ pc = [c \in Callers |-> "idle"]
  /\ op = [c \in Callers |-> "Stop"]
  /\ at \in [Callers -> Managers]
  /\ ctx = [c \in Callers |-> None]
  /\ polls = [c \in Callers |-> 0]
  /\ state = [p \in Procs |-> "unborn"]
  /\ owner = [p \in Procs |-> None]
  /\ lease = [p \in Procs |-> None]
  /\ wait = [p \in Procs |-> "none"]
  /\ signals = [p \in Procs |-> {}]
  /\ sock = None
  /\ cancelled = {}
  /\ strays = External
--------------------------------------------------------------------------------
(***************************************************************************)
(* Helpers.                                                                *)
(***************************************************************************)
Goto(c, l) == pc' = [pc EXCEPT ![c] = l]

\* Leaving the method: the deferred Unlock, the result, the frame is gone.
Return(c, res) ==
  /\ Goto(c, res)
  /\ ctx' = [ctx EXCEPT ![c] = None]
  /\ polls' = [polls EXCEPT ![c] = 0]
  /\ mu' = [mu EXCEPT ![at[c]] = None]

\* m.ping(ctx) = nil is possible: someone listens behind the socket file and
\* the request context is not done.
PingMayAnswer(x) ==
  /\ x \notin cancelled
  /\ sock # None
  /\ state[sock] = "serving"

PingMayFail(x) == PingMayAnswer(x) => Flaky

\* The two checks at the head of an iteration of waitReady.
KeepsPolling(c) ==
  /\ ctx[c] \notin cancelled
  /\ wait[cmd[at[c]]] # "done"       \* m.cmd.ProcessState == nil

\* stopLocked's early return does not apply.
OwnsProcess(m) == managed[m] /\ cmd[m] \in Procs
--------------------------------------------------------------------------------
(***************************************************************************)
(* Start.                                                                  *)
(***************************************************************************)
CallStart(c, m, x) ==
  /\ pc[c] \in Returned
  /\ Goto(c, "lock")
  /\ op' = [op EXCEPT ![c] = "Start"]
  /\ at' = [at EXCEPT ![c] = m]
  /\ ctx' = [ctx EXCEPT ![c] = x]
  /\ UNCHANGED <<mgrVars, polls, procVars, sock, cancelled>>

Acquire(c) ==
  /\ pc[c] = "lock"
  /\ mu[at[c]] = None
  /\ mu' = [mu EXCEPT ![at[c]] = c]
  /\ Goto(c, IF op[c] = "Start" THEN "ping" ELSE "stop")
  /\ UNCHANGED <<managed, cmd, op, at, ctx, polls, procVars, sock, cancelled>>

\* Mutant: managed keeps what an earlier Start set.
FoundAliveStillManaged(c) ==
  /\ pc[c] = "ping"
  /\ PingMayAnswer(ctx[c])
  /\ Return(c, "ok")
  /\ UNCHANGED <<managed, cmd, op, at, procVars, sock, cancelled>>

\* Something answers: it is recorded as external, m.cmd is left as it was.
FoundAlive(c) ==
  /\ pc[c] = "ping"
  /\ PingMayAnswer(ctx[c])
  /\ managed' = [managed EXCEPT ![at[c]] = FALSE]
  /\ Return(c, "ok")
  /\ UNCHANGED <<cmd, op, at, procVars, sock, cancelled>>

FoundDead(c) ==
  /\ pc[c] = "ping"
  /\ PingMayFail(ctx[c])
  /\ Goto(c, "resolve")
  /\ UNCHANGED <<mgrVars, op, at, ctx, polls, procVars, sock, cancelled>>

\* Mutant: the error path forgets to unlock.
ResolveFailsLocked(c) ==
  /\ pc[c] = "resolve"
  /\ Goto(c, "err")
  /\ ctx' = [ctx EXCEPT ![c] = None]
  /\ UNCHANGED <<mgrVars, op, at, polls, procVars, sock, cancelled>>

\* resolveBinary and MkdirAll: no binary, or no directory for the socket.
ResolveFails(c) ==
  /\ pc[c] = "resolve"
  /\ Return(c, "err")
  /\ UNCHANGED <<managed, cmd, op, at, procVars, sock, cancelled>>

\* Mutant: the condition of the stat is inverted.
StatInverted(c) ==
  /\ pc[c] = "resolve"
  /\ Goto(c, IF sock = None THEN "remove" ELSE "spawn")
  /\ UNCHANGED <<mgrVars, op, at, ctx, polls, procVars, sock, cancelled>>

\* The binary is found, the directory is there; then os.Stat(socketPath).  Any
\* error of it, not only a file that is not there, skips the removal.
StatSocket(c) ==
  /\ pc[c] = "resolve"
  /\ \/ sock # None /\ Goto(c, "remove")
     \/ sock # None /\ Goto(c, "spawnOver")
     \/ sock = None /\ Goto(c, "spawn")
  /\ UNCHANGED <<mgrVars, op, at, ctx, polls, procVars, sock, cancelled>>

\* os.Remove unlinks whatever the path names by now.
RemoveSocket(c) ==
  /\ pc[c] = "remove"
  /\ sock' = None
  /\ Goto(c, "spawn")
  /\ UNCHANGED <<mgrVars, op, at, ctx, polls, procVars, cancelled>>

\* Or it fails, which is ignored.
RemoveFails(c) ==
  /\ pc[c] = "remove"
  /\ sock # None
  /\ Goto(c, "spawnOver")
  /\ UNCHANGED <<mgrVars, op, at, ctx, polls, procVars, sock, cancelled>>

\* m.cmd.Start succeeds: it refuses a context that is already done.
Spawn(c, p) ==
  /\ pc[c] \in Spawning
  /\ ctx[c] \notin cancelled
  /\ p \notin External
  /\ state[p] = "unborn"
  /\ cmd' = [cmd EXCEPT ![at[c]] = p]
  /\ managed' = [managed EXCEPT ![at[c]] = TRUE]
  /\ state' = [state EXCEPT ![p] = "booting"]
  /\ owner' = [owner EXCEPT ![p] = at[c]]
  /\ lease' = [lease EXCEPT ![p] = ctx[c]]
  /\ strays' = strays \cup (IF pc[c] = "spawnOver" THEN {p} ELSE {})
  /\ Goto(c, "poll")
  /\ UNCHANGED <<mu, op, at, ctx, polls, wait, signals, sock, cancelled>>

\* m.cmd.Start fails: m.cmd was already replaced, m.managed is not touched.
SpawnFails(c) ==
  /\ pc[c] \in Spawning
  /\ cmd' = [cmd EXCEPT ![at[c]] = Unstarted]
  /\ Return(c, "err")
  /\ UNCHANGED <<managed, op, at, procVars, sock, cancelled>>

PollReady(c) ==
  /\ pc[c] = "poll"
  /\ KeepsPolling(c)
  /\ PingMayAnswer(ctx[c])
  /\ Return(c, "ok")
  /\ strays' = strays \cup {p \in Procs : p = cmd[at[c]] /\ state[p] = "booting"}
  /\ UNCHANGED <<managed, cmd, op, at, state, owner, lease, wait, signals, sock,
                 cancelled>>

\* Mutant: the loop has no deadline.
PollForever(c) ==
  /\ pc[c] = "poll"
  /\ KeepsPolling(c)
  /\ PingMayFail(ctx[c])
  /\ polls' = [polls EXCEPT ![c] = @ + 1]
  /\ UNCHANGED <<mgrVars, pc, op, at, ctx, procVars, sock, cancelled>>

PollRetry(c) ==
  /\ pc[c] = "poll"
  /\ KeepsPolling(c)
  /\ PingMayFail(ctx[c])
  /\ polls[c] < MaxPolls
  /\ polls' = [polls EXCEPT ![c] = @ + 1]
  /\ UNCHANGED <<mgrVars, pc, op, at, ctx, procVars, sock, cancelled>>

\* waitReady fails: cancelled, "exited", or the deadline, which may pass at
\* any iteration.  Start goes on with stopLocked.
PollAborts(c) ==
  /\ pc[c] = "poll"
  /\ ~KeepsPolling(c)
  /\ Goto(c, "stop")
  /\ UNCHANGED <<mgrVars, op, at, ctx, polls, procVars, sock, cancelled>>

\* Mutant: the timeout is returned without the stopLocked.
TimeOutLeaves(c) ==
  /\ pc[c] = "poll"
  /\ Return(c, "err")
  /\ UNCHANGED <<managed, cmd, op, at, procVars, sock, cancelled>>

PollTimesOut(c) ==
  /\ pc[c] = "poll"
  /\ Goto(c, "stop")
  /\ UNCHANGED <<mgrVars, op, at, ctx, polls, procVars, sock, cancelled>>
--------------------------------------------------------------------------------
(***************************************************************************)
(* Stop, and stopLocked for both callers of it.                            *)
(***************************************************************************)
CallStop(c, m) ==
  /\ pc[c] \in Returned
  /\ Goto(c, "lock")
  /\ op' = [op EXCEPT ![c] = "Stop"]
  /\ at' = [at EXCEPT ![c] = m]
  /\ UNCHANGED <<mgrVars, ctx, polls, procVars, sock, cancelled>>

StopResult(c) == IF op[c] = "Start" THEN "err" ELSE "ok"

StopNoop(c) ==
  /\ pc[c] = "stop"
  /\ ~OwnsProcess(at[c])
  /\ Return(c, StopResult(c))
  /\ UNCHANGED <<managed, cmd, op, at, procVars, sock, cancelled>>

\* Signal(os.Interrupt), its error ignored, and the goroutine in cmd.Wait,
\* which a second time would fail at once.
StopSignal(c) ==
  /\ pc[c] = "stop"
  /\ OwnsProcess(at[c])
  /\ signals' = [signals EXCEPT ![cmd[at[c]]] = @ \cup {"INT"}]
  /\ wait' = [wait EXCEPT ![cmd[at[c]]] = IF @ = "none" THEN "waiting" ELSE @]
  /\ Goto(c, "select")
  /\ UNCHANGED <<mgrVars, op, at, ctx, polls, state, owner, lease, strays, sock,
                 cancelled>>

\* cmd.Wait returns: done <- m.cmd.Wait().
Reap(p) ==
  /\ wait[p] = "waiting"
  /\ state[p] = "dead"
  /\ wait' = [wait EXCEPT ![p] = "done"]
  /\ UNCHANGED <<mgrVars, callVars, state, owner, lease, signals, strays, sock,
                 cancelled>>

\* Mutant: the fields are not reset.
StopDoneKeeps(c) ==
  /\ pc[c] \in {"select", "reap"}
  /\ wait[cmd[at[c]]] = "done"
  /\ Return(c, StopResult(c))
  /\ UNCHANGED <<managed, cmd, op, at, procVars, sock, cancelled>>

\* <-done, in the select or after the Kill.
StopDone(c) ==
  /\ pc[c] \in {"select", "reap"}
  /\ wait[cmd[at[c]]] = "done"
  /\ managed' = [managed EXCEPT ![at[c]] = FALSE]
  /\ cmd' = [cmd EXCEPT ![at[c]] = None]
  /\ Return(c, StopResult(c))
  /\ UNCHANGED <<op, at, procVars, sock, cancelled>>

\* The 5s are over, done or not: Kill, an error if the process was reaped.
StopKill(c) ==
  /\ pc[c] = "select"
  /\ LET p == cmd[at[c]]
         reaped == wait[p] = "done"
     IN /\ state' = [state EXCEPT ![p] = "dead"]
        /\ signals' = [signals EXCEPT ![p] = IF reaped THEN @ ELSE @ \cup {"KILL"}]
  /\ Goto(c, "reap")
  /\ UNCHANGED <<mgrVars, op, at, ctx, polls, owner, lease, wait, strays, sock,
                 cancelled>>
--------------------------------------------------------------------------------
(***************************************************************************)
(* The environment: contexts, daemons, users, and the host program.        *)
(***************************************************************************)
Cancel(x) ==
  /\ x \notin cancelled
  /\ cancelled' = cancelled \cup {x}
  /\ UNCHANGED <<mgrVars, callVars, procVars, sock>>

\* exec.CommandContext: the watcher kills the process when the context given
\* to Start is done, however long ago Start returned, until Wait returns.
LeaseKill(p) ==
  /\ owner[p] # None
  /\ lease[p] \in cancelled
  /\ state[p] \in Alive
  /\ state' = [state EXCEPT ![p] = "dead"]
  /\ signals' = [signals EXCEPT ![p] = @ \cup {"KILL"}]
  /\ UNCHANGED <<mgrVars, callVars, owner, lease, wait, strays, sock, cancelled>>

LaunchExternal(p) ==
  /\ p \in External
  /\ state[p] = "unborn"
  /\ state' = [state EXCEPT ![p] = "booting"]
  /\ UNCHANGED <<mgrVars, callVars, owner, lease, wait, signals, strays, sock,
                 cancelled>>

Bind(p) ==
  /\ state[p] = "booting"
  /\ sock = None
  /\ sock' = p
  /\ state' = [state EXCEPT ![p] = "serving"]
  /\ UNCHANGED <<mgrVars, callVars, owner, lease, wait, signals, strays, cancelled>>

\* The path exists, live or stale: the daemon cannot bind and exits.
BindFails(p) ==
  /\ state[p] = "booting"
  /\ sock # None
  /\ state' = [state EXCEPT ![p] = "dead"]
  /\ UNCHANGED <<mgrVars, callVars, owner, lease, wait, signals, strays, sock,
                 cancelled>>

\* A crash leaves the socket file behind.
Crash(p) ==
  /\ state[p] \in Alive
  /\ state' = [state EXCEPT ![p] = "dead"]
  /\ UNCHANGED <<mgrVars, callVars, owner, lease, wait, signals, strays, sock,
                 cancelled>>

\* A graceful exit may unlink the path; a daemon may also ignore the signal.
ExitOnInterrupt(p) ==
  /\ state[p] \in Alive
  /\ "INT" \in signals[p]
  /\ state' = [state EXCEPT ![p] = "dead"]
  /\ sock' = None
  /\ UNCHANGED <<mgrVars, callVars, owner, lease, wait, signals, strays, cancelled>>

\* The program of m dies and starts again with a new Manager: its calls, its
\* waiters and its memory are gone, its children live on without an owner.
HostCrash(m) ==
  /\ m \in Crashing
  /\ mu' = [mu EXCEPT ![m] = None]
  /\ managed' = [managed EXCEPT ![m] = FALSE]
  /\ cmd' = [cmd EXCEPT ![m] = None]
  /\ pc' = [c \in Callers |-> IF at[c] = m THEN "idle" ELSE pc[c]]
  /\ ctx' = [c \in Callers |-> IF at[c] = m THEN None ELSE ctx[c]]
  /\ polls' = [c \in Callers |-> IF at[c] = m THEN 0 ELSE polls[c]]
  /\ owner' = [p \in Procs |-> IF owner[p] = m THEN None ELSE owner[p]]
  /\ wait' = [p \in Procs |-> IF owner[p] = m /\ wait[p] = "waiting"
                                THEN "none" ELSE wait[p]]
  /\ strays' = strays \cup {p \in Procs : owner[p] = m /\ state[p] = "booting"}
  /\ UNCHANGED <<op, at, state, lease, signals, sock, cancelled>>
--------------------------------------------------------------------------------
Body(c) ==
  \/ FoundAlive(c) \/ FoundDead(c) \/ ResolveFails(c)
  \/ StatSocket(c) \/ RemoveSocket(c) \/ RemoveFails(c)
  \/ \E p \in Procs : Spawn(c, p)
  \/ SpawnFails(c)
  \/ PollReady(c) \/ PollRetry(c) \/ PollAborts(c) \/ PollTimesOut(c)
  \/ StopNoop(c) \/ StopSignal(c) \/ StopDone(c) \/ StopKill(c)

Calls(c) ==
  \/ \E m \in Managers, x \in Contexts : CallStart(c, m, x)
  \/ \E m \in Managers : CallStop(c, m)

Daemon(p) ==
  \/ Bind(p) \/ BindFails(p) \/ Crash(p) \/ ExitOnInterrupt(p)
  \/ LaunchExternal(p) \/ LeaseKill(p) \/ Reap(p)

Next ==
  \/ \E c \in Callers : Calls(c) \/ Acquire(c) \/ Body(c)
  \/ \E p \in Procs : Daemon(p)
  \/ \E x \in Contexts : Cancel(x)
  \/ \E m \in Managers : HostCrash(m)

Spec == Init /\ [][Next]_vars

(***************************************************************************)
(* Fairness: the Go scheduler runs every runnable goroutine and time       *)
(* passes, so a call inside a method takes its next step and the waiter    *)
(* reaps a dead child; sync.Mutex hands over to a waiter (starvation       *)
(* mode), hence strong fairness of Acquire.  Nothing is assumed of the     *)
(* daemons, the users, the contexts or the next call.                      *)
(***************************************************************************)
FairSpec ==
  /\ Spec
  /\ \A c \in Callers : WF_vars(Body(c)) /\ SF_vars(Acquire(c))
  /\ \A p \in Procs : WF_vars(Reap(p))
--------------------------------------------------------------------------------
(***************************************************************************)
(* The inductive invariant, part by part.                                  *)
(***************************************************************************)
\* Whoever is inside a method of m holds m.mu, and nobody else does.
MutexOK ==
  \A m \in Managers, c \in Callers :
    mu[m] = c <=> at[c] = m /\ pc[c] \in Locked

\* m.cmd is a process that m forked in this life of its program.
CmdOK ==
  \A m \in Managers : cmd[m] \in Procs =>
    owner[cmd[m]] = m /\ state[cmd[m]] # "unborn"

\* Nothing has happened to a process that was not launched, and nobody owns
\* what a user launched.
BirthOK ==
  \A p \in Procs :
    /\ state[p] = "unborn" => /\ owner[p] = None
                             /\ wait[p] = "none"
                             /\ signals[p] = {}
    /\ p \in External => owner[p] = None

\* Where a caller stands says what it has established.
CallerOK(c) ==
  /\ pc[c] \in Starting => op[c] = "Start"
  /\ pc[c] = "poll" => OwnsProcess(at[c])
  /\ pc[c] = "stop" /\ op[c] = "Start" => OwnsProcess(at[c])
  /\ pc[c] \in {"select", "reap"} =>
       OwnsProcess(at[c]) /\ wait[cmd[at[c]]] # "none"

ProgressOK == \A c \in Callers : CallerOK(c)

\* A command that was interrupted is m.cmd only while its stop is running.
InterruptedOK ==
  \A m \in Managers : cmd[m] \in Procs /\ "INT" \in signals[cmd[m]] =>
    \E c \in Callers : at[c] = m /\ pc[c] \in {"select", "reap"}

\* cmd.Wait follows the interrupt, and returns when the process is dead.
WaitOK ==
  \A p \in Procs :
    /\ wait[p] # "none" => "INT" \in signals[p]
    /\ wait[p] = "done" => state[p] = "dead"

Inv ==
  /\ MutexOK /\ CmdOK /\ BirthOK /\ ProgressOK /\ InterruptedOK /\ WaitOK
--------------------------------------------------------------------------------
(***************************************************************************)
(* Properties of every Manager, whatever else uses the socket.             *)
(***************************************************************************)
\* A signal goes only to a child of this life of the program that was not
\* reaped yet: never to a user's daemon, or to a process id that the system
\* may have given to something else.  A stop interrupts a child of its own
\* Manager, one that was never interrupted before (manager.go:128-145, and the
\* kill of exec.CommandContext, :102).
SignalsOnlyOwn ==
  [][/\ \A p \in Procs : signals'[p] # signals[p] =>
          owner[p] \in Managers /\ wait[p] # "done"
     /\ \A c \in Callers : pc[c] = "stop" /\ pc'[c] = "select" =>
          /\ cmd[at[c]] \in Procs
          /\ owner[cmd[at[c]]] = at[c]
          /\ "INT" \notin signals[cmd[at[c]]]]_vars

\* A Start that spawned a daemon and fails leaves no process behind, not even
\* a zombie: the child was waited for when the error is returned
\* (manager.go:111-114).
FailedStartReaps ==
  [][\A c \in Callers : pc[c] \in {"poll"} \cup Stopping /\ pc'[c] = "err" =>
       /\ cmd[at[c]] \in Procs
       /\ wait[cmd[at[c]]] = "done"]_vars

\* The promises of module Ownership: what it sees of a state.
CallLabel(l) ==
  IF l = "lock" THEN "queued"
  ELSE IF l = "poll" THEN "launched"
  ELSE IF l \in Starting THEN "starting"
  ELSE IF l \in Stopping THEN "stopping"
  ELSE l

LifeLabel(s) ==
  IF s = "unborn" THEN s ELSE IF s = "dead" THEN "down" ELSE "up"

call   == [c \in Callers |-> CallLabel(pc[c])]
life   == [p \in Procs |-> LifeLabel(state[p])]
held   == [m \in Managers |-> IF OwnsProcess(m) THEN cmd[m] ELSE None]
told   == {p \in Procs : "INT" \in signals[p]}
reaped == {p \in Procs : wait[p] = "done"}

Promise == INSTANCE Ownership WITH
  call <- call, op <- op, at <- at, held <- held, life <- life, told <- told,
  reaped <- reaped

\* Start and Stop implement Ownership: what a Manager holds, interrupts and
\* reaps is what their doc comments say (manager.go:74-77, 119-120).
KeepsPromise == Promise!Spec
--------------------------------------------------------------------------------
(***************************************************************************)
(* Properties of a Manager that shares the socket with no other Manager.   *)
(* A user may launch daemons, and the program may crash.                   *)
(***************************************************************************)
OneManager == \A m, n \in Managers : m = n

\* The daemon that Start reports ready is the one it spawned, whatever calls
\* and crashes came before (manager.go:111, README.md:143); or else Start had
\* not cleared the path for it, or a stray took the path.
ReadyIsOwn ==
  [][\A c \in Callers : pc[c] = "poll" /\ pc'[c] = "ok" =>
       \/ sock = cmd[at[c]]
       \/ cmd[at[c]] \in strays
       \/ sock \in strays]_vars

\* A daemon that Start launched boots on a free path, so that it can bind:
\* neither the file of a daemon that crashed nor an earlier daemon of the
\* Manager, however slow, is in its way (manager.go:96-100).  What the code
\* cannot exclude is that the file is not cleared (the error of os.Remove is
\* ignored) and that a stray takes the path once it is.
BootsOnFreePath ==
  \A p \in Procs \ strays : state[p] = "booting" => sock \in {None} \cup strays

\* Every Start and every Stop returns, whether or not the daemon answers,
\* boots, or obeys the interrupt (manager.go:79-80, 137-142, 188-189).
CallsReturn ==
  \A c \in Callers : pc[c] = "lock" ~> pc[c] \in Returned
--------------------------------------------------------------------------------
(***************************************************************************)
(* What the comments say and the code does not do.                         *)
(***************************************************************************)
\* manager.go:119: "Stop gracefully shuts down the daemon if this Manager
\* started it."
StopShutsDownOwn ==
  [][\A c \in Callers :
       op[c] = "Stop" /\ pc[c] \in Stopping /\ pc'[c] = "ok" =>
         \A p \in Procs : owner[p] = at[c] => state[p] \notin Alive]_vars

\* manager.go:96: "Clean up stale socket left by a previous crash".
RemovesOnlyStale ==
  [][\A c \in Callers :
       pc[c] = "remove" /\ pc'[c] = "spawn" /\ sock # None =>
         state[sock] = "dead"]_vars
================================================================================
