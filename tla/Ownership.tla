------------------------------- MODULE Ownership -------------------------------
(***************************************************************************)
(* What a socktainer Manager promises about the daemon processes: the      *)
(* doc comments of Start and Stop (socktainer/manager.go:74-77, 119-120)   *)
(* as far as the code keeps them.  No mutex, no socket, no context, no     *)
(* ping: a Manager holds at most one process, the one it launched last,    *)
(* and                                                                     *)
(*   - interrupts only what it holds, inside a stop, and only once;        *)
(*   - reaps only what it interrupted, when it is down, once;              *)
(*   - holds nothing after a Start that found a daemon answering;          *)
(*   - holds nothing after a Stop, nor after a Start that launched a       *)
(*     process and failed, and in both the process it held is reaped.      *)
(* Processes die whenever they like.                                       *)
(***************************************************************************)
CONSTANTS Managers, Callers, Procs, External, None

VARIABLES
  call,    \* where each caller stands
  op,      \* Start or Stop
  at,      \* the Manager called last
  held,    \* the process each Manager would stop, or None
  life,    \* unborn, up or down
  told,    \* the processes that were interrupted
  reaped   \* the processes that were waited for

vars == <<call, op, at, held, life, told, reaped>>

Out    == {"idle", "ok", "err"}
Inside == {"starting", "launched", "stopping"}

Init ==
  /\ call = [c \in Callers |-> "idle"]
  /\ op = [c \in Callers |-> "Stop"]
  /\ at \in [Callers -> Managers]
  /\ held = [m \in Managers |-> None]
  /\ life = [p \in Procs |-> "unborn"]
  /\ told = {}
  /\ reaped = {}

Move(c, l) == call' = [call EXCEPT ![c] = l]
Hold(c, h) == held' = [held EXCEPT ![at[c]] = h]

Call(c, o, m) ==
  /\ call[c] \in Out
  /\ Move(c, "queued")
  /\ op' = [op EXCEPT ![c] = o]
  /\ at' = [at EXCEPT ![c] = m]
  /\ UNCHANGED <<held, life, told, reaped>>

\* One call at a time on each Manager.
Enter(c) ==
  /\ call[c] = "queued"
  /\ \A d \in Callers : at[d] = at[c] => call[d] \notin Inside
  /\ Move(c, IF op[c] = "Start" THEN "starting" ELSE "stopping")
  /\ UNCHANGED <<op, at, held, life, told, reaped>>

\* Start found a daemon answering: whatever was held is nobody's now.
FindAlive(c) ==
  /\ call[c] = "starting"
  /\ Move(c, "ok")
  /\ Hold(c, None)
  /\ UNCHANGED <<op, at, life, told, reaped>>

\* Start failed before it launched anything: the old process may be dropped.
Fail(c) ==
  /\ call[c] = "starting"
  /\ Move(c, "err")
  /\ Hold(c, None) \/ UNCHANGED held
  /\ UNCHANGED <<op, at, life, told, reaped>>

Launch(c, p) ==
  /\ call[c] = "starting"
  /\ p \notin External
  /\ life[p] = "unborn"
  /\ life' = [life EXCEPT ![p] = "up"]
  /\ Move(c, "launched")
  /\ Hold(c, p)
  /\ UNCHANGED <<op, at, told, reaped>>

BecomeReady(c) ==
  /\ call[c] = "launched"
  /\ Move(c, "ok")
  /\ UNCHANGED <<op, at, held, life, told, reaped>>

GiveUp(c) ==
  /\ call[c] = "launched"
  /\ Move(c, "stopping")
  /\ UNCHANGED <<op, at, held, life, told, reaped>>

Interrupt(c) ==
  /\ call[c] = "stopping"
  /\ held[at[c]] \in Procs \ told
  /\ told' = told \cup {held[at[c]]}
  /\ UNCHANGED <<call, op, at, held, life, reaped>>

\* The end of a stop.  A Start only comes here with a process to account for.
Finish(c) ==
  /\ call[c] = "stopping"
  /\ \/ held[at[c]] = None /\ op[c] = "Stop"
     \/ held[at[c]] \in reaped
  /\ Move(c, IF op[c] = "Start" THEN "err" ELSE "ok")
  /\ Hold(c, None)
  /\ UNCHANGED <<op, at, life, told, reaped>>

LaunchExternal(p) ==
  /\ p \in External
  /\ life[p] = "unborn"
  /\ life' = [life EXCEPT ![p] = "up"]
  /\ UNCHANGED <<call, op, at, held, told, reaped>>

Die(p) ==
  /\ life[p] = "up"
  /\ life' = [life EXCEPT ![p] = "down"]
  /\ UNCHANGED <<call, op, at, held, told, reaped>>

Reap(p) ==
  /\ p \in told \ reaped
  /\ life[p] = "down"
  /\ reaped' = reaped \cup {p}
  /\ UNCHANGED <<call, op, at, held, life, told>>

\* The program of m restarts: nothing is held any more.
Forget(m) ==
  /\ call' = [c \in Callers |-> IF at[c] = m THEN "idle" ELSE call[c]]
  /\ held' = [held EXCEPT ![m] = None]
  /\ UNCHANGED <<op, at, life, told, reaped>>

Next ==
  \/ \E c \in Callers :
       \/ \E o \in {"Start", "Stop"}, m \in Managers : Call(c, o, m)
       \/ Enter(c) \/ FindAlive(c) \/ Fail(c) \/ BecomeReady(c) \/ GiveUp(c)
       \/ Interrupt(c) \/ Finish(c)
       \/ \E p \in Procs : Launch(c, p)
  \/ \E p \in Procs : LaunchExternal(p) \/ Die(p) \/ Reap(p)
  \/ \E m \in Managers : Forget(m)

Spec == Init /\ [][Next]_vars
================================================================================
