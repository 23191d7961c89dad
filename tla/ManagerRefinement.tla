--------------------------- MODULE ManagerRefinement ---------------------------
(***************************************************************************)
(* The Manager implements module Ownership: every step of Start, Stop and  *)
(* their environment is a step of Ownership, or changes nothing it sees.   *)
(***************************************************************************)
EXTENDS ManagerProofs

USE DEF PCs, Locked, Starting, Spawning, Stopping, Returned, Alive

\* What a step of one caller does to the labels of all.
LEMMA CallMoves ==
  ASSUME TypeOK, NEW c \in Callers, NEW l \in PCs, Goto(c, l)
  PROVE  call' = [call EXCEPT ![c] = CallLabel(l)]
BY DEF TypeOK, Goto, call

\* The labels that do not depend on a set of places.
LEMMA Labels ==
  /\ CallLabel("lock") = "queued"
  /\ CallLabel("poll") = "launched"
  /\ CallLabel("ping") = "starting"
  /\ CallLabel("resolve") = "starting"
  /\ CallLabel("remove") = "starting"
  /\ CallLabel("spawn") = "starting"
  /\ CallLabel("spawnOver") = "starting"
  /\ CallLabel("stop") = "stopping"
  /\ CallLabel("select") = "stopping"
  /\ CallLabel("reap") = "stopping"
  /\ CallLabel("idle") = "idle"
  /\ CallLabel("ok") = "ok"
  /\ CallLabel("err") = "err"
<1>1. /\ CallLabel("lock") = "queued"
      /\ CallLabel("poll") = "launched"
  BY DEF CallLabel
<1>2. /\ CallLabel("ping") = "starting"
      /\ CallLabel("resolve") = "starting"
      /\ CallLabel("remove") = "starting"
      /\ CallLabel("spawn") = "starting"
      /\ CallLabel("spawnOver") = "starting"
  BY DEF CallLabel
<1>3. /\ CallLabel("stop") = "stopping"
      /\ CallLabel("select") = "stopping"
      /\ CallLabel("reap") = "stopping"
  BY DEF CallLabel
<1>4. /\ CallLabel("idle") = "idle"
      /\ CallLabel("ok") = "ok"
      /\ CallLabel("err") = "err"
  BY DEF CallLabel
<1> QED BY <1>1, <1>2, <1>3, <1>4

\* What a step at one Manager does to what the others hold: nothing.
LEMMA HeldMoves ==
  ASSUME NEW m \in Managers, NEW h,
         h = IF OwnsProcess(m)' THEN cmd'[m] ELSE None,
         \A n \in Managers \ {m} : OwnsProcess(n)' = OwnsProcess(n) /\ cmd'[n] = cmd[n]
  PROVE  held' = [held EXCEPT ![m] = h]
BY DEF held

\* A step that leaves the state of every process alone, or lets one die.
LEMMA LifeMoves ==
  ASSUME TypeOK, NEW p \in Procs, NEW s \in {"unborn", "booting", "serving", "dead"},
         state' = [state EXCEPT ![p] = s]
  PROVE  life' = [life EXCEPT ![p] = LifeLabel(s)]
BY DEF TypeOK, life

LEMMA Dying ==
  ASSUME TypeOK, NEW p \in Procs, state[p] # "unborn",
         state' = [state EXCEPT ![p] = "dead"],
         UNCHANGED <<call, op, at, held, told, reaped>>
  PROVE  Promise!Die(p) \/ UNCHANGED life
<1>1. life' = [life EXCEPT ![p] = "down"]
  BY LifeMoves DEF LifeLabel
<1>2. CASE state[p] = "dead"
  BY <1>2 DEF TypeOK, life
<1>3. CASE state[p] # "dead"
  BY <1>1, <1>3 DEF Promise!Die, life, LifeLabel, TypeOK
<1> QED BY <1>2, <1>3

LEMMA RefineInit == Init => Promise!Init
BY ConstantsAssumption, Labels
   DEF Init, Promise!Init, call, held, life, told, reaped, LifeLabel, OwnsProcess

\* Start, up to the spawn.
LEMMA RefineStart ==
  ASSUME TypeOK, Inv, NEW c \in Callers,
         \/ FoundAlive(c) \/ FoundDead(c) \/ ResolveFails(c) \/ StatSocket(c)
         \/ RemoveSocket(c) \/ RemoveFails(c) \/ SpawnFails(c)
         \/ \E p \in Procs : Spawn(c, p)
  PROVE  [Promise!Next]_(Promise!vars)
<1> USE ConstantsAssumption
    DEF TypeOK, Return, mgrVars, callVars, procVars
<1>1. CASE FoundAlive(c)
  <2>1. call' = [call EXCEPT ![c] = "ok"]
    BY <1>1, CallMoves, Labels DEF FoundAlive
  <2>2. held' = [held EXCEPT ![at[c]] = None]
    BY <1>1 DEF FoundAlive, held, OwnsProcess
  <2>3. Promise!FindAlive(c)
    BY <1>1, <2>1, <2>2, Labels
       DEF FoundAlive, Promise!FindAlive, Promise!Move, Promise!Hold, call, life,
           told, reaped
  <2> QED BY <2>3 DEF Promise!Next
<1>2. CASE FoundDead(c) \/ StatSocket(c) \/ RemoveSocket(c) \/ RemoveFails(c)
  <2>1. PICK l \in {"resolve", "remove"} \cup Spawning : Goto(c, l)
    BY <1>2 DEF FoundDead, StatSocket, RemoveSocket, RemoveFails
  <2>2. call' = call
    BY <1>2, <2>1, Labels DEF FoundDead, StatSocket, RemoveSocket, RemoveFails,
                              Goto, call
  <2> QED
    BY <1>2, <2>2
       DEF FoundDead, StatSocket, RemoveSocket, RemoveFails, Promise!vars, held,
           life, told, reaped, OwnsProcess
<1>3. CASE ResolveFails(c) \/ SpawnFails(c)
  <2>1. call' = [call EXCEPT ![c] = "err"]
    BY <1>3, CallMoves, Labels DEF ResolveFails, SpawnFails
  <2>2. held' = [held EXCEPT ![at[c]] = None] \/ UNCHANGED held
    <3>1. CASE ResolveFails(c)
      BY <3>1 DEF ResolveFails, held, OwnsProcess
    <3>2. CASE SpawnFails(c)
      <4>1. cmd' = [cmd EXCEPT ![at[c]] = Unstarted] /\ managed' = managed
        BY <3>2 DEF SpawnFails
      <4> QED BY <4>1, HeldMoves DEF OwnsProcess
    <3> QED BY <1>3, <3>1, <3>2
  <2>3. Promise!Fail(c)
    BY <1>3, <2>1, <2>2, Labels
       DEF ResolveFails, SpawnFails, Promise!Fail, Promise!Move, Promise!Hold, call,
           life, told, reaped
  <2> QED BY <2>3 DEF Promise!Next
<1>4. ASSUME NEW p \in Procs, Spawn(c, p) PROVE Promise!Next
  <2>1. call' = [call EXCEPT ![c] = "launched"]
    BY <1>4, CallMoves, Labels DEF Spawn
  <2>2. held' = [held EXCEPT ![at[c]] = p]
    <3>1. /\ cmd' = [cmd EXCEPT ![at[c]] = p]
          /\ managed' = [managed EXCEPT ![at[c]] = TRUE]
      BY <1>4 DEF Spawn
    <3>2. \A n \in Managers \ {at[c]} : managed'[n] = managed[n] /\ cmd'[n] = cmd[n]
      BY <3>1
    <3>3. managed'[at[c]] /\ cmd'[at[c]] = p
      BY <3>1
    <3> QED BY <3>2, <3>3, HeldMoves DEF OwnsProcess
  <2>3. life[p] = "unborn" /\ life' = [life EXCEPT ![p] = "up"]
    BY <1>4, LifeMoves DEF Spawn, life, LifeLabel
  <2>4. Promise!Launch(c, p)
    BY <1>4, <2>1, <2>2, <2>3, Labels
       DEF Spawn, Promise!Launch, Promise!Move, Promise!Hold, call, told, reaped
  <2> QED BY <2>4 DEF Promise!Next
<1> QED BY <1>1, <1>2, <1>3, <1>4

\* waitReady.
LEMMA RefinePoll ==
  ASSUME TypeOK, Inv, NEW c \in Callers,
         PollReady(c) \/ PollRetry(c) \/ PollAborts(c) \/ PollTimesOut(c)
  PROVE  [Promise!Next]_(Promise!vars)
<1> USE DEF TypeOK, Return, mgrVars, callVars, procVars
<1>0. UNCHANGED <<op, at, held, life, told, reaped>>
  BY DEF PollReady, PollRetry, PollAborts, PollTimesOut, held, life, told, reaped,
         OwnsProcess
<1>1. CASE PollReady(c)
  <2>1. call' = [call EXCEPT ![c] = "ok"]
    BY <1>1, CallMoves, Labels DEF PollReady
  <2>2. Promise!BecomeReady(c)
    BY <1>0, <1>1, <2>1, Labels
       DEF PollReady, Promise!BecomeReady, Promise!Move, call
  <2> QED BY <2>2 DEF Promise!Next
<1>2. CASE PollRetry(c)
  BY <1>0, <1>2 DEF PollRetry, Promise!vars, call
<1>3. CASE PollAborts(c) \/ PollTimesOut(c)
  <2>1. call' = [call EXCEPT ![c] = "stopping"]
    BY <1>3, CallMoves, Labels DEF PollAborts, PollTimesOut
  <2>2. Promise!GiveUp(c)
    BY <1>0, <1>3, <2>1, Labels
       DEF PollAborts, PollTimesOut, Promise!GiveUp, Promise!Move, call
  <2> QED BY <2>2 DEF Promise!Next
<1> QED BY <1>1, <1>2, <1>3

\* stopLocked.
LEMMA RefineStop ==
  ASSUME TypeOK, Inv, NEW c \in Callers,
         StopNoop(c) \/ StopSignal(c) \/ StopDone(c) \/ StopKill(c)
  PROVE  [Promise!Next]_(Promise!vars)
<1> USE ConstantsAssumption DEF TypeOK, Return, mgrVars, callVars, procVars
<1>1. CASE StopNoop(c)
  <2>1. op[c] = "Stop" /\ held[at[c]] = None
    BY <1>1 DEF StopNoop, Inv, ProgressOK, CallerOK, held
  <2>2. UNCHANGED <<op, at, held, life, told, reaped>>
    BY <1>1 DEF StopNoop, held, life, told, reaped, OwnsProcess
  <2>3. call' = [call EXCEPT ![c] = "ok"]
    BY <1>1, <2>1, CallMoves, Labels DEF StopNoop, StopResult
  <2>4. held' = [held EXCEPT ![at[c]] = None]
    BY <2>1, <2>2 DEF held
  <2>5. Promise!Finish(c)
    BY <1>1, <2>1, <2>2, <2>3, <2>4, Labels
       DEF StopNoop, Promise!Finish, Promise!Move, Promise!Hold, call
  <2> QED BY <2>5 DEF Promise!Next
<1>2. CASE StopSignal(c)
  <2> DEFINE p == cmd[at[c]]
  <2>1. p \in Procs /\ held[at[c]] = p
    BY <1>2 DEF StopSignal, OwnsProcess, held
  <2>2. "INT" \notin signals[p] /\ wait[p] = "none"
    BY <1>2, <2>1, Alone DEF StopSignal, Inv, InterruptedOK, WaitOK
  <2>3. UNCHANGED <<op, at, held, life>>
    BY <1>2 DEF StopSignal, held, life, OwnsProcess
  <2>4. UNCHANGED call
    BY <1>2, Labels DEF StopSignal, Goto, call
  <2>5. told' = told \cup {p}
    BY <1>2, <2>1 DEF StopSignal, told
  <2>6. UNCHANGED reaped
    BY <1>2, <2>1, <2>2 DEF StopSignal, reaped
  <2>7. Promise!Interrupt(c)
    BY <1>2, <2>1, <2>2, <2>3, <2>4, <2>5, <2>6, Labels
       DEF StopSignal, Promise!Interrupt, call, told
  <2> QED BY <2>7 DEF Promise!Next
<1>3. CASE StopDone(c)
  <2>1. OwnsProcess(at[c])
    BY <1>3 DEF StopDone, Inv, ProgressOK, CallerOK
  <2>2. held[at[c]] \in reaped
    BY <1>3, <2>1 DEF StopDone, held, reaped, OwnsProcess
  <2>3. UNCHANGED <<op, at, life, told, reaped>>
    BY <1>3 DEF StopDone, life, told, reaped
  <2>4. call' = [call EXCEPT ![c] = StopResult(c)]
    BY <1>3, CallMoves, Labels DEF StopDone, StopResult
  <2>5. held' = [held EXCEPT ![at[c]] = None]
    BY <1>3 DEF StopDone, held, OwnsProcess
  <2>6. Promise!Finish(c)
    BY <1>3, <2>2, <2>3, <2>4, <2>5, Labels
       DEF StopDone, StopResult, Promise!Finish, Promise!Move, Promise!Hold, call
  <2> QED BY <2>6 DEF Promise!Next
<1>4. CASE StopKill(c)
  <2> DEFINE p == cmd[at[c]]
  <2>1. p \in Procs /\ state[p] # "unborn"
    BY <1>4 DEF StopKill, Inv, ProgressOK, CallerOK, OwnsProcess, CmdOK
  <2>2. UNCHANGED <<op, at, held, reaped>>
    BY <1>4 DEF StopKill, held, reaped, OwnsProcess
  <2>3. UNCHANGED told
    BY <1>4 DEF StopKill, told
  <2>4. UNCHANGED call
    BY <1>4, Labels DEF StopKill, Goto, call
  <2>5. state' = [state EXCEPT ![p] = "dead"]
    BY <1>4 DEF StopKill
  <2> QED BY <2>1, <2>2, <2>3, <2>4, <2>5, Dying DEF Promise!Next, Promise!vars
<1> QED BY <1>1, <1>2, <1>3, <1>4

\* Entering and leaving the code of the Manager.
LEMMA RefineCall ==
  ASSUME TypeOK, Inv, NEW c \in Callers, Calls(c) \/ Acquire(c)
  PROVE  Promise!Next
<1> USE DEF TypeOK, mgrVars, callVars, procVars
<1>0. UNCHANGED <<held, life, told, reaped>>
  BY DEF Calls, CallStart, CallStop, Acquire, held, life, told, reaped, OwnsProcess
<1>1. ASSUME NEW m \in Managers, NEW x \in Contexts, CallStart(c, m, x)
      PROVE  Promise!Next
  <2>1. call' = [call EXCEPT ![c] = "queued"]
    BY <1>1, CallMoves, Labels DEF CallStart
  <2>2. Promise!Call(c, "Start", m)
    BY <1>0, <1>1, <2>1, Labels
       DEF CallStart, Promise!Call, Promise!Move, Promise!Out, call
  <2> QED BY <2>2 DEF Promise!Next
<1>2. ASSUME NEW m \in Managers, CallStop(c, m) PROVE Promise!Next
  <2>1. call' = [call EXCEPT ![c] = "queued"]
    BY <1>2, CallMoves, Labels DEF CallStop
  <2>2. Promise!Call(c, "Stop", m)
    BY <1>0, <1>2, <2>1, Labels
       DEF CallStop, Promise!Call, Promise!Move, Promise!Out, call
  <2> QED BY <2>2 DEF Promise!Next
<1>3. CASE Acquire(c)
  <2>1. call' = [call EXCEPT ![c] = IF op[c] = "Start" THEN "starting" ELSE "stopping"]
    BY <1>3, CallMoves, Labels DEF Acquire
  <2>2. ASSUME NEW d \in Callers, at[d] = at[c] PROVE call[d] \notin Promise!Inside
    <3>1. pc[d] \in {"idle", "ok", "err", "lock"}
      BY <1>3, <2>2, ConstantsAssumption DEF Acquire, Inv, MutexOK
    <3> QED BY <3>1, Labels DEF call, Promise!Inside
  <2>3. Promise!Enter(c)
    BY <1>0, <1>3, <2>1, <2>2, Labels DEF Acquire, Promise!Enter, Promise!Move, call
  <2> QED BY <2>3 DEF Promise!Next
<1> QED BY <1>1, <1>2, <1>3 DEF Calls

\* The environment.
LEMMA RefineDaemon ==
  ASSUME TypeOK, Inv, NEW p \in Procs, Daemon(p)
  PROVE  [Promise!Next]_(Promise!vars)
<1> USE DEF TypeOK, mgrVars, callVars, procVars
<1>0. UNCHANGED <<call, op, at, held, told>>
  <2>1. UNCHANGED <<mgrVars, callVars>>
    BY DEF Daemon, Reap, LeaseKill, LaunchExternal, Bind, BindFails, Crash,
           ExitOnInterrupt
  <2>2. \A q \in Procs : "INT" \in signals'[q] <=> "INT" \in signals[q]
    BY DEF Daemon, Reap, LeaseKill, LaunchExternal, Bind, BindFails, Crash,
           ExitOnInterrupt
  <2> QED BY <2>1, <2>2 DEF call, held, told, OwnsProcess
<1>1. CASE Reap(p)
  <2>1. p \in told \ reaped /\ life[p] = "down"
    BY <1>1 DEF Reap, Inv, WaitOK, told, reaped, life, LifeLabel
  <2>2. reaped' = reaped \cup {p} /\ UNCHANGED life
    BY <1>1 DEF Reap, reaped, life
  <2>3. Promise!Reap(p)
    BY <1>0, <2>1, <2>2 DEF Promise!Reap
  <2> QED BY <2>3 DEF Promise!Next
<1>2. CASE LeaseKill(p) \/ BindFails(p) \/ Crash(p) \/ ExitOnInterrupt(p)
  <2>1. state[p] # "unborn" /\ state' = [state EXCEPT ![p] = "dead"]
    BY <1>2 DEF LeaseKill, BindFails, Crash, ExitOnInterrupt
  <2>2. UNCHANGED reaped
    BY <1>2 DEF LeaseKill, BindFails, Crash, ExitOnInterrupt, reaped
  <2> QED BY <1>0, <2>1, <2>2, Dying DEF Promise!Next, Promise!vars
<1>3. CASE LaunchExternal(p)
  <2>1. life[p] = "unborn" /\ life' = [life EXCEPT ![p] = "up"]
    BY <1>3, LifeMoves DEF LaunchExternal, life, LifeLabel
  <2>2. UNCHANGED reaped
    BY <1>3 DEF LaunchExternal, reaped
  <2>3. Promise!LaunchExternal(p)
    BY <1>0, <1>3, <2>1, <2>2 DEF LaunchExternal, Promise!LaunchExternal
  <2> QED BY <2>3 DEF Promise!Next
<1>4. CASE Bind(p)
  <2>1. UNCHANGED <<life, reaped>>
    BY <1>4 DEF Bind, life, LifeLabel, reaped
  <2> QED BY <1>0, <2>1 DEF Promise!vars
<1> QED BY <1>1, <1>2, <1>3, <1>4 DEF Daemon

LEMMA RefineCrash ==
  ASSUME TypeOK, Inv, NEW m \in Managers, HostCrash(m)
  PROVE  Promise!Next
<1> USE DEF TypeOK
<1>1. call' = [c \in Callers |-> IF at[c] = m THEN "idle" ELSE call[c]]
  BY Labels DEF HostCrash, call
<1>2. held' = [held EXCEPT ![m] = None]
  BY DEF HostCrash, held, OwnsProcess
<1>3. UNCHANGED <<life, told>>
  BY DEF HostCrash, life, told
<1>4. UNCHANGED reaped
  BY DEF HostCrash, reaped
<1>5. Promise!Forget(m)
  BY <1>1, <1>2, <1>3, <1>4 DEF HostCrash, Promise!Forget
<1> QED BY <1>5 DEF Promise!Next

\* Start and Stop implement Ownership.
THEOREM Refinement == Spec => KeepsPromise
<1>1. TypeOK /\ Inv /\ [Next]_vars => [Promise!Next]_(Promise!vars)
  <2> SUFFICES ASSUME TypeOK, Inv, [Next]_vars PROVE [Promise!Next]_(Promise!vars)
    OBVIOUS
  <2>1. ASSUME NEW c \in Callers, Calls(c) \/ Acquire(c) PROVE Promise!Next
    BY <2>1, RefineCall
  <2>2. ASSUME NEW c \in Callers, Body(c) PROVE [Promise!Next]_(Promise!vars)
    BY <2>2, RefineStart, RefinePoll, RefineStop DEF Body
  <2>3. ASSUME NEW p \in Procs, Daemon(p) PROVE [Promise!Next]_(Promise!vars)
    BY <2>3, RefineDaemon
  <2>4. ASSUME NEW m \in Managers, HostCrash(m) PROVE Promise!Next
    BY <2>4, RefineCrash
  <2>5. ASSUME NEW x \in Contexts, Cancel(x) PROVE UNCHANGED Promise!vars
    BY <2>5 DEF Cancel, mgrVars, callVars, procVars, Promise!vars, call, held, life,
                told, reaped, OwnsProcess
  <2>6. CASE UNCHANGED vars
    BY <2>6 DEF vars, mgrVars, callVars, procVars, Promise!vars, call, held, life,
                told, reaped, OwnsProcess
  <2> QED BY <2>1, <2>2, <2>3, <2>4, <2>5, <2>6 DEF Next
<1> QED BY <1>1, RefineInit, TypeCorrect, Invariance, PTL DEF Spec, KeepsPromise, Promise!Spec

\* A process is held by one Manager at most, which launched it: two programs that
\* share the socket never stop each other's daemon, nor that of a user.
HeldByOne ==
  \A m \in Managers : held[m] # None =>
    /\ held[m] \in Procs \ External
    /\ owner[held[m]] = m
    /\ \A n \in Managers : held[n] = held[m] => n = m

\* What a Manager would stop is its own child (manager.go:119-125), however many
\* Managers and users share the socket.
THEOREM OneHolder == Spec => []HeldByOne
<1>1. TypeOK /\ Inv => HeldByOne
  <2> SUFFICES ASSUME TypeOK, Inv, NEW m \in Managers, held[m] # None
               PROVE  /\ held[m] \in Procs \ External
                      /\ owner[held[m]] = m
                      /\ \A n \in Managers : held[n] = held[m] => n = m
    BY DEF HeldByOne
  <2>1. ASSUME NEW n \in Managers, held[n] # None
        PROVE  held[n] \in Procs /\ owner[held[n]] = n
    BY <2>1 DEF held, OwnsProcess, Inv, CmdOK
  <2>2. held[m] \notin External
    BY <2>1, ConstantsAssumption DEF Inv, BirthOK
  <2>3. ASSUME NEW n \in Managers, held[n] = held[m] PROVE n = m
    BY <2>1, <2>3
  <2> QED BY <2>1, <2>2, <2>3
<1> QED BY <1>1, TypeCorrect, Invariance, PTL
================================================================================
