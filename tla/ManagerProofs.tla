----------------------------- MODULE ManagerProofs -----------------------------
(***************************************************************************)
(* Proofs about the Manager, for every number of Managers, callers,        *)
(* processes and contexts, external daemons and crashes included.          *)
(***************************************************************************)
EXTENDS Manager, TLAPS

\* What the values of pc, and the tuples of variables, stand for.
USE DEF PCs, Locked, Starting, Spawning, Stopping, Returned, Alive

\* Every variable keeps its type: in particular wait, lease and owner stay
\* defined for whatever m.cmd points to.
THEOREM TypeCorrect == Spec => []TypeOK
<1> USE ConstantsAssumption
<1>1. Init => TypeOK
  BY DEF Init, TypeOK
<1>2. TypeOK /\ [Next]_vars => TypeOK'
  <2> SUFFICES ASSUME TypeOK, [Next]_vars PROVE TypeOK'
    OBVIOUS
  <2> USE DEF TypeOK, Goto, Return, mgrVars, callVars, procVars
  <2>1. ASSUME NEW c \in Callers, Calls(c) PROVE TypeOK'
    BY <2>1 DEF Calls, CallStart, CallStop
  <2>2. ASSUME NEW c \in Callers, Acquire(c) PROVE TypeOK'
    BY <2>2 DEF Acquire
  <2>3. ASSUME NEW c \in Callers, Body(c) PROVE TypeOK'
    <3>1. CASE FoundAlive(c)
      BY <3>1 DEF FoundAlive
    <3>2. CASE \/ FoundDead(c) \/ ResolveFails(c) \/ StatSocket(c)
               \/ RemoveSocket(c) \/ RemoveFails(c)
      BY <3>2 DEF FoundDead, ResolveFails, StatSocket, RemoveSocket, RemoveFails
    <3>3. ASSUME NEW p \in Procs, Spawn(c, p) PROVE TypeOK'
      BY <3>3 DEF Spawn
    <3>4. CASE SpawnFails(c)
      BY <3>4 DEF SpawnFails
    <3>5. CASE PollReady(c)
      BY <3>5 DEF PollReady
    <3>6. CASE PollRetry(c)
      BY <3>6 DEF PollRetry
    <3>7. CASE PollAborts(c) \/ PollTimesOut(c)
      BY <3>7 DEF PollAborts, PollTimesOut
    <3>8. CASE StopNoop(c)
      BY <3>8 DEF StopNoop, StopResult
    <3>9. CASE StopSignal(c)
      BY <3>9 DEF StopSignal, OwnsProcess
    <3>10. CASE StopDone(c)
      BY <3>10 DEF StopDone, StopResult
    <3>11. CASE StopKill(c)
      BY <3>11 DEF StopKill
    <3> QED BY <2>3, <3>1, <3>2, <3>3, <3>4, <3>5, <3>6, <3>7, <3>8, <3>9, <3>10, <3>11
            DEF Body
  <2>4. ASSUME NEW p \in Procs, Daemon(p) PROVE TypeOK'
    BY <2>4 DEF Daemon, Reap, LeaseKill, LaunchExternal, Bind, BindFails, Crash,
                ExitOnInterrupt
  <2>5. ASSUME NEW x \in Contexts, Cancel(x) PROVE TypeOK'
    BY <2>5 DEF Cancel
  <2>6. ASSUME NEW m \in Managers, HostCrash(m) PROVE TypeOK'
    BY <2>6 DEF HostCrash
  <2>7. CASE UNCHANGED vars
    BY <2>7 DEF vars
  <2> QED BY <2>1, <2>2, <2>3, <2>4, <2>5, <2>6, <2>7 DEF Next
<1> QED BY <1>1, <1>2, PTL DEF Spec
--------------------------------------------------------------------------------
(***************************************************************************)
(* The inductive invariant.  Each part is preserved by every step that     *)
(* starts where the parts it rests on hold.                                *)
(***************************************************************************)
\* A step inside a method is one of its statements.
LEMMA BodySteps ==
  ASSUME TypeOK, NEW c \in Callers, Body(c)
  PROVE  \/ /\ pc[c] \in Locked
            /\ \E l \in Locked : Goto(c, l)
            /\ UNCHANGED <<mu, op, at, ctx>>
         \/ /\ pc[c] \in Locked
            /\ \E r \in Returned : Return(c, r)
            /\ UNCHANGED <<op, at>>
<1> USE DEF mgrVars
<1>1. CASE FoundAlive(c) \/ ResolveFails(c) \/ SpawnFails(c) \/ PollReady(c)
  BY <1>1 DEF FoundAlive, ResolveFails, SpawnFails, PollReady
<1>2. CASE StopNoop(c) \/ StopDone(c)
  BY <1>2 DEF StopNoop, StopDone, StopResult
<1>3. CASE \/ FoundDead(c) \/ RemoveSocket(c) \/ RemoveFails(c)
           \/ \E p \in Procs : Spawn(c, p)
  BY <1>3 DEF FoundDead, RemoveSocket, RemoveFails, Spawn
<1>4. CASE StatSocket(c)
  BY <1>4 DEF StatSocket
<1>5. CASE PollRetry(c)
  <2>1. pc' = [pc EXCEPT ![c] = "poll"]
    BY <1>5 DEF PollRetry, TypeOK
  <2> QED BY <1>5, <2>1 DEF PollRetry, Goto
<1>6. CASE PollAborts(c) \/ PollTimesOut(c) \/ StopSignal(c) \/ StopKill(c)
  BY <1>6 DEF PollAborts, PollTimesOut, StopSignal, StopKill
<1> QED BY <1>1, <1>2, <1>3, <1>4, <1>5, <1>6 DEF Body

LEMMA MutexStep == TypeOK /\ MutexOK /\ [Next]_vars => MutexOK'
<1> SUFFICES ASSUME TypeOK, MutexOK, [Next]_vars PROVE MutexOK'
  OBVIOUS
<1> USE ConstantsAssumption DEF TypeOK, MutexOK, Goto, mgrVars, callVars
<1>1. ASSUME NEW c \in Callers, Calls(c) PROVE MutexOK'
  BY <1>1 DEF Calls, CallStart, CallStop
<1>2. ASSUME NEW c \in Callers, Acquire(c) PROVE MutexOK'
  BY <1>2 DEF Acquire
<1>3. ASSUME NEW c \in Callers, Body(c) PROVE MutexOK'
  BY <1>3, BodySteps DEF Return
<1>4. ASSUME NEW p \in Procs, Daemon(p) PROVE MutexOK'
  BY <1>4 DEF Daemon, Reap, LeaseKill, LaunchExternal, Bind, BindFails, Crash,
              ExitOnInterrupt
<1>5. ASSUME NEW x \in Contexts, Cancel(x) PROVE MutexOK'
  BY <1>5 DEF Cancel
<1>6. ASSUME NEW m \in Managers, HostCrash(m) PROVE MutexOK'
  BY <1>6 DEF HostCrash
<1>7. CASE UNCHANGED vars
  BY <1>7 DEF vars
<1> QED BY <1>1, <1>2, <1>3, <1>4, <1>5, <1>6, <1>7 DEF Next

LEMMA CmdStep == TypeOK /\ BirthOK /\ CmdOK /\ [Next]_vars => CmdOK'
<1> SUFFICES ASSUME TypeOK, BirthOK, CmdOK, [Next]_vars PROVE CmdOK'
  OBVIOUS
<1> USE ConstantsAssumption DEF TypeOK, CmdOK, BirthOK, mgrVars, callVars, procVars
<1>1. ASSUME NEW c \in Callers, Calls(c) PROVE CmdOK'
  BY <1>1 DEF Calls, CallStart, CallStop
<1>2. ASSUME NEW c \in Callers, Acquire(c) PROVE CmdOK'
  BY <1>2 DEF Acquire
<1>3. ASSUME NEW c \in Callers, Body(c) PROVE CmdOK'
  <2>1. ASSUME NEW p \in Procs, Spawn(c, p) PROVE CmdOK'
    BY <1>3, <2>1 DEF Spawn
  <2>2. CASE SpawnFails(c)
    BY <2>2 DEF SpawnFails
  <2>3. CASE StopDone(c)
    BY <2>3 DEF StopDone
  <2>4. CASE StopKill(c)
    BY <2>4 DEF StopKill
  <2>5. CASE UNCHANGED <<cmd, owner, state>>
    BY <2>5
  <2> QED
    BY <1>3, <2>1, <2>2, <2>3, <2>4, <2>5
       DEF Body, FoundAlive, FoundDead, ResolveFails, StatSocket, RemoveSocket,
           RemoveFails, PollReady, PollRetry, PollAborts, PollTimesOut, StopNoop,
           StopSignal
<1>4. ASSUME NEW p \in Procs, Daemon(p) PROVE CmdOK'
  BY <1>4 DEF Daemon, Reap, LeaseKill, LaunchExternal, Bind, BindFails, Crash,
              ExitOnInterrupt
<1>5. ASSUME NEW x \in Contexts, Cancel(x) PROVE CmdOK'
  BY <1>5 DEF Cancel
<1>6. ASSUME NEW m \in Managers, HostCrash(m) PROVE CmdOK'
  BY <1>6 DEF HostCrash
<1>7. CASE UNCHANGED vars
  BY <1>7 DEF vars
<1> QED BY <1>1, <1>2, <1>3, <1>4, <1>5, <1>6, <1>7 DEF Next

LEMMA BirthStep == TypeOK /\ CmdOK /\ BirthOK /\ [Next]_vars => BirthOK'
<1> SUFFICES ASSUME TypeOK, CmdOK, BirthOK, [Next]_vars PROVE BirthOK'
  OBVIOUS
<1> USE ConstantsAssumption
    DEF TypeOK, CmdOK, BirthOK, OwnsProcess, mgrVars, callVars, procVars
<1>1. ASSUME NEW c \in Callers, Calls(c) PROVE BirthOK'
  BY <1>1 DEF Calls, CallStart, CallStop
<1>2. ASSUME NEW c \in Callers, Acquire(c) PROVE BirthOK'
  BY <1>2 DEF Acquire
<1>3. ASSUME NEW c \in Callers, Body(c) PROVE BirthOK'
  <2>1. ASSUME NEW p \in Procs, Spawn(c, p) PROVE BirthOK'
    BY <1>3, <2>1 DEF Spawn
  <2>2. CASE StopSignal(c)
    BY <2>2 DEF StopSignal
  <2>3. CASE StopKill(c)
    BY <2>3 DEF StopKill
  <2>4. CASE UNCHANGED <<state, owner, wait, signals>>
    BY <2>4
  <2> QED
    BY <1>3, <2>1, <2>2, <2>3, <2>4
       DEF Body, FoundAlive, FoundDead, ResolveFails, StatSocket, RemoveSocket,
           RemoveFails, SpawnFails, PollReady, PollRetry, PollAborts,
           PollTimesOut, StopNoop, StopDone
<1>4. ASSUME NEW p \in Procs, Daemon(p) PROVE BirthOK'
  BY <1>4 DEF Daemon, Reap, LeaseKill, LaunchExternal, Bind, BindFails, Crash,
              ExitOnInterrupt
<1>5. ASSUME NEW x \in Contexts, Cancel(x) PROVE BirthOK'
  BY <1>5 DEF Cancel
<1>6. ASSUME NEW m \in Managers, HostCrash(m) PROVE BirthOK'
  BY <1>6 DEF HostCrash
<1>7. CASE UNCHANGED vars
  BY <1>7 DEF vars
<1> QED BY <1>1, <1>2, <1>3, <1>4, <1>5, <1>6, <1>7 DEF Next

LEMMA WaitStep == TypeOK /\ BirthOK /\ WaitOK /\ [Next]_vars => WaitOK'
<1> SUFFICES ASSUME TypeOK, BirthOK, WaitOK, [Next]_vars PROVE WaitOK'
  OBVIOUS
<1> USE ConstantsAssumption
    DEF TypeOK, WaitOK, BirthOK, OwnsProcess, mgrVars, callVars, procVars
<1>1. ASSUME NEW c \in Callers, Calls(c) PROVE WaitOK'
  BY <1>1 DEF Calls, CallStart, CallStop
<1>2. ASSUME NEW c \in Callers, Acquire(c) PROVE WaitOK'
  BY <1>2 DEF Acquire
<1>3. ASSUME NEW c \in Callers, Body(c) PROVE WaitOK'
  <2>1. ASSUME NEW p \in Procs, Spawn(c, p) PROVE WaitOK'
    BY <1>3, <2>1 DEF Spawn
  <2>2. CASE StopSignal(c)
    BY <2>2 DEF StopSignal
  <2>3. CASE StopKill(c)
    BY <2>3 DEF StopKill
  <2>4. CASE UNCHANGED <<state, wait, signals>>
    BY <2>4
  <2> QED
    BY <1>3, <2>1, <2>2, <2>3, <2>4
       DEF Body, FoundAlive, FoundDead, ResolveFails, StatSocket, RemoveSocket,
           RemoveFails, SpawnFails, PollReady, PollRetry, PollAborts,
           PollTimesOut, StopNoop, StopDone
<1>4. ASSUME NEW p \in Procs, Daemon(p) PROVE WaitOK'
  BY <1>4 DEF Daemon, Reap, LeaseKill, LaunchExternal, Bind, BindFails, Crash,
              ExitOnInterrupt
<1>5. ASSUME NEW x \in Contexts, Cancel(x) PROVE WaitOK'
  BY <1>5 DEF Cancel
<1>6. ASSUME NEW m \in Managers, HostCrash(m) PROVE WaitOK'
  BY <1>6 DEF HostCrash
<1>7. CASE UNCHANGED vars
  BY <1>7 DEF vars
<1> QED BY <1>1, <1>2, <1>3, <1>4, <1>5, <1>6, <1>7 DEF Next

\* Between the callers inside methods there is nothing to interfere: two of
\* them are never inside methods of the same Manager.
LEMMA Alone ==
  ASSUME TypeOK, MutexOK, NEW c \in Callers, NEW d \in Callers,
         pc[c] \in Locked, pc[d] \in Locked, at[c] = at[d]
  PROVE  c = d
BY DEF TypeOK, MutexOK

LEMMA ProgressStep ==
  TypeOK /\ MutexOK /\ CmdOK /\ ProgressOK /\ [Next]_vars => ProgressOK'
<1> SUFFICES ASSUME TypeOK, MutexOK, CmdOK, ProgressOK, [Next]_vars,
                    NEW d \in Callers
             PROVE  CallerOK(d)'
  BY DEF ProgressOK
<1>0. CallerOK(d)
  BY DEF ProgressOK
<1> USE ConstantsAssumption
    DEF TypeOK, CallerOK, OwnsProcess, Goto, Return, mgrVars, callVars, procVars
<1>1. ASSUME NEW c \in Callers, Calls(c) PROVE CallerOK(d)'
  BY <1>0, <1>1 DEF Calls, CallStart, CallStop
<1>2. ASSUME NEW c \in Callers, Acquire(c) PROVE CallerOK(d)'
  BY <1>0, <1>2 DEF Acquire
<1>3. ASSUME NEW c \in Callers, Body(c) PROVE CallerOK(d)'
  <2>1. CASE c = d
    <3>1. CASE FoundAlive(c) \/ ResolveFails(c) \/ SpawnFails(c) \/ PollReady(c)
      BY <2>1, <3>1 DEF FoundAlive, ResolveFails, SpawnFails, PollReady
    <3>2. CASE StopNoop(c) \/ StopDone(c)
      BY <2>1, <3>2 DEF StopNoop, StopDone, StopResult
    <3>3. CASE FoundDead(c) \/ StatSocket(c) \/ RemoveSocket(c) \/ RemoveFails(c)
      BY <1>0, <2>1, <3>3 DEF FoundDead, StatSocket, RemoveSocket, RemoveFails
    <3>4. ASSUME NEW p \in Procs, Spawn(c, p) PROVE CallerOK(d)'
      BY <1>0, <2>1, <3>4 DEF Spawn
    <3>5. CASE PollRetry(c) \/ PollAborts(c) \/ PollTimesOut(c)
      BY <1>0, <2>1, <3>5 DEF PollRetry, PollAborts, PollTimesOut
    <3>6. CASE StopSignal(c)
      BY <1>0, <2>1, <3>6 DEF StopSignal
    <3>7. CASE StopKill(c)
      BY <1>0, <2>1, <3>7 DEF StopKill
    <3> QED BY <1>3, <3>1, <3>2, <3>3, <3>4, <3>5, <3>6, <3>7 DEF Body
  <2>2. CASE c # d /\ pc[d] \notin Locked
    BY <1>3, <2>2, BodySteps
  <2>3. CASE c # d /\ pc[d] \in Locked
    <3>1. at[c] # at[d] /\ pc[c] \in Locked
      BY <1>3, <2>3, Alone, BodySteps
    <3>2. /\ pc'[d] = pc[d] /\ at'[d] = at[d] /\ op'[d] = op[d]
      BY <1>3, <2>3, BodySteps
    <3>3. /\ managed'[at[d]] = managed[at[d]]
          /\ cmd'[at[d]] = cmd[at[d]]
      BY <1>3, <3>1
         DEF Body, FoundAlive, FoundDead, ResolveFails, StatSocket, RemoveSocket,
             RemoveFails, Spawn, SpawnFails, PollReady, PollRetry, PollAborts,
             PollTimesOut, StopNoop, StopSignal, StopDone, StopKill
    <3>4. ASSUME NEW p \in Procs, wait[p] # "none" PROVE wait'[p] # "none"
      BY <1>3, <3>4
         DEF Body, FoundAlive, FoundDead, ResolveFails, StatSocket, RemoveSocket,
             RemoveFails, Spawn, SpawnFails, PollReady, PollRetry, PollAborts,
             PollTimesOut, StopNoop, StopSignal, StopDone, StopKill
    <3> QED BY <1>0, <3>2, <3>3, <3>4
  <2> QED BY <2>1, <2>2, <2>3
<1>4. ASSUME NEW p \in Procs, Daemon(p) PROVE CallerOK(d)'
  BY <1>0, <1>4 DEF Daemon, Reap, LeaseKill, LaunchExternal, Bind, BindFails, Crash,
                    ExitOnInterrupt
<1>5. ASSUME NEW x \in Contexts, Cancel(x) PROVE CallerOK(d)'
  BY <1>0, <1>5 DEF Cancel
<1>6. ASSUME NEW m \in Managers, HostCrash(m) PROVE CallerOK(d)'
  BY <1>0, <1>6 DEF HostCrash, CmdOK
<1>7. CASE UNCHANGED vars
  BY <1>0, <1>7 DEF vars
<1> QED BY <1>1, <1>2, <1>3, <1>4, <1>5, <1>6, <1>7 DEF Next

LEMMA InterruptedStep ==
  TypeOK /\ Inv /\ [Next]_vars => InterruptedOK'
<1> SUFFICES ASSUME TypeOK, Inv, [Next]_vars,
                    NEW m \in Managers, cmd'[m] \in Procs,
                    "INT" \in signals'[cmd'[m]]
             PROVE  (\E c \in Callers : at[c] = m /\ pc[c] \in {"select", "reap"})'
  BY DEF InterruptedOK
<1>0. cmd[m] \in Procs /\ "INT" \in signals[cmd[m]] =>
        \E c \in Callers : at[c] = m /\ pc[c] \in {"select", "reap"}
  BY DEF Inv, InterruptedOK
<1> DEFINE Old == cmd'[m] = cmd[m] /\ "INT" \in signals[cmd[m]]
           Kept == \A c \in Callers : pc[c] \in {"select", "reap"} /\ at[c] = m =>
                     pc'[c] \in {"select", "reap"} /\ at'[c] = at[c]
<1>a. SUFFICES ASSUME ~(Old /\ Kept) PROVE
             (\E c \in Callers : at[c] = m /\ pc[c] \in {"select", "reap"})'
  BY <1>0
<1> USE ConstantsAssumption
    DEF TypeOK, OwnsProcess, Goto, Return, mgrVars, callVars, procVars
<1>1. ASSUME NEW c \in Callers, Calls(c) PROVE FALSE
  BY <1>a, <1>1 DEF Calls, CallStart, CallStop
<1>2. ASSUME NEW c \in Callers, Acquire(c) PROVE FALSE
  BY <1>a, <1>2 DEF Acquire
<1>3. ASSUME NEW c \in Callers, Body(c)
      PROVE  (\E d \in Callers : at[d] = m /\ pc[d] \in {"select", "reap"})'
  <2>1. CASE StopSignal(c)
    <3>1. CASE at[c] = m
      BY <2>1, <3>1 DEF StopSignal
    <3>2. CASE at[c] # m
      <4>1. cmd[m] # cmd[at[c]]
        BY <2>1, <3>2 DEF StopSignal, Inv, CmdOK
      <4> QED BY <1>a, <2>1, <3>2, <4>1 DEF StopSignal
    <3> QED BY <3>1, <3>2
  <2>2. CASE StopDone(c)
    BY <1>a, <2>2 DEF StopDone
  <2>3. CASE StopKill(c)
    BY <1>a, <2>3 DEF StopKill
  <2>4. ASSUME NEW p \in Procs, Spawn(c, p) PROVE FALSE
    BY <1>a, <2>4 DEF Spawn, Inv, BirthOK
  <2>5. CASE SpawnFails(c)
    BY <1>a, <2>5 DEF SpawnFails
  <2>6. CASE UNCHANGED <<cmd, signals>> /\ pc[c] \notin {"select", "reap"}
    BY <1>a, <1>3, <2>6, BodySteps
  <2> QED
    BY <1>3, <2>1, <2>2, <2>3, <2>4, <2>5, <2>6
       DEF Body, FoundAlive, FoundDead, ResolveFails, StatSocket, RemoveSocket,
           RemoveFails, PollReady, PollRetry, PollAborts, PollTimesOut, StopNoop
<1>4. ASSUME NEW p \in Procs, Daemon(p) PROVE FALSE
  BY <1>a, <1>4 DEF Daemon, Reap, LeaseKill, LaunchExternal, Bind, BindFails, Crash,
              ExitOnInterrupt
<1>5. ASSUME NEW x \in Contexts, Cancel(x) PROVE FALSE
  BY <1>a, <1>5 DEF Cancel
<1>6. ASSUME NEW n \in Managers, HostCrash(n) PROVE FALSE
  BY <1>a, <1>6 DEF HostCrash
<1>7. CASE UNCHANGED vars
  BY <1>a, <1>7 DEF vars
<1> QED BY <1>1, <1>2, <1>3, <1>4, <1>5, <1>6, <1>7 DEF Next

\* The invariant holds in every reachable state.
THEOREM Invariance == Spec => []Inv
<1>1. Init => Inv
  BY ConstantsAssumption
     DEF Init, Inv, MutexOK, CmdOK, BirthOK, ProgressOK, CallerOK, InterruptedOK,
         WaitOK
<1>2. TypeOK /\ Inv /\ [Next]_vars => Inv'
  BY MutexStep, CmdStep, BirthStep, ProgressStep, InterruptedStep, WaitStep DEF Inv
<1> QED BY <1>1, <1>2, TypeCorrect, PTL DEF Spec
--------------------------------------------------------------------------------
(***************************************************************************)
(* The action properties: what one step may do where the invariant holds.  *)
(***************************************************************************)
\* No signal to anything but the Manager's own child, and one interrupt.
THEOREM SignalsSafe == Spec => SignalsOnlyOwn
<1> DEFINE Own == \A p \in Procs : signals'[p] # signals[p] =>
                    owner[p] \in Managers /\ wait[p] # "done"
           Once == \A c \in Callers : pc[c] = "stop" /\ pc'[c] = "select" =>
                     /\ cmd[at[c]] \in Procs
                     /\ owner[cmd[at[c]]] = at[c]
                     /\ "INT" \notin signals[cmd[at[c]]]
<1>1. TypeOK /\ Inv /\ [Next]_vars => Own
  <2> SUFFICES ASSUME TypeOK, Inv, [Next]_vars PROVE Own
    OBVIOUS
  <2> USE ConstantsAssumption DEF TypeOK, OwnsProcess, mgrVars, callVars, procVars
  <2>1. ASSUME NEW c \in Callers, Body(c) PROVE Own
    <3>1. CASE StopSignal(c)
      <4>1. at[c] \in Managers /\ owner[cmd[at[c]]] = at[c]
        BY <3>1 DEF StopSignal, Inv, CmdOK
      <4>2. wait[cmd[at[c]]] = "none"
        BY <3>1, Alone DEF StopSignal, Inv, InterruptedOK, WaitOK
      <4> QED BY <3>1, <4>1, <4>2 DEF StopSignal
    <3>2. CASE StopKill(c)
      <4>1. at[c] \in Managers /\ owner[cmd[at[c]]] = at[c]
        BY <3>2 DEF StopKill, Inv, CmdOK, ProgressOK, CallerOK
      <4> QED BY <3>2, <4>1 DEF StopKill
    <3>3. CASE UNCHANGED signals
      BY <3>3
    <3> QED
      BY <2>1, <3>1, <3>2, <3>3
         DEF Body, FoundAlive, FoundDead, ResolveFails, StatSocket, RemoveSocket,
             RemoveFails, Spawn, SpawnFails, PollReady, PollRetry, PollAborts,
             PollTimesOut, StopNoop, StopDone
  <2>2. ASSUME NEW p \in Procs, Daemon(p) PROVE Own
    BY <2>2 DEF Daemon, Reap, LeaseKill, LaunchExternal, Bind, BindFails, Crash,
                ExitOnInterrupt, Inv, WaitOK, Alive
  <2>3. CASE UNCHANGED signals
    BY <2>3
  <2> QED BY <2>1, <2>2, <2>3
          DEF Next, Calls, CallStart, CallStop, Acquire, Cancel, HostCrash, vars
<1>2. TypeOK /\ Inv /\ [Next]_vars => Once
  <2> SUFFICES ASSUME TypeOK, Inv, [Next]_vars, NEW c \in Callers,
                      pc[c] = "stop", pc'[c] = "select"
               PROVE  /\ cmd[at[c]] \in Procs
                      /\ owner[cmd[at[c]]] = at[c]
                      /\ "INT" \notin signals[cmd[at[c]]]
    OBVIOUS
  <2>1. StopSignal(c)
    <3> USE DEF TypeOK, Goto, Return, mgrVars, callVars
    <3>1. ASSUME NEW d \in Callers, Calls(d) \/ Acquire(d) PROVE FALSE
      BY <3>1 DEF Calls, CallStart, CallStop, Acquire
    <3>2. ASSUME NEW d \in Callers, Body(d) PROVE StopSignal(c)
      <4>1. c = d
        BY <3>2, BodySteps
      <4> QED
        BY <3>2, <4>1
           DEF Body, FoundAlive, FoundDead, ResolveFails, StatSocket,
               RemoveSocket, RemoveFails, Spawn, SpawnFails, PollReady, PollRetry,
               PollAborts, PollTimesOut, StopNoop, StopDone, StopKill, StopResult
    <3>3. ASSUME NEW p \in Procs, Daemon(p) PROVE FALSE
      BY <3>3 DEF Daemon, Reap, LeaseKill, LaunchExternal, Bind, BindFails, Crash,
                  ExitOnInterrupt
    <3>4. ASSUME NEW m \in Managers, HostCrash(m) PROVE FALSE
      BY <3>4 DEF HostCrash
    <3> QED BY <3>1, <3>2, <3>3, <3>4 DEF Next, Cancel, vars
  <2>2. cmd[at[c]] \in Procs /\ at[c] \in Managers
    BY <2>1 DEF StopSignal, OwnsProcess, TypeOK
  <2> QED BY <2>2, Alone DEF Inv, CmdOK, InterruptedOK
<1> QED BY <1>1, <1>2, TypeCorrect, Invariance, PTL DEF Spec, SignalsOnlyOwn

\* A Start that spawned and fails has reaped its child.
THEOREM FailureReaps == Spec => FailedStartReaps
<1> DEFINE Reaped ==
      \A c \in Callers : pc[c] \in {"poll"} \cup Stopping /\ pc'[c] = "err" =>
        /\ cmd[at[c]] \in Procs
        /\ wait[cmd[at[c]]] = "done"
<1>1. ASSUME TypeOK, Inv, [Next]_vars, NEW c \in Callers,
             pc[c] \in {"poll"} \cup Stopping, pc'[c] = "err"
      PROVE  cmd[at[c]] \in Procs /\ wait[cmd[at[c]]] = "done"
  <2> USE <1>1 DEF TypeOK, Goto, Return, mgrVars, callVars
  <2>1. ASSUME NEW d \in Callers, Calls(d) \/ Acquire(d) PROVE FALSE
    BY <2>1 DEF Calls, CallStart, CallStop, Acquire
  <2>2. ASSUME NEW d \in Callers, Body(d)
        PROVE  cmd[at[c]] \in Procs /\ wait[cmd[at[c]]] = "done"
    <3>1. c = d
      BY <2>2, BodySteps
    <3>2. CASE StopNoop(c)
      BY <3>2 DEF StopNoop, StopResult, Inv, ProgressOK, CallerOK
    <3>3. CASE StopDone(c)
      BY <3>3 DEF StopDone, Inv, ProgressOK, CallerOK, OwnsProcess
    <3> QED
      BY <2>2, <3>1, <3>2, <3>3
         DEF Body, FoundAlive, FoundDead, ResolveFails, StatSocket, RemoveSocket,
             RemoveFails, Spawn, SpawnFails, PollReady, PollRetry, PollAborts,
             PollTimesOut, StopSignal, StopKill
  <2>3. ASSUME NEW p \in Procs, Daemon(p) PROVE FALSE
    BY <2>3 DEF Daemon, Reap, LeaseKill, LaunchExternal, Bind, BindFails, Crash,
                ExitOnInterrupt
  <2>4. ASSUME NEW m \in Managers, HostCrash(m) PROVE FALSE
    BY <2>4 DEF HostCrash
  <2> QED BY <2>1, <2>2, <2>3, <2>4 DEF Next, Cancel, vars
<1>2. TypeOK /\ Inv /\ [Next]_vars => Reaped
  BY <1>1
<1> QED BY <1>2, TypeCorrect, Invariance, PTL DEF Spec, FailedStartReaps
--------------------------------------------------------------------------------
(***************************************************************************)
(* A Manager that shares the socket with no other Manager.                 *)
(***************************************************************************)
\* Only a stray binds the path that was cleared for another.
PathOK == sock \in {None} \cup strays

\* A daemon that is no stray boots only while the Start that spawned it, or the
\* Stop within, goes on; nothing but it and the strays binds the path that was
\* cleared for it.
BootOK ==
  /\ External \subseteq strays
  /\ \A p \in Procs \ strays : state[p] = "booting" =>
       /\ PathOK
       /\ \E c \in Callers :
            pc[c] \in {"poll"} \cup Stopping /\ OwnsProcess(at[c]) /\ cmd[at[c]] = p
  /\ \A c \in Callers : pc[c] = "spawn" => PathOK
  /\ \A c \in Callers : pc[c] = "poll" /\ cmd[at[c]] \notin strays =>
       PathOK \/ sock = cmd[at[c]]

\* Two callers are never inside methods.
LEMMA OneInside ==
  ASSUME OneManager, TypeOK, MutexOK, NEW c \in Callers, NEW d \in Callers,
         pc[c] \in Locked, pc[d] \in Locked
  PROVE  c = d
<1>1. at[c] = at[d]
  BY DEF OneManager, TypeOK
<1> QED BY <1>1, Alone

\* A daemon that boots and is no stray is that of the caller inside a method,
\* which waits for it or stops it.
LEMMA Booter ==
  ASSUME OneManager, TypeOK, MutexOK, BootOK, NEW c \in Callers, pc[c] \in Locked,
         NEW p \in Procs \ strays, state[p] = "booting"
  PROVE  pc[c] \in {"poll"} \cup Stopping /\ OwnsProcess(at[c]) /\ cmd[at[c]] = p
<1>1. PICK d \in Callers :
        pc[d] \in {"poll"} \cup Stopping /\ OwnsProcess(at[d]) /\ cmd[at[d]] = p
  BY DEF BootOK
<1>2. d = c
  BY <1>1, OneInside
<1> QED BY <1>1, <1>2

\* A step of a caller keeps the path free for the daemon that boots.
LEMMA BootBody ==
  ASSUME OneManager, TypeOK, Inv, BootOK, NEW c \in Callers, Body(c)
  PROVE  BootOK'
<1> USE DEF TypeOK, mgrVars, callVars, procVars
<1>1. MutexOK /\ pc[c] \in Locked
  BY BodySteps DEF Inv
<1>2. ASSUME NEW d \in Callers, d # c PROVE pc[d] \notin Locked /\ pc'[d] = pc[d]
  <2>1. pc[d] \notin Locked
    BY <1>1, <1>2, OneInside
  <2>2. pc'[d] = pc[d]
    BY <1>2, BodySteps DEF Goto, Return
  <2> QED BY <2>1, <2>2
<1>3. ASSUME NEW p \in Procs \ strays, state[p] = "booting"
      PROVE  /\ pc[c] \in {"poll"} \cup Stopping
             /\ OwnsProcess(at[c]) /\ cmd[at[c]] = p
             /\ PathOK
  <2>1. PathOK
    BY <1>3 DEF BootOK
  <2> QED BY <1>1, <1>3, <2>1, Booter
<1> DEFINE StillFree ==
             /\ strays \subseteq strays'
             /\ \A p \in Procs \ strays' : state'[p] = "booting" =>
                  /\ sock' \in {None} \cup strays'
                  /\ pc'[c] \in {"poll"} \cup Stopping
                  /\ managed'[at'[c]] /\ cmd'[at'[c]] = p
             /\ pc'[c] = "spawn" => sock' \in {None} \cup strays'
             /\ pc'[c] = "poll" /\ cmd'[at'[c]] \notin strays' =>
                  sock' \in {None} \cup strays' \/ sock' = cmd'[at'[c]]
<1>4. SUFFICES StillFree
  BY <1>2 DEF BootOK, PathOK, OwnsProcess
<1>5. CASE FoundAlive(c) \/ FoundDead(c) \/ ResolveFails(c) \/ SpawnFails(c)
  <2>1. /\ pc[c] \in Starting \ {"poll"} /\ UNCHANGED <<state, strays>>
        /\ pc'[c] \notin {"spawn", "poll"}
    BY <1>5 DEF FoundAlive, FoundDead, ResolveFails, SpawnFails, Goto, Return
  <2> QED BY <1>3, <2>1
<1>6. CASE StatSocket(c) \/ RemoveSocket(c) \/ RemoveFails(c)
  <2>1. /\ pc[c] \in Starting \ {"poll"} /\ UNCHANGED <<state, strays>>
        /\ pc'[c] # "poll"
        /\ pc'[c] = "spawn" => sock' = None
    BY <1>6 DEF StatSocket, RemoveSocket, RemoveFails, Goto
  <2> QED BY <1>3, <2>1
<1>7. ASSUME NEW q \in Procs, Spawn(c, q) PROVE StillFree
  <2>1. /\ pc[c] \in Spawning /\ pc'[c] = "poll" /\ at' = at /\ sock' = sock
        /\ cmd'[at[c]] = q /\ managed'[at[c]] = TRUE
        /\ strays \subseteq strays'
        /\ pc[c] = "spawnOver" => q \in strays'
        /\ \A p \in Procs : state'[p] = "booting" => p = q \/ state[p] = "booting"
    BY <1>7 DEF Spawn, Goto
  <2>2. pc[c] = "spawn" => sock \in {None} \cup strays
    BY DEF BootOK, PathOK
  <2>3. \A p \in Procs \ strays' : state'[p] = "booting" => p = q
    BY <1>3, <2>1
  <2> QED BY <2>1, <2>2, <2>3
<1>8. CASE PollReady(c)
  <2>1. /\ pc'[c] \notin {"spawn", "poll"} /\ state' = state
        /\ strays' = strays \cup {p \in Procs : p = cmd[at[c]] /\ state[p] = "booting"}
    BY <1>8 DEF PollReady, Return, Goto
  <2>2. \A p \in Procs \ strays' : state[p] # "booting"
    BY <1>3, <2>1
  <2> QED BY <2>1, <2>2
<1>9. CASE PollRetry(c) \/ PollAborts(c) \/ PollTimesOut(c)
  <2>1. /\ pc[c] = "poll" /\ pc'[c] \in {"poll", "stop"}
        /\ UNCHANGED <<managed, cmd, at, state, sock, strays>>
    BY <1>9 DEF PollRetry, PollAborts, PollTimesOut, Goto
  <2>2. cmd[at[c]] \notin strays => sock \in {None} \cup strays \/ sock = cmd[at[c]]
    BY <2>1 DEF BootOK, PathOK
  <2> QED BY <1>3, <2>1, <2>2 DEF OwnsProcess, PathOK
<1>10. CASE StopNoop(c)
  <2>1. /\ ~OwnsProcess(at[c]) /\ UNCHANGED <<state, strays>>
        /\ pc'[c] \notin {"spawn", "poll"}
    BY <1>10 DEF StopNoop, StopResult, Return, Goto
  <2> QED BY <1>3, <2>1
<1>11. CASE StopSignal(c)
  <2>1. pc'[c] = "select" /\ UNCHANGED <<managed, cmd, at, state, sock, strays>>
    BY <1>11 DEF StopSignal, Goto
  <2> QED BY <1>3, <2>1 DEF OwnsProcess, PathOK
<1>12. CASE StopDone(c)
  <2>1. /\ wait[cmd[at[c]]] = "done" /\ UNCHANGED <<state, strays>>
        /\ pc'[c] \notin {"spawn", "poll"}
    BY <1>12 DEF StopDone, StopResult, Return, Goto
  <2>2. \A p \in Procs \ strays : state[p] # "booting"
    BY <1>3, <2>1 DEF Inv, WaitOK
  <2> QED BY <2>1, <2>2
<1>13. CASE StopKill(c)
  <2>1. /\ pc'[c] = "reap" /\ UNCHANGED <<managed, cmd, at, sock, strays>>
        /\ \A p \in Procs : state'[p] = "booting" => state[p] = "booting"
    BY <1>13 DEF StopKill, Goto
  <2> QED BY <1>3, <2>1 DEF OwnsProcess, PathOK
<1> HIDE DEF StillFree
<1> QED BY <1>5, <1>6, <1>7, <1>8, <1>9, <1>10, <1>11, <1>12, <1>13 DEF Body

\* So does a step of a daemon.
LEMMA BootDaemon ==
  ASSUME OneManager, TypeOK, Inv, BootOK, NEW q \in Procs, Daemon(q)
  PROVE  BootOK'
<1> USE DEF TypeOK, mgrVars, callVars, procVars
<1>1. CASE Bind(q)
  <2>1. /\ state[q] = "booting" /\ sock' = q
        /\ UNCHANGED <<mgrVars, callVars, strays>>
        /\ \A p \in Procs : state'[p] = "booting" => p # q /\ state[p] = "booting"
    BY <1>1 DEF Bind
  <2>2. CASE q \in strays
    BY <2>1, <2>2 DEF BootOK, PathOK, OwnsProcess
  <2>3. CASE q \notin strays
    <3>1. PICK c \in Callers :
            pc[c] \in {"poll"} \cup Stopping /\ OwnsProcess(at[c]) /\ cmd[at[c]] = q
      BY <2>1, <2>3 DEF BootOK
    <3>2. ASSUME NEW p \in Procs \ strays, state'[p] = "booting" PROVE FALSE
      BY <2>1, <3>1, <3>2, Booter DEF Inv
    <3>3. ASSUME NEW d \in Callers, pc[d] \in {"spawn", "poll"}
          PROVE  d = c
      BY <3>1, <3>3, OneInside DEF Inv
    <3>4. \A d \in Callers : pc'[d] # "spawn"
      BY <2>1, <3>1, <3>3
    <3>5. \A d \in Callers : pc'[d] = "poll" => sock' = cmd'[at'[d]]
      BY <2>1, <3>1, <3>3
    <3>6. External \subseteq strays'
      BY <2>1 DEF BootOK
    <3> QED BY <2>1, <3>2, <3>4, <3>5, <3>6 DEF BootOK
  <2> QED BY <2>2, <2>3
<1>2. CASE LaunchExternal(q)
  <2>1. /\ q \in External /\ UNCHANGED <<mgrVars, callVars, sock, strays>>
        /\ \A p \in Procs : state'[p] = "booting" => p = q \/ state[p] = "booting"
    BY <1>2 DEF LaunchExternal
  <2>2. q \in strays
    BY <2>1 DEF BootOK
  <2> QED BY <2>1, <2>2 DEF BootOK, PathOK, OwnsProcess
<1>3. CASE BindFails(q) \/ Crash(q) \/ LeaseKill(q) \/ Reap(q) \/ ExitOnInterrupt(q)
  <2>1. /\ UNCHANGED <<mgrVars, callVars, strays>> /\ sock' \in {sock, None}
        /\ \A p \in Procs : state'[p] = "booting" => state[p] = "booting"
    BY <1>3 DEF BindFails, Crash, LeaseKill, Reap, ExitOnInterrupt
  <2> QED BY <2>1 DEF BootOK, PathOK, OwnsProcess
<1> QED BY <1>1, <1>2, <1>3 DEF Daemon

\* After a crash of the program what was booting is a stray, and no call goes on.
LEMMA BootCrash ==
  ASSUME OneManager, TypeOK, Inv, BootOK, NEW m \in Managers, HostCrash(m)
  PROVE  BootOK'
<1> USE DEF TypeOK
<1>1. \A c \in Callers : pc'[c] = "idle"
  BY DEF HostCrash, OneManager
<1>2. ASSUME NEW p \in Procs \ strays, state[p] = "booting" PROVE p \in strays'
  <2>1. PICK c \in Callers : OwnsProcess(at[c]) /\ cmd[at[c]] = p
    BY <1>2 DEF BootOK
  <2>2. at[c] = m
    BY DEF OneManager
  <2>3. owner[p] = m
    BY <2>1, <2>2 DEF Inv, CmdOK
  <2> QED BY <1>2, <2>3 DEF HostCrash
<1>3. strays \subseteq strays' /\ state' = state
  BY DEF HostCrash
<1> QED BY <1>1, <1>2, <1>3 DEF BootOK

LEMMA BootStep ==
  ASSUME OneManager, TypeOK, Inv, BootOK, [Next]_vars
  PROVE  BootOK'
<1> USE DEF TypeOK, mgrVars, callVars, procVars
<1>1. ASSUME NEW c \in Callers, Calls(c) \/ Acquire(c) PROVE BootOK'
  <2>1. /\ pc[c] \notin Locked
        /\ \A d \in Callers : d # c => pc'[d] = pc[d] /\ at'[d] = at[d]
        /\ UNCHANGED <<managed, cmd, state, sock, strays>>
        /\ pc'[c] \notin {"spawn", "poll"}
    BY <1>1 DEF Calls, CallStart, CallStop, Acquire, Goto
  <2> QED BY <2>1 DEF BootOK, PathOK, OwnsProcess
<1>2. ASSUME NEW c \in Callers, Body(c) PROVE BootOK'
  BY <1>2, BootBody
<1>3. ASSUME NEW p \in Procs, Daemon(p) PROVE BootOK'
  BY <1>3, BootDaemon
<1>4. ASSUME NEW x \in Contexts, Cancel(x) PROVE BootOK'
  BY <1>4 DEF Cancel, BootOK, PathOK, OwnsProcess
<1>5. ASSUME NEW m \in Managers, HostCrash(m) PROVE BootOK'
  BY <1>5, BootCrash
<1>6. CASE UNCHANGED vars
  BY <1>6 DEF vars, BootOK, PathOK, OwnsProcess
<1> QED BY <1>1, <1>2, <1>3, <1>4, <1>5, <1>6 DEF Next

LEMMA Booting == OneManager => (Spec => []BootOK)
<1> SUFFICES ASSUME OneManager PROVE Spec => []BootOK
  OBVIOUS
<1>1. Init => BootOK
  BY DEF Init, BootOK
<1>2. TypeOK /\ Inv /\ BootOK /\ [Next]_vars => BootOK'
  BY BootStep
<1> QED BY <1>1, <1>2, TypeCorrect, Invariance, PTL DEF Spec

\* Where one Manager has the socket, a daemon boots on a free path, however slow it
\* or the daemons before it are, and whichever of them or of the programs crashed
\* (manager.go:96-100): unless the file could not be removed, or a stray came.
THEOREM FreePath == OneManager => (Spec => []BootsOnFreePath)
<1> SUFFICES ASSUME OneManager PROVE Spec => []BootsOnFreePath
  OBVIOUS
<1>1. BootOK => BootsOnFreePath
  BY DEF BootOK, PathOK, BootsOnFreePath
<1> QED BY <1>1, Booting, PTL

\* And what Start reports ready is the daemon that it spawned (manager.go:111), with
\* the same exceptions.
THEOREM OwnDaemonReady == OneManager => (Spec => ReadyIsOwn)
<1> SUFFICES ASSUME OneManager PROVE Spec => ReadyIsOwn
  OBVIOUS
<1>1. ASSUME TypeOK, Inv, BootOK, [Next]_vars
      PROVE  [\A c \in Callers : pc[c] = "poll" /\ pc'[c] = "ok" =>
                \/ sock = cmd[at[c]]
                \/ cmd[at[c]] \in strays
                \/ sock \in strays]_vars
  <2>1. SUFFICES ASSUME NEW c \in Callers, pc[c] = "poll", pc'[c] = "ok"
                 PROVE  sock = cmd[at[c]] \/ cmd[at[c]] \in strays \/ sock \in strays
    OBVIOUS
  <2> USE <1>1 DEF TypeOK, Goto, Return, mgrVars, callVars
  <2>2. ASSUME NEW d \in Callers, Calls(d) \/ Acquire(d) PROVE FALSE
    BY <2>1, <2>2 DEF Calls, CallStart, CallStop, Acquire
  <2>3. ASSUME NEW d \in Callers, Body(d) PROVE sock # None
    <3>1. c = d
      BY <2>1, <2>3, BodySteps
    <3>2. CASE PollReady(c)
      BY <3>2 DEF PollReady, PingMayAnswer
    <3> QED
      BY <2>1, <2>3, <3>1, <3>2
         DEF Body, FoundAlive, FoundDead, ResolveFails, StatSocket, RemoveSocket,
             RemoveFails, Spawn, SpawnFails, PollRetry, PollAborts, PollTimesOut,
             StopNoop, StopSignal, StopDone, StopKill
  <2>4. ASSUME NEW p \in Procs, Daemon(p) PROVE FALSE
    BY <2>1, <2>4 DEF Daemon, Reap, LeaseKill, LaunchExternal, Bind, BindFails, Crash,
                ExitOnInterrupt
  <2>5. ASSUME NEW m \in Managers, HostCrash(m) PROVE FALSE
    BY <2>1, <2>5 DEF HostCrash
  <2>6. sock # None
    BY <2>1, <2>2, <2>3, <2>4, <2>5 DEF Next, Cancel, vars
  <2> QED BY <2>1, <2>6 DEF BootOK, PathOK
<1> QED BY <1>1, Booting, TypeCorrect, Invariance, PTL DEF Spec, ReadyIsOwn
--------------------------------------------------------------------------------
(***************************************************************************)
(* Why calls return (CallsReturn): nothing a method waits for can fail to  *)
(* come, and nothing it does can be repeated without end.                  *)
(***************************************************************************)
\* The statements still ahead of a caller, the iterations of waitReady with
\* them; none outside a method.
Place(l) ==
  CASE l = "ping" -> 8 [] l = "resolve" -> 7 [] l = "remove" -> 6
    [] l \in Spawning -> 5 [] l = "poll" -> 4 [] l = "stop" -> 3
    [] l = "select" -> 2 [] l = "reap" -> 1

Ahead(c) ==
  IF pc[c] \in Locked THEN Place(pc[c]) + MaxPolls - polls[c] ELSE 0

\* The only wait without a timer, the one after the Kill (manager.go:141-142), is
\* for a process of the Manager that is dead, so cmd.Wait returns or has.
WaitsForTheDead ==
  \A c \in Callers : pc[c] = "reap" =>
    /\ cmd[at[c]] \in Procs
    /\ state[cmd[at[c]]] = "dead"
    /\ wait[cmd[at[c]]] \in {"waiting", "done"}

\* Whatever moves a caller inside a method brings it nearer to the end of it.
Nearer ==
  [][\A c \in Callers :
       pc[c] \in Locked /\ (pc'[c] # pc[c] \/ polls'[c] # polls[c]) =>
         Ahead(c)' < Ahead(c)]_vars

\* A step inside a method shortens what is ahead of its caller.
LEMMA BodyShortens ==
  ASSUME TypeOK, NEW c \in Callers, Body(c)
  PROVE  Ahead(c)' < Ahead(c)
<1> USE ConstantsAssumption DEF TypeOK, mgrVars, callVars
<1>1. polls[c] \in 0..MaxPolls /\ MaxPolls \in Nat
  OBVIOUS
<1>2. CASE FoundAlive(c) \/ ResolveFails(c) \/ SpawnFails(c) \/ PollReady(c)
           \/ StopNoop(c) \/ StopDone(c)
  <2>1. pc[c] \in Locked /\ pc'[c] \notin Locked
    BY <1>2 DEF FoundAlive, ResolveFails, SpawnFails, PollReady, StopNoop, StopDone,
                StopResult, Return, Goto
  <2> QED BY <1>1, <2>1 DEF Ahead, Place
<1>3. CASE FoundDead(c) \/ StatSocket(c) \/ RemoveSocket(c) \/ RemoveFails(c)
           \/ (\E p \in Procs : Spawn(c, p))
  <2>1. /\ polls' = polls
        /\ \/ pc[c] = "ping" /\ pc'[c] = "resolve"
           \/ pc[c] = "resolve" /\ pc'[c] \in {"remove"} \cup Spawning
           \/ pc[c] = "remove" /\ pc'[c] \in Spawning
           \/ pc[c] \in Spawning /\ pc'[c] = "poll"
    BY <1>3 DEF FoundDead, StatSocket, RemoveSocket, RemoveFails, Spawn, Goto
  <2> QED BY <1>1, <2>1 DEF Ahead, Place
<1>4. CASE PollRetry(c)
  <2>1. pc[c] = "poll" /\ pc' = pc /\ polls'[c] = polls[c] + 1
    BY <1>4 DEF PollRetry
  <2> QED BY <1>1, <2>1 DEF Ahead, Place
<1>5. CASE PollAborts(c) \/ PollTimesOut(c) \/ StopSignal(c) \/ StopKill(c)
  <2>1. /\ polls' = polls
        /\ \/ pc[c] = "poll" /\ pc'[c] = "stop"
           \/ pc[c] = "stop" /\ pc'[c] = "select"
           \/ pc[c] = "select" /\ pc'[c] = "reap"
    BY <1>5 DEF PollAborts, PollTimesOut, StopSignal, StopKill, Goto
  <2> QED BY <1>1, <2>1 DEF Ahead, Place
<1> QED BY <1>2, <1>3, <1>4, <1>5 DEF Body

\* No statement is repeated without end: each step of a caller inside a method,
\* the crash of its program included, brings it nearer to its return.
THEOREM CallsGetNearer == Spec => Nearer
<1>1. ASSUME TypeOK, [Next]_vars
      PROVE  [\A c \in Callers :
                pc[c] \in Locked /\ (pc'[c] # pc[c] \/ polls'[c] # polls[c]) =>
                  Ahead(c)' < Ahead(c)]_vars
  <2>1. SUFFICES ASSUME NEW c \in Callers, pc[c] \in Locked,
                        pc'[c] # pc[c] \/ polls'[c] # polls[c]
                 PROVE  Ahead(c)' < Ahead(c)
    OBVIOUS
  <2> USE <1>1 DEF TypeOK, mgrVars, callVars
  <2>2. ASSUME NEW d \in Callers, Calls(d) \/ Acquire(d) PROVE FALSE
    BY <2>1, <2>2 DEF Calls, CallStart, CallStop, Acquire, Goto
  <2>3. ASSUME NEW d \in Callers, Body(d) PROVE Ahead(c)' < Ahead(c)
    <3>1. CASE c = d
      BY <2>3, <3>1, BodyShortens
    <3>2. CASE c # d
      <4>1. pc'[c] = pc[c]
        BY <2>3, <3>2, BodySteps DEF Goto, Return
      <4>2. polls'[c] = polls[c]
        BY <2>3, <3>2
           DEF Body, FoundAlive, FoundDead, ResolveFails, StatSocket,
               RemoveSocket, RemoveFails, Spawn, SpawnFails, PollReady, PollRetry,
               PollAborts, PollTimesOut, StopNoop, StopSignal, StopDone, StopKill,
               Return
      <4> QED BY <2>1, <4>1, <4>2
    <3> QED BY <3>1, <3>2
  <2>4. ASSUME NEW p \in Procs, Daemon(p) PROVE FALSE
    BY <2>1, <2>4 DEF Daemon, Reap, LeaseKill, LaunchExternal, Bind, BindFails, Crash,
                      ExitOnInterrupt
  <2>5. ASSUME NEW m \in Managers, HostCrash(m) PROVE Ahead(c)' < Ahead(c)
    <3>1. pc'[c] = "idle"
      BY <2>1, <2>5 DEF HostCrash
    <3> QED BY <2>1, <3>1, ConstantsAssumption DEF Ahead, Place
  <2> QED BY <2>1, <2>2, <2>3, <2>4, <2>5 DEF Next, Cancel, vars
<1> QED BY <1>1, TypeCorrect, PTL DEF Spec, Nearer

\* Nothing revives a process.
LEMMA DeadForGood ==
  ASSUME TypeOK, [Next]_vars, NEW p \in Procs, state[p] = "dead"
  PROVE  state'[p] = "dead"
<1> USE DEF TypeOK, procVars
<1>1. ASSUME NEW c \in Callers, Body(c) PROVE state'[p] = "dead"
  <2>1. CASE \E q \in Procs : Spawn(c, q)
    BY <2>1 DEF Spawn
  <2>2. CASE StopKill(c)
    BY <2>2 DEF StopKill
  <2>3. CASE UNCHANGED state
    BY <2>3
  <2> QED
    BY <1>1, <2>1, <2>2, <2>3
       DEF Body, FoundAlive, FoundDead, ResolveFails, StatSocket, RemoveSocket,
           RemoveFails, SpawnFails, PollReady, PollRetry, PollAborts,
           PollTimesOut, StopNoop, StopSignal, StopDone
<1>2. ASSUME NEW q \in Procs, Daemon(q) PROVE state'[p] = "dead"
  BY <1>2 DEF Daemon, Reap, LeaseKill, LaunchExternal, Bind, BindFails, Crash,
              ExitOnInterrupt
<1>3. CASE UNCHANGED state
  BY <1>3
<1> QED BY <1>1, <1>2, <1>3
        DEF Next, Calls, CallStart, CallStop, Acquire, Cancel, HostCrash, vars

\* The process a caller has killed stays dead, and stays the Manager's.
LEMMA DeadStep ==
  ASSUME TypeOK, Inv, WaitsForTheDead, [Next]_vars, NEW c \in Callers,
         pc'[c] = "reap"
  PROVE  state'[cmd'[at'[c]]] = "dead"
<1> USE DEF TypeOK, mgrVars, callVars, procVars
<1>1. CASE pc[c] = "reap" /\ at'[c] = at[c] /\ cmd'[at[c]] = cmd[at[c]]
  <2>1. cmd[at[c]] \in Procs /\ state[cmd[at[c]]] = "dead"
    BY <1>1 DEF WaitsForTheDead
  <2>2. state'[cmd[at[c]]] = "dead"
    BY <2>1, DeadForGood
  <2> QED BY <1>1, <2>2
<1>2. ASSUME NEW d \in Callers, Calls(d) \/ Acquire(d)
      PROVE  pc[c] = "reap" /\ at'[c] = at[c] /\ cmd'[at[c]] = cmd[at[c]]
  BY <1>2 DEF Calls, CallStart, CallStop, Acquire, Goto
<1>3. ASSUME NEW d \in Callers, Body(d), c # d
      PROVE  pc[c] = "reap" /\ at'[c] = at[c] /\ cmd'[at[c]] = cmd[at[c]]
  <2>1. pc[c] = "reap" /\ at' = at /\ pc[d] \in Locked
    BY <1>3, BodySteps DEF Goto, Return
  <2>2. at[c] # at[d]
    BY <1>3, <2>1, Alone DEF Inv
  <2> QED
    BY <1>3, <2>1, <2>2
       DEF Body, FoundAlive, FoundDead, ResolveFails, StatSocket, RemoveSocket,
           RemoveFails, Spawn, SpawnFails, PollReady, PollRetry, PollAborts,
           PollTimesOut, StopNoop, StopSignal, StopDone, StopKill
<1>4. CASE Body(c)
  <2>1. StopKill(c)
    BY <1>4
       DEF Body, FoundAlive, FoundDead, ResolveFails, StatSocket, RemoveSocket,
           RemoveFails, Spawn, SpawnFails, PollReady, PollRetry, PollAborts,
           PollTimesOut, StopNoop, StopSignal, StopDone, StopResult, Goto, Return
  <2>2. cmd[at[c]] \in Procs
    BY <2>1 DEF StopKill, Inv, ProgressOK, CallerOK, OwnsProcess
  <2> QED BY <2>1, <2>2 DEF StopKill
<1>5. ASSUME NEW m \in Managers, HostCrash(m)
      PROVE  pc[c] = "reap" /\ at'[c] = at[c] /\ cmd'[at[c]] = cmd[at[c]]
  BY <1>5 DEF HostCrash
<1>6. CASE UNCHANGED <<mgrVars, callVars>>
  BY <1>1, <1>6
<1> QED BY <1>1, <1>2, <1>3, <1>4, <1>5, <1>6
        DEF Next, Daemon, Reap, LeaseKill, LaunchExternal, Bind, BindFails, Crash,
            ExitOnInterrupt, Cancel, vars

\* A stop that had to kill waits for a child that is dead and was not reaped by
\* anybody else: <-done cannot block for ever.
THEOREM KilledIsReaped == Spec => []WaitsForTheDead
<1>1. Init => WaitsForTheDead
  BY DEF Init, WaitsForTheDead
<1>2. TypeOK /\ Inv /\ TypeOK' /\ Inv' /\ WaitsForTheDead /\ [Next]_vars
        => WaitsForTheDead'
  <2> SUFFICES ASSUME TypeOK, Inv, TypeOK', Inv', WaitsForTheDead, [Next]_vars,
                      NEW c \in Callers, pc'[c] = "reap"
               PROVE  /\ cmd'[at'[c]] \in Procs
                      /\ state'[cmd'[at'[c]]] = "dead"
                      /\ wait'[cmd'[at'[c]]] \in {"waiting", "done"}
    BY DEF WaitsForTheDead
  <2>1. cmd'[at'[c]] \in Procs /\ wait'[cmd'[at'[c]]] # "none"
    BY DEF Inv, ProgressOK, CallerOK, OwnsProcess
  <2>2. wait'[cmd'[at'[c]]] \in {"none", "waiting", "done"}
    BY <2>1 DEF TypeOK
  <2> QED BY <2>1, <2>2, DeadStep
<1> QED BY <1>1, <1>2, TypeCorrect, Invariance, PTL DEF Spec
================================================================================
