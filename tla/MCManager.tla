------------------------------- MODULE MCManager -------------------------------
(***************************************************************************)
(* Manager for TLC.  Processes that users launch are interchangeable, so   *)
(* are those that they do not, the callers and the contexts.               *)
(***************************************************************************)
EXTENDS Manager, TLC

Alike ==
  Permutations(External) \cup Permutations(Procs \ External)
    \cup Permutations(Callers) \cup Permutations(Contexts)

\* What a caller outside a method called last, and what that returned, matters
\* to no step and no property of a step that follows; nor does it, of a dead
\* process, that it was a stray, unless its file is there or it is m.cmd.
LastCall == [c \in Callers |->
  IF pc[c] \in Returned THEN <<>> ELSE <<pc[c], op[c]>>]

Seen ==
  <<mgrVars, LastCall, at, ctx, polls, state, owner, lease, wait, signals, sock,
    cancelled,
    {p \in strays : \/ state[p] # "dead" \/ sock = p
                    \/ \E m \in Managers : cmd[m] = p}>>
================================================================================
