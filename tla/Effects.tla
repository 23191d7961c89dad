--------------------------------- MODULE Effects ---------------------------------
(***************************************************************************)
(* What a method of the client promises about the engine, whatever is      *)
(* lost between them (client.go, container.go, image.go): its request      *)
(* takes effect at most once, and exactly once, before the return, when    *)
(* the method returns nil.  After an error the caller knows nothing: the   *)
(* request may have taken effect, may still do so, or never will.          *)
(***************************************************************************)
VARIABLES
  call,    \* out; open: no effect yet; took: the request took effect
  result,  \* of the last call: none, nil or error
  adrift   \* a request of an earlier call that may still take effect

vars == <<call, result, adrift>>

Init == call = "out" /\ result = "none" /\ adrift = FALSE

Begin ==
  /\ call = "out"
  /\ call' = "open" /\ result' = "none"
  /\ UNCHANGED adrift

Take ==
  /\ call = "open"
  /\ call' = "took"
  /\ UNCHANGED <<result, adrift>>

Succeed ==
  /\ call = "took"
  /\ call' = "out" /\ result' = "nil"
  /\ UNCHANGED adrift

\* With the request still under way, or not.
Fail ==
  /\ call # "out"
  /\ call' = "out" /\ result' = "error"
  /\ adrift' \in IF call = "open" THEN {adrift, TRUE} ELSE {adrift}

\* It takes effect late, or is dropped.
Settle ==
  /\ adrift
  /\ adrift' = FALSE
  /\ UNCHANGED <<call, result>>

Next == Begin \/ Take \/ Succeed \/ Fail \/ Settle

Spec == Init /\ [][Next]_vars
================================================================================
