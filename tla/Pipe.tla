---------------------------------- MODULE Pipe ----------------------------------
(***************************************************************************)
(* What a reader of the output of a command promises (the io.ReadCloser    *)
(* of Exec and Logs, container.go): the bytes the command wrote, in their  *)
(* order, and then one outcome.  No frames, no connection, no reads: the   *)
(* bytes are numbered, so what was written is 1, 2, ..., written.          *)
(*                                                                         *)
(* A strict reader says EOF only when the command has ended and all its    *)
(* output was delivered.  The reader of an exec is not strict, since it    *)
(* takes a pause and a broken connection for the end.                      *)
(***************************************************************************)
EXTENDS Naturals, Sequences

VARIABLES
  strict,   \* EOF means the end of the output
  written,  \* bytes the command wrote
  ended,    \* the command has ended
  got,      \* what the consumer has read
  outcome   \* nil, EOF, or an error

vars == <<strict, written, ended, got, outcome>>

Upto(n) == [i \in 1..n |-> i]

Init ==
  /\ strict \in BOOLEAN
  /\ written = 0
  /\ ended = FALSE
  /\ got = <<>>
  /\ outcome = "nil"

\* The command writes some bytes, or ends.
Write ==
  /\ ~ended
  /\ written' \in Nat /\ written' > written
  /\ UNCHANGED <<strict, ended, got, outcome>>

End ==
  /\ ~ended
  /\ ended' = TRUE
  /\ UNCHANGED <<strict, written, got, outcome>>

\* A read delivers the next bytes, at least one.
Deliver ==
  /\ outcome = "nil"
  /\ \E n \in (Len(got) + 1)..written : got' = Upto(n)
  /\ UNCHANGED <<strict, written, ended, outcome>>

\* The last read reports how the output ended.
Finish(o) ==
  /\ outcome = "nil"
  /\ (strict /\ o = "EOF") => (ended /\ Len(got) = written)
  /\ outcome' = o
  /\ UNCHANGED <<strict, written, ended, got>>

Next == Write \/ End \/ Deliver \/ \E o \in {"EOF", "unexpected", "error"} : Finish(o)

Spec == Init /\ [][Next]_vars
================================================================================
