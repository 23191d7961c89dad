------------------------------- MODULE MCHandles --------------------------------
(***************************************************************************)
(* Handles for TLC: neither references nor images are distinguished by     *)
(* anything but what names what.                                           *)
(***************************************************************************)
EXTENDS Handles, TLC

Alike == Permutations(Refs) \cup Permutations(Images)
================================================================================
