------------------------------- MODULE WaitProofs -------------------------------
(***************************************************************************)
(* Proofs about container.Wait, for any number of waits on a container.    *)
(***************************************************************************)
EXTENDS Wait, SequenceTheorems, TLAPS

USE DEF Errors, engineVars, subVars

\* The one value in a buffer is what is received from it.
LEMMA OneElement ==
  ASSUME NEW S, NEW s \in Seq(S), Len(s) = 1
  PROVE  Head(s) \in S /\ s # <<>>
<1>1. s # <<>>
  BY EmptySeq
<1>2. QED
  BY <1>1, HeadTailProperties

\* An error that is reported is alone in the buffer of errCh.
LEMMA ReportTyped ==
  ASSUME TypeOK, NEW w \in Waits, NEW e \in Errors, err[w] = <<>>, Report(w, e)
  PROVE  TypeOK' /\ err'[w] = <<e>> /\ Len(err'[w]) = 1
<1>1. Append(err[w], e) = <<e>> /\ <<e>> \in Seq(Errors) /\ Len(<<e>>) = 1
  BY DEF TypeOK
<1>2. QED
  BY <1>1 DEF TypeOK, Report, Move

\* Types, and the capacity of the channels.
LEMMA TypeStep == TypeOK /\ Inv /\ [Next]_vars => TypeOK'
<1> SUFFICES ASSUME TypeOK, Inv, [Next]_vars PROVE TypeOK'
  OBVIOUS
<1> USE WaitAssumption
<1>1. CASE Live
  BY <1>1 DEF Live, TypeOK
<1>2. ASSUME NEW w \in Waits, PostFails(w) PROVE TypeOK'
  BY <1>2, ReportTyped DEF PostFails, Inv, Pending, Settled
<1>3. ASSUME NEW w \in Waits, Refused(w) PROVE TypeOK'
  BY <1>3, ReportTyped DEF Refused, Inv, Pending, Settled
<1>4. ASSUME NEW w \in Waits, DecodeFails(w) PROVE TypeOK'
  BY <1>4, ReportTyped DEF DecodeFails, Inv, Pending, Settled
<1>5. ASSUME NEW w \in Waits, Decode(w) PROVE TypeOK'
  <2>1. res[w] = <<>> /\ exitCode \in ExitCodes
    BY <1>5 DEF Decode, Inv, Pending, Settled, Exited
  <2>2. Append(res[w], exitCode) \in Seq(ExitCodes) /\ Len(Append(res[w], exitCode)) = 1
    BY <2>1
  <2>3. QED
    BY <1>5, <2>2 DEF Decode, Move, TypeOK
<1>6. ASSUME NEW w \in Waits, CloseErr(w) \/ CloseRes(w) PROVE TypeOK'
  BY <1>6 DEF CloseErr, CloseRes, Move, TypeOK
<1>7. ASSUME NEW w \in Waits, ReceiveRes(w) PROVE TypeOK'
  <2>1. (IF res[w] = <<>> THEN 0 ELSE Head(res[w])) \in ExitCodes
    BY DEF TypeOK
  <2>2. <<>> \in Seq(ExitCodes) /\ Len(<<>>) <= 1
    OBVIOUS
  <2>3. QED
    BY <1>7, <2>1, <2>2 DEF ReceiveRes, TypeOK
<1>8. ASSUME NEW w \in Waits, ReceiveErr(w) PROVE TypeOK'
  <2>1. (IF err[w] = <<>> THEN "nil" ELSE Head(err[w])) \in Errors \cup {"nil"}
    BY DEF TypeOK
  <2>2. <<>> \in Seq(Errors) /\ Len(<<>>) <= 1
    OBVIOUS
  <2>3. QED
    BY <1>8, <2>1, <2>2 DEF ReceiveErr, TypeOK
<1>9. ASSUME NEW w \in Waits, Arrive(w) \/ Answer(w) PROVE TypeOK'
  BY <1>9 DEF Arrive, Answer, Move, TypeOK
<1>10. ASSUME NEW w \in Waits, Cancel(w) PROVE TypeOK'
  BY <1>10 DEF Cancel, TypeOK
<1>11. CASE UNCHANGED vars
  BY <1>11 DEF vars, TypeOK
<1>12. QED
  BY <1>1, <1>2, <1>3, <1>4, <1>5, <1>6, <1>7, <1>8, <1>9, <1>10, <1>11
     DEF Next, Goroutine, GivesUp

\* The invariant: the step of one wait leaves the others as they are.
LEMMA InvStep == TypeOK /\ Inv /\ [Next]_vars => Inv'
<1> SUFFICES ASSUME TypeOK, Inv, [Next]_vars PROVE Inv'
  OBVIOUS
<1> USE WaitAssumption DEF TypeOK, Pending, Settled, Failed, Succeeded, Exited
<1>1. CASE Live
  BY <1>1 DEF Live, Inv
<1>2. ASSUME NEW w \in Waits, NEW e \in Errors, Report(w, e),
             pc[w] \in {"post", "asked", "decode"}
      PROVE  Inv'
  <2>1. err'[w] = <<e>> /\ Len(err'[w]) = 1
    BY <1>2, ReportTyped DEF Inv
  <2>2. QED
    BY <1>2, <2>1 DEF Report, Move, Inv
<1>3. ASSUME NEW w \in Waits, Decode(w) PROVE Inv'
  <2>1. res[w] = <<>> /\ Exited
    BY <1>3 DEF Decode, Inv
  <2>2. Append(res[w], exitCode) = <<exitCode>>
    BY <2>1
  <2>3. QED
    BY <1>3, <2>1, <2>2 DEF Decode, Move, Inv
<1>4. ASSUME NEW w \in Waits, CloseErr(w) \/ CloseRes(w) PROVE Inv'
  <2>1. CASE CloseErr(w)
    BY <2>1 DEF CloseErr, Move, Inv
  <2>2. CASE CloseRes(w)
    BY <2>2 DEF CloseRes, Move, Inv
  <2>3. QED
    BY <1>4, <2>1, <2>2
<1>5. ASSUME NEW w \in Waits, ReceiveRes(w) PROVE Inv'
  <2>1. res[w] = <<exitCode>> => Head(res[w]) = exitCode /\ res[w] # <<>>
    BY DEF Inv
  <2>2. pc[w] \in {"sent", "errClosed", "end"}
    BY <1>5 DEF ReceiveRes, resClosed, Inv
  <2>3. QED
    BY <1>5, <2>1, <2>2 DEF ReceiveRes, Inv
<1>6. ASSUME NEW w \in Waits, ReceiveErr(w) PROVE Inv'
  <2>1. Len(err[w]) = 1 => Head(err[w]) \in Errors /\ err[w] # <<>>
    <3>1. err[w] \in Seq(Errors)
      OBVIOUS
    <3> HIDE DEF Errors
    <3>2. QED
      BY <3>1, OneElement
  <2>2. pc[w] \in {"sent", "errClosed", "end"}
    BY <1>6 DEF ReceiveErr, errClosed, Inv
  <2>3. QED
    BY <1>6, <2>1, <2>2 DEF ReceiveErr, Inv
<1>7. ASSUME NEW w \in Waits, Arrive(w) \/ Answer(w) PROVE Inv'
  <2>1. CASE Arrive(w)
    BY <2>1 DEF Arrive, Move, Inv
  <2>2. CASE Answer(w)
    BY <2>2 DEF Answer, Move, Inv
  <2>3. QED
    BY <1>7, <2>1, <2>2
<1>8. ASSUME NEW w \in Waits, Cancel(w) PROVE Inv'
  BY <1>8 DEF Cancel, Inv
<1>9. CASE UNCHANGED vars
  BY <1>9 DEF vars, Inv
<1>10. QED
  BY <1>1, <1>2, <1>3, <1>4, <1>5, <1>6, <1>7, <1>8, <1>9
     DEF Next, Goroutine, GivesUp, PostFails, Refused, DecodeFails

\* A wait begins with empty channels.
LEMMA Initially == Init => TypeOK /\ Inv
  BY WaitAssumption DEF Init, TypeOK, Inv, Pending, Exited

\* Every reachable state is well typed, no channel holds more than its
\* capacity, and the outcome of each wait is in one place (container.go:147-172).
THEOREM Invariance == Spec => [](TypeOK /\ Inv)
<1>1. TypeOK /\ Inv /\ [Next]_vars => (TypeOK /\ Inv)'
  BY TypeStep, InvStep
<1>2. QED
  BY Initially, <1>1, PTL DEF Spec

\* The channels hold no more than one, and what they hold is an error, or an
\* exit status (container.go:147-148, 172).
THEOREM TypeCorrect == Spec => []TypeOK
BY Invariance, PTL

\* A subscriber that receives from both channels, late or early and in either
\* order, has an error or the true exit status (container.go:149-172).
THEOREM Telling == Spec => []BothTell
<1>1. TypeOK /\ Inv => BothTell
  BY WaitAssumption
     DEF TypeOK, Inv, BothTell, Pending, Settled, Failed, Succeeded, Exited
<1>2. QED
  BY Invariance, <1>1, PTL

\* An error that was reported is not followed by a result
\* (container.go:159-171).
THEOREM Single == Spec => []OneOutcome
<1>1. TypeOK /\ Inv => OneOutcome
  BY WaitAssumption
     DEF TypeOK, Inv, OneOutcome, Pending, Settled, Failed, Succeeded
<1>2. QED
  BY Invariance, <1>1, PTL
================================================================================
