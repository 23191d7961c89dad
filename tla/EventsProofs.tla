------------------------------ MODULE EventsProofs -----------------------------
(***************************************************************************)
(* Proofs about one event subscription, for streams of any length.         *)
(***************************************************************************)
EXTENDS Events, SequenceTheorems, TLAPS

USE DEF Errors

(***************************************************************************)
(* One lemma for each part of the invariant, in it one step per action.    *)
(***************************************************************************)
\* Types: what is sent on ch and evCh is a message, on errCh an error.
LEMMA TypeStep == TypeOK /\ Inv /\ [Next]_vars => TypeOK'
<1> SUFFICES ASSUME TypeOK, Inv, [Next]_vars PROVE TypeOK'
  OBVIOUS
<1> USE EventsAssumption DEF TypeOK, engineVars, decVars, fwdVars, subVars
<1>1. CASE GetFails
  BY <1>1 DEF GetFails
<1>2. CASE GetResponds
  BY <1>2 DEF GetResponds
<1>3. CASE DecodeValue
  BY <1>3 DEF DecodeValue
<1>4. CASE SendRaw
  BY <1>4 DEF SendRaw, Inv, NoLoss, One
<1>5. CASE DecodeEOF
  BY <1>5 DEF DecodeEOF
<1>6. CASE DecodeFails
  BY <1>6 DEF DecodeFails
<1>7. CASE RangeEnds
  BY <1>7 DEF RangeEnds
<1>8. CASE ForwardErr
  BY <1>8 DEF ForwardErr
<1>9. CASE CloseErr
  BY <1>9 DEF CloseErr
<1>10. CASE CloseEv
  BY <1>10 DEF CloseEv
<1>11. CASE Receive
  BY <1>11 DEF Receive, Inv, ForwarderOK
<1>12. CASE ReceiveErr
  <2>1. Head(errCh) \in Errors /\ Tail(errCh) \in Seq(Errors)
    BY <1>12 DEF ReceiveErr
  <2> QED BY <1>12, <2>1 DEF ReceiveErr
<1>13. CASE Cancel
  BY <1>13 DEF Cancel
<1>14. CASE EngineSends
  BY <1>14 DEF EngineSends
<1>15. CASE EngineEnds
  BY <1>15 DEF EngineEnds
<1>16. CASE UNCHANGED vars
  BY <1>16 DEF vars
<1> QED
  BY <1>1, <1>2, <1>3, <1>4, <1>5, <1>6, <1>7, <1>8, <1>9, <1>10, <1>11,
     <1>12, <1>13, <1>14, <1>15, <1>16
     DEF Next, Call, Decoder, Forwarder

\* A message moves on or stays where it is, and keeps its turn.
LEMMA NoLossStep == TypeOK /\ Inv /\ [Next]_vars => NoLoss'
<1> SUFFICES ASSUME TypeOK, Inv, [Next]_vars PROVE NoLoss'
  OBVIOUS
<1> USE EventsAssumption DEF TypeOK, Inv, NoLoss, One, DecoderOK, ForwarderOK, engineVars, decVars, fwdVars, subVars
<1>1. CASE GetFails
  BY <1>1 DEF GetFails
<1>2. CASE GetResponds
  BY <1>2 DEF GetResponds
<1>3. CASE DecodeValue
  BY <1>3 DEF DecodeValue
<1>4. CASE SendRaw
  BY <1>4 DEF SendRaw
<1>5. CASE DecodeEOF
  BY <1>5 DEF DecodeEOF
<1>6. CASE DecodeFails
  BY <1>6 DEF DecodeFails
<1>7. CASE RangeEnds
  BY <1>7 DEF RangeEnds
<1>8. CASE ForwardErr
  BY <1>8 DEF ForwardErr
<1>9. CASE CloseErr
  BY <1>9 DEF CloseErr
<1>10. CASE CloseEv
  BY <1>10 DEF CloseEv
<1>11. CASE Receive
  BY <1>11 DEF Receive
<1>12. CASE ReceiveErr
  BY <1>12 DEF ReceiveErr
<1>13. CASE Cancel
  BY <1>13 DEF Cancel
<1>14. CASE EngineSends
  BY <1>14 DEF EngineSends
<1>15. CASE EngineEnds
  BY <1>15 DEF EngineEnds
<1>16. CASE UNCHANGED vars
  BY <1>16 DEF vars
<1> QED
  BY <1>1, <1>2, <1>3, <1>4, <1>5, <1>6, <1>7, <1>8, <1>9, <1>10, <1>11,
     <1>12, <1>13, <1>14, <1>15, <1>16
     DEF Next, Call, Decoder, Forwarder

\* The loop of DecodeStream ends once, with its reason.
LEMMA DecoderStep == TypeOK /\ Inv /\ [Next]_vars => DecoderOK'
<1> SUFFICES ASSUME TypeOK, Inv, [Next]_vars PROVE DecoderOK'
  OBVIOUS
<1> USE EventsAssumption DEF TypeOK, Inv, DecoderOK, ForwarderOK, engineVars, decVars, fwdVars, subVars
<1>1. CASE GetFails
  BY <1>1 DEF GetFails
<1>2. CASE GetResponds
  BY <1>2 DEF GetResponds
<1>3. CASE DecodeValue
  BY <1>3 DEF DecodeValue
<1>4. CASE SendRaw
  BY <1>4 DEF SendRaw
<1>5. CASE DecodeEOF
  BY <1>5 DEF DecodeEOF
<1>6. CASE DecodeFails
  BY <1>6 DEF DecodeFails
<1>7. CASE RangeEnds
  BY <1>7 DEF RangeEnds
<1>8. CASE ForwardErr
  BY <1>8 DEF ForwardErr
<1>9. CASE CloseErr
  BY <1>9 DEF CloseErr
<1>10. CASE CloseEv
  BY <1>10 DEF CloseEv
<1>11. CASE Receive
  BY <1>11 DEF Receive
<1>12. CASE ReceiveErr
  BY <1>12 DEF ReceiveErr
<1>13. CASE Cancel
  BY <1>13 DEF Cancel
<1>14. CASE EngineSends
  BY <1>14 DEF EngineSends
<1>15. CASE EngineEnds
  BY <1>15 DEF EngineEnds
<1>16. CASE UNCHANGED vars
  BY <1>16 DEF vars
<1> QED
  BY <1>1, <1>2, <1>3, <1>4, <1>5, <1>6, <1>7, <1>8, <1>9, <1>10, <1>11,
     <1>12, <1>13, <1>14, <1>15, <1>16
     DEF Next, Call, Decoder, Forwarder

\* The forwarder leaves its range when the decoder is gone.
LEMMA ForwarderStep == TypeOK /\ Inv /\ [Next]_vars => ForwarderOK'
<1> SUFFICES ASSUME TypeOK, Inv, [Next]_vars PROVE ForwarderOK'
  OBVIOUS
<1> USE EventsAssumption DEF TypeOK, Inv, DecoderOK, ForwarderOK, engineVars, decVars, fwdVars, subVars
<1>1. CASE GetFails
  BY <1>1 DEF GetFails
<1>2. CASE GetResponds
  BY <1>2 DEF GetResponds
<1>3. CASE DecodeValue
  BY <1>3 DEF DecodeValue
<1>4. CASE SendRaw
  BY <1>4 DEF SendRaw, NoLoss, One
<1>5. CASE DecodeEOF
  BY <1>5 DEF DecodeEOF
<1>6. CASE DecodeFails
  BY <1>6 DEF DecodeFails
<1>7. CASE RangeEnds
  BY <1>7 DEF RangeEnds, rawClosed
<1>8. CASE ForwardErr
  BY <1>8 DEF ForwardErr
<1>9. CASE CloseErr
  BY <1>9 DEF CloseErr
<1>10. CASE CloseEv
  BY <1>10 DEF CloseEv
<1>11. CASE Receive
  BY <1>11 DEF Receive
<1>12. CASE ReceiveErr
  BY <1>12 DEF ReceiveErr
<1>13. CASE Cancel
  BY <1>13 DEF Cancel
<1>14. CASE EngineSends
  BY <1>14 DEF EngineSends
<1>15. CASE EngineEnds
  BY <1>15 DEF EngineEnds
<1>16. CASE UNCHANGED vars
  BY <1>16 DEF vars
<1> QED
  BY <1>1, <1>2, <1>3, <1>4, <1>5, <1>6, <1>7, <1>8, <1>9, <1>10, <1>11,
     <1>12, <1>13, <1>14, <1>15, <1>16
     DEF Next, Call, Decoder, Forwarder

\* The error is never copied, overwritten or dropped.
LEMMA ErrorStep == TypeOK /\ Inv /\ [Next]_vars => ErrorOK'
<1> SUFFICES ASSUME TypeOK, Inv, [Next]_vars PROVE ErrorOK'
  OBVIOUS
<1> USE EventsAssumption DEF TypeOK, Inv, DecoderOK, ForwarderOK, ErrorOK, engineVars, decVars, fwdVars, subVars
<1>1. CASE GetFails
  BY <1>1 DEF GetFails
<1>2. CASE GetResponds
  BY <1>2 DEF GetResponds
<1>3. CASE DecodeValue
  BY <1>3 DEF DecodeValue
<1>4. CASE SendRaw
  BY <1>4 DEF SendRaw
<1>5. CASE DecodeEOF
  BY <1>5 DEF DecodeEOF
<1>6. CASE DecodeFails
  BY <1>6 DEF DecodeFails
<1>7. CASE RangeEnds
  BY <1>7 DEF RangeEnds
<1>8. CASE ForwardErr
  BY <1>8 DEF ForwardErr
<1>9. CASE CloseErr
  BY <1>9 DEF CloseErr
<1>10. CASE CloseEv
  BY <1>10 DEF CloseEv
<1>11. CASE Receive
  BY <1>11 DEF Receive
<1>12. CASE ReceiveErr
  <2>1. errCh = <<failure>> /\ errs = <<>> /\ rawErr = <<>>
    BY <1>12 DEF ReceiveErr
  <2>2. errs' = <<failure>> /\ errCh' = <<>>
    BY <1>12, <2>1 DEF ReceiveErr
  <2> QED BY <1>12, <2>1, <2>2 DEF ReceiveErr
<1>13. CASE Cancel
  BY <1>13 DEF Cancel
<1>14. CASE EngineSends
  BY <1>14 DEF EngineSends
<1>15. CASE EngineEnds
  BY <1>15 DEF EngineEnds
<1>16. CASE UNCHANGED vars
  BY <1>16 DEF vars
<1> QED
  BY <1>1, <1>2, <1>3, <1>4, <1>5, <1>6, <1>7, <1>8, <1>9, <1>10, <1>11,
     <1>12, <1>13, <1>14, <1>15, <1>16
     DEF Next, Call, Decoder, Forwarder

--------------------------------------------------------------------------------
THEOREM Invariance == Spec => [](TypeOK /\ Inv)
<1>1. Init => TypeOK /\ Inv
  <2> SUFFICES ASSUME Init PROVE TypeOK /\ Inv
    OBVIOUS
  <2> USE EventsAssumption DEF Init
  <2>1. TypeOK
    <3>1. \A S : <<>> \in Seq(S)
      OBVIOUS
    <3>2. ctxDone \in BOOLEAN
      OBVIOUS
    <3>3. sent \in 0..MaxEvents /\ decoded \in 0..MaxEvents
      OBVIOUS
    <3> QED BY <3>1, <3>2, <3>3 DEF TypeOK
  <2>2. NoLoss
    BY DEF NoLoss, One
  <2>3. DecoderOK /\ ForwarderOK /\ ErrorOK
    BY DEF DecoderOK, ForwarderOK, ErrorOK
  <2> QED BY <2>1, <2>2, <2>3 DEF Inv
<1>2. (TypeOK /\ Inv) /\ [Next]_vars => (TypeOK /\ Inv)'
  BY TypeStep, NoLossStep, DecoderStep, ForwarderStep, ErrorStep DEF Inv
<1> QED BY <1>1, <1>2, PTL DEF Spec

\* Every variable keeps its type.
THEOREM TypeCorrect == Spec => []TypeOK
BY Invariance, PTL

\* No event is lost, duplicated or reordered between the body and the
\* subscriber.
THEOREM Delivery == Spec => []NoLoss
<1>1. Inv => NoLoss
  BY DEF Inv
<1> QED BY <1>1, Invariance, PTL

\* A closed evCh has its reason in errCh; without one, nothing is missing.
THEOREM ClosingSaysWhy == Spec => []ClosedSaysWhy
<1>1. TypeOK /\ Inv => ClosedSaysWhy
  <2> SUFFICES ASSUME TypeOK, Inv, evClosed
               PROVE  /\ errClosed
                      /\ errs \o errCh = Only(failure)
                      /\ failure = None => stream = "eof" /\ Len(received) = sent
    BY DEF ClosedSaysWhy
  <2> USE DEF Inv
  <2>1. fwd = "end" /\ errClosed /\ raw = None /\ rawErr = <<>>
    BY DEF evClosed, errClosed, ForwarderOK, ErrorOK
  <2>2. dec = "end"
    BY <2>1 DEF ForwarderOK
  <2>3. errs \o errCh = Only(failure)
    <3>1. CASE failure = None
      <4>1. errs = <<>> /\ errCh = <<>>
        BY <3>1 DEF ErrorOK
      <4> QED BY <3>1, <4>1 DEF Only
    <3>2. CASE failure # None
      <4>1. \/ errs = <<>> /\ errCh = <<failure>>
            \/ errs = <<failure>> /\ errCh = <<>>
        BY <2>1, <2>2, <3>2, EventsAssumption DEF ErrorOK
      <4>2. Only(failure) = <<failure>>
        BY <3>2 DEF Only
      <4>3. <<failure>> \in Seq(Errors)
        BY <3>2 DEF TypeOK
      <4> QED BY <4>1, <4>2, <4>3, ConcatEmptySeq
    <3> QED BY <3>1, <3>2
  <2>4. ASSUME failure = None PROVE stream = "eof" /\ Len(received) = sent
    <3>1. stream = "eof" /\ decoded = sent
      BY <2>2, <2>4 DEF DecoderOK
    <3> QED BY <2>1, <2>2, <3>1 DEF NoLoss, One, TypeOK
  <2> QED BY <2>1, <2>3, <2>4
<1> QED BY <1>1, Invariance, PTL

\* No goroutine waits for a place in a channel of errors: a send into one finds it
\* empty, also when the subscriber never looks at errCh (transport.go:158,
\* client.go:182).
ErrorsFit ==
  /\ dec = "decode" => rawErr = <<>>
  /\ fwd = "drain" /\ rawErr # <<>> => errCh = <<>>

\* So neither goroutine is held up by errors that nobody receives.
THEOREM ErrorsNeverBlock == Spec => []ErrorsFit
<1>1. TypeOK /\ Inv => ErrorsFit
  BY EventsAssumption DEF Inv, DecoderOK, ErrorOK, ErrorsFit
<1> QED BY <1>1, Invariance, PTL
================================================================================
