--------------------------- MODULE ByteSourceProofs ---------------------------
(***************************************************************************)
(* Proofs about ByteSource for every bound and every counter width.        *)
(***************************************************************************)
EXTENDS ByteSource, TLAPS

(* Nothing but a closed stream keeps an uncounted body in the store.       *)
TornIsLast == serve \in {"loop", "refused"} => Len(store) = frames

StoreInv == FIFO /\ TornIsLast

(* A reader that may still block has left no channel behind, and will be   *)
(* woken by bs.closed.                                                     *)
NoChannelLeft ==
  /\ pc = "select" => waiting = {}
  /\ failed = "nil" /\ pc # "blocked" => waiting = {}
  /\ pc = "select" /\ failed # "nil" => closed

(* The channel of a blocked reader is closed only by a frame.              *)
SignalMeansFrame == pc = "blocked" /\ chan \in signalled => frames > 0

ReadyMeansFrame == pc = "ready" => frames > 0

WakeInv ==
  /\ NoLostWakeup /\ NoDoubleClose /\ OneWaiter
  /\ NoChannelLeft /\ SignalMeansFrame /\ ReadyMeansFrame

(* A reader is told of the end only after it came.                         *)
EndInv == EndIsComplete /\ (told # "nothing" => failed # "nil")

(* The inductive invariant.  FIFO alone is not inductive: consume may only *)
(* append if no torn body lies behind the counted frames, and Bytes may    *)
(* only take a frame if each way out of the select found one.              *)
IInv == TypeOK /\ StoreInv /\ WakeInv /\ EndInv

-------------------------------------------------------------------------------
(* The initial state has no frame, no channel and no end.                  *)
LEMMA InitInv == Init => IInv
<1> SUFFICES ASSUME Init PROVE IInv
  OBVIOUS
<1> USE DEF Init
<1>1. TypeOK
  <2>1. 0 \in Nat /\ 0 \in 0 .. 0 /\ 0 \in 0 .. Uint32 - 1 /\ 0 \in 0 .. MaxPuts /\ 0 \in 0 .. MaxFrames
    BY BoundsAssumption
  <2>2. << >> \in Seq(Nat)
    OBVIOUS
  <2> QED
    BY <2>1, <2>2 DEF TypeOK, CtxErr
<1>2. StoreInv
  BY DEF StoreInv, FIFO, TornIsLast
<1>3. WakeInv
  BY DEF WakeInv, NoLostWakeup, NoDoubleClose, OneWaiter, NoChannelLeft, SignalMeansFrame,
         ReadyMeansFrame
<1>4. EndInv
  BY DEF EndInv, EndIsComplete
<1> QED
  BY <1>1, <1>2, <1>3, <1>4 DEF IInv

(* Types are kept; the counter of frames does not overflow, because it     *)
(* never exceeds what has been sent.                                       *)
LEMMA TypeStep == TypeOK /\ FIFO /\ ReadyMeansFrame /\ [Next]_vars => TypeOK'
<1> SUFFICES ASSUME TypeOK, FIFO, ReadyMeansFrame, [Next]_vars
             PROVE TypeOK'
  OBVIOUS
<1> USE BoundsAssumption DEF TypeOK
<1>1. CASE consume
  BY <1>1 DEF consume, copyBody, FIFO, bsVars, ctxVars, readerVars
<1>2. CASE consumeTorn
  BY <1>2 DEF consumeTorn, copyBodyTorn, Torn, bsVars, ctxVars, readerVars
<1>3. CASE consumeRefused
  BY <1>3 DEF consumeRefused, fbVars, bsVars, ctxVars, readerVars
<1>4. CASE closeStreamCancel
  BY <1>4 DEF closeStreamCancel, Cancel, EndErr, Cause, fbVars, ctxVars, readerVars
<1>5. CASE closeStreamAbort
  BY <1>5 DEF closeStreamAbort, CancelCtx, CtxErr, fbVars, bsVars, readerVars
<1>6. CASE TerminateCancel
  BY <1>6 DEF TerminateCancel, Cancel, Cause, fbVars, ctxVars, readerVars
<1>7. CASE UserCancel
  BY <1>7 DEF UserCancel, Cancel, Cause, fbVars, ctxVars, readerVars
<1>8. CASE EndStreamCtx
  BY <1>8 DEF EndStreamCtx, fbVars, bsVars, readerVars
<1>9. CASE EndCallCtx
  BY <1>9 DEF EndCallCtx, fbVars, bsVars, readerVars
<1>10. CASE NextCheck
  <2>1. store' \in Seq(Nat)
    <3>1. << >> \in Seq(Nat)
      OBVIOUS
    <3> QED
      BY <1>10, <3>1 DEF NextCheck
  <2>2. UNCHANGED <<serve, sent, delivered, chan, nchan, frames, waiting, signalled, failed, closed,
                    streamCtx, callCtx>>
    BY <1>10 DEF NextCheck, bsVars, ctxVars
  <2>3. pc' \in {"idle", "ready", "select"} /\ told' \in {"nothing", "clean", "error"}
    BY <1>10 DEF NextCheck, NextReturnsTrue, NextReturnsFalse, Err
  <2>4. puts' \in 0 .. MaxPuts
    BY <1>10 DEF NextCheck, NextReturnsTrue
  <2> QED
    BY <2>1, <2>2, <2>3, <2>4
<1>11. CASE waitForMore
  <2>1. nchan' = nchan + 1 /\ nchan \in Nat /\ 1 .. nchan \subseteq 1 .. nchan'
    BY <1>11 DEF waitForMore
  <2>2. nchan + 1 \in 1 .. nchan' /\ chan' \in 0 .. nchan'
    BY <1>11, <2>1 DEF waitForMore
  <2>3. waiting' \subseteq waiting \cup {nchan + 1} /\ signalled' \subseteq signalled \cup {nchan + 1}
    BY <1>11 DEF waitForMore
  <2>4. waiting' \subseteq 1 .. nchan' /\ signalled' \subseteq 1 .. nchan'
    BY <2>1, <2>2, <2>3
  <2> QED
    BY <1>11, <2>1, <2>2, <2>4 DEF waitForMore, bsVars, ctxVars
<1>12. CASE WakeStreamCtx
  BY <1>12 DEF WakeStreamCtx, NextReturnsTrue, NextReturnsFalse, Err, Cause, CtxErr, fbVars, ctxVars
<1>13. CASE WakeCallCtx
  BY <1>13 DEF WakeCallCtx, NextReturnsFalse, Err, Cause, CtxErr, fbVars, ctxVars
<1>14. CASE WakeClosed
  BY <1>14 DEF WakeClosed, NextReturnsTrue, NextReturnsFalse, Err, fbVars, bsVars, ctxVars
<1>15. CASE WakeFrame
  BY <1>15 DEF WakeFrame, NextReturnsTrue, fbVars, bsVars, ctxVars
<1>16. CASE Bytes
  <2>1. frames > 0
    BY <1>16 DEF Bytes, ReadyMeansFrame
  <2>2. store' \in Seq(Nat) /\ delivered' \in Seq(Nat)
    BY <1>16 DEF Bytes
  <2> QED
    BY <1>16, <2>1, <2>2 DEF Bytes, PreviousFrames, bsVars, ctxVars
<1>17. CASE UNCHANGED vars
  BY <1>17 DEF vars
<1> QED
  BY <1>1, <1>2, <1>3, <1>4, <1>5, <1>6, <1>7, <1>8, <1>9, <1>10, <1>11, <1>12, <1>13,
     <1>14, <1>15, <1>16, <1>17
  DEF Next, ServeStep, OtherStep, ReaderStep, Wake

(* The store and the counter keep agreeing; only consume, consumeTorn,    *)
(* Bytes and the Put of a false Next touch them.                          *)
LEMMA StoreStep ==
  TypeOK /\ StoreInv /\ ReadyMeansFrame /\ [Next]_vars => StoreInv'
<1> SUFFICES ASSUME TypeOK, StoreInv, ReadyMeansFrame, [Next]_vars
             PROVE StoreInv'
  OBVIOUS
<1>1. /\ frames \in Nat /\ sent \in Nat /\ store \in Seq(Nat) /\ delivered \in Seq(Nat)
      /\ Len(store) \in Nat /\ Len(delivered) \in Nat
  BY DEF TypeOK
<1>2. Len(delivered) + frames = sent /\ frames <= Len(store) /\ Len(store) <= frames + 1
  BY DEF StoreInv, FIFO
<1>3. \A i \in 1 .. Len(delivered) : delivered[i] = i
  BY DEF StoreInv, FIFO
<1>4. \A i \in 1 .. frames : store[i] = Len(delivered) + i
  BY DEF StoreInv, FIFO
<1>5. Len(store) > frames => store[frames + 1] = Torn
  BY DEF StoreInv, FIFO
<1>6. CASE consume
  <2>1. /\ store' = Append(store, sent + 1) /\ frames' = frames + 1
        /\ sent' = sent + 1 /\ delivered' = delivered /\ Len(store) = frames
    BY <1>6 DEF consume, copyBody, readerVars, StoreInv, TornIsLast
  <2>2. Len(store') = frames' /\ Len(delivered') + frames' = sent'
    <3>1. sent + 1 \in Nat
      BY <1>1
    <3>2. Len(store') = Len(store) + 1
      BY <1>1, <2>1, <3>1
    <3> QED
      BY <1>1, <1>2, <2>1, <3>2
  <2>3. ASSUME NEW i \in 1 .. frames' PROVE store'[i] = Len(delivered') + i
    <3>1. CASE i = frames + 1
      BY <1>1, <1>2, <2>1, <3>1
    <3>2. CASE i \in 1 .. frames
      BY <1>1, <1>4, <2>1, <3>2
    <3> QED
      BY <1>1, <2>1, <3>1, <3>2
  <2>4. \A i \in 1 .. Len(delivered') : delivered'[i] = i
    BY <1>3, <2>1
  <2> QED
    BY <1>1, <2>1, <2>2, <2>3, <2>4 DEF StoreInv, FIFO, TornIsLast
<1>7. CASE consumeTorn
  <2>1. /\ store' = Append(store, Torn) /\ frames' = frames /\ serve' = "torn"
        /\ sent' = sent /\ delivered' = delivered /\ Len(store) = frames
    BY <1>7 DEF consumeTorn, copyBodyTorn, readerVars, StoreInv, TornIsLast
  <2>2. Len(store') = frames' + 1 /\ store'[frames' + 1] = Torn
    BY <1>1, <2>1 DEF Torn
  <2>3. ASSUME NEW i \in 1 .. frames' PROVE store'[i] = Len(delivered') + i
    BY <1>1, <1>4, <2>1 DEF Torn
  <2>4. \A i \in 1 .. Len(delivered') : delivered'[i] = i
    BY <1>3, <2>1
  <2> QED
    BY <1>1, <1>2, <2>1, <2>2, <2>3, <2>4 DEF StoreInv, FIFO, TornIsLast
<1>8. CASE Bytes
  <2>1. frames > 0
    BY <1>8 DEF Bytes, ReadyMeansFrame
  <2>2. /\ delivered' = Append(delivered, Head(store)) /\ store' = Tail(store)
        /\ frames' = frames - 1 /\ sent' = sent /\ serve' = serve /\ store # << >>
    BY <1>8, <2>1 DEF Bytes, PreviousFrames
  <2>3. /\ Len(store') = Len(store) - 1 /\ Len(delivered') = Len(delivered) + 1
        /\ Head(store) = store[1]
    BY <1>1, <2>2
  <2>4. store[1] = Len(delivered) + 1
    BY <1>1, <1>4, <2>1
  <2>5. \A i \in 1 .. Len(store') : store'[i] = store[i + 1]
    BY <1>1, <2>2
  <2>6. ASSUME NEW i \in 1 .. frames' PROVE store'[i] = Len(delivered') + i
    <3>1. i + 1 \in 1 .. frames /\ i \in 1 .. Len(store')
      BY <1>1, <1>2, <2>1, <2>2, <2>3
    <3>2. store'[i] = store[i + 1] /\ store[i + 1] = Len(delivered) + (i + 1)
      BY <1>4, <2>5, <3>1
    <3> QED
      BY <1>1, <2>3, <3>2
  <2>7. ASSUME Len(store') > frames' PROVE store'[frames' + 1] = Torn
    <3>1. frames' + 1 = frames /\ frames \in 1 .. Len(store') /\ Len(store) > frames
      BY <1>1, <1>2, <2>1, <2>2, <2>3, <2>7
    <3> QED
      BY <1>5, <2>5, <3>1
  <2>8. ASSUME NEW i \in 1 .. Len(delivered') PROVE delivered'[i] = i
    <3>1. CASE i = Len(delivered) + 1
      BY <1>1, <2>2, <2>3, <2>4, <3>1
    <3>2. CASE i \in 1 .. Len(delivered)
      BY <1>1, <1>3, <2>2, <3>2
    <3> QED
      BY <1>1, <2>3, <3>1, <3>2
  <2>9. Len(delivered') + frames' = sent' /\ frames' <= Len(store') /\ Len(store') <= frames' + 1
    <3>1. frames' = frames - 1 /\ sent' = sent
      BY <2>2
    <3>2. Len(delivered') = Len(delivered) + 1 /\ Len(store') = Len(store) - 1
      BY <2>3
    <3>3. frames \in Nat /\ Len(delivered) \in Nat /\ Len(store) \in Nat
      BY <1>1
    <3> QED
      BY <1>2, <2>1, <3>1, <3>2, <3>3
  <2>10. TornIsLast'
    BY <1>1, <2>1, <2>2, <2>3 DEF StoreInv, TornIsLast
  <2> QED
    BY <2>6, <2>7, <2>8, <2>9, <2>10 DEF StoreInv, FIFO
<1>9. ASSUME UNCHANGED <<store, frames, sent, delivered>>,
             serve' \in {"loop", "refused"} => serve \in {"loop", "refused"}
      PROVE  StoreInv'
  BY <1>9 DEF StoreInv, FIFO, TornIsLast
<1>10. CASE consumeRefused \/ closeStreamCancel \/ closeStreamAbort
  BY <1>9, <1>10 DEF consumeRefused, closeStreamCancel, closeStreamAbort, fbVars, readerVars
<1>11. CASE OtherStep
  BY <1>9, <1>11 DEF OtherStep, TerminateCancel, UserCancel, EndStreamCtx, EndCallCtx, fbVars,
     readerVars
<1>12. CASE waitForMore
  BY <1>9, <1>12 DEF waitForMore, fbVars
<1>15. CASE NextCheck
  <2>1. /\ UNCHANGED <<frames, sent, delivered, serve>>
        /\ store' = store \/ (frames = 0 /\ store' = << >>)
    BY <1>15 DEF NextCheck
  <2>2. CASE store' = store
    BY <1>9, <2>1, <2>2
  <2>3. CASE frames = 0 /\ store' = << >>
    <3>1. Len(store') = 0 /\ frames' = 0
      BY <2>1, <2>3
    <3> QED
      BY <1>2, <1>3, <2>1, <2>3, <3>1 DEF StoreInv, FIFO, TornIsLast
  <2> QED
    BY <2>1, <2>2, <2>3
<1>13. CASE Wake
  BY <1>9, <1>13 DEF Wake, WakeStreamCtx, WakeCallCtx, WakeClosed, WakeFrame, fbVars
<1>14. CASE UNCHANGED vars
  BY <1>9, <1>14 DEF vars
<1> QED
  BY <1>6, <1>7, <1>8, <1>10, <1>11, <1>12, <1>13, <1>14, <1>15
  DEF Next, ServeStep, ReaderStep

(* The wake-up protocol.  consume closes the channel of a blocked reader   *)
(* with the frame it brings; Cancel closes bs.closed with the cause.       *)
LEMMA WakeStep ==
  TypeOK /\ FIFO /\ WakeInv /\ [Next]_vars => WakeInv'
<1> SUFFICES ASSUME TypeOK, FIFO, WakeInv, [Next]_vars
             PROVE WakeInv'
  OBVIOUS
<1> USE DEF WakeInv, NoLostWakeup, NoDoubleClose, OneWaiter, NoChannelLeft, SignalMeansFrame,
            ReadyMeansFrame
<1>1. frames \in Nat /\ nchan \in Nat /\ waiting \subseteq 1 .. nchan /\ signalled \subseteq 1 .. nchan
  BY DEF TypeOK
<1>2. CASE consume
  <2>1. /\ signalled' = signalled \cup waiting /\ waiting' = {} /\ frames' = frames + 1
        /\ UNCHANGED <<failed, closed, pc, chan>> /\ failed = "nil"
    BY <1>2 DEF consume, copyBody, bsVars, readerVars
  <2>2. frames' > 0
    BY <1>1, <2>1
  <2> QED
    BY <2>1, <2>2
<1>3. ASSUME UNCHANGED <<frames, waiting, signalled, pc, chan>>,
             failed # "nil" => UNCHANGED <<failed, closed>>,
             failed = "nil" => UNCHANGED <<failed, closed>> \/ (failed' # "nil" /\ closed')
      PROVE  WakeInv'
  BY <1>3
<1>4. CASE consumeTorn \/ consumeRefused
  BY <1>3, <1>4 DEF consumeTorn, copyBodyTorn, consumeRefused, fbVars, bsVars, readerVars
<1>5. ASSUME NEW err, Cancel(err), UNCHANGED <<fbVars, readerVars>> PROVE WakeInv'
  <2>1. failed = "nil" => failed' # "nil" /\ closed'
    BY <1>5 DEF Cancel
  <2> QED
    BY <1>3, <1>5, <2>1 DEF Cancel, fbVars, readerVars
<1>6. CASE closeStreamCancel
  <2>1. PICK err : Cancel(err)
    BY <1>6 DEF closeStreamCancel
  <2> QED
    BY <1>5, <1>6, <2>1 DEF closeStreamCancel
<1>7. CASE TerminateCancel \/ UserCancel
  <2>1. PICK err : Cancel(err)
    BY <1>7 DEF TerminateCancel, UserCancel
  <2> QED
    BY <1>5, <1>7, <2>1 DEF TerminateCancel, UserCancel
<1>8. CASE closeStreamAbort \/ EndStreamCtx \/ EndCallCtx
  BY <1>3, <1>8 DEF closeStreamAbort, EndStreamCtx, EndCallCtx, fbVars, bsVars, readerVars
<1>9. CASE NextCheck
  BY <1>9 DEF NextCheck, NextReturnsTrue, NextReturnsFalse, fbVars, bsVars
<1>10. CASE waitForMore
  <2>1. /\ pc = "select" /\ pc' = "blocked" /\ chan' = nchan + 1 /\ waiting = {}
        /\ UNCHANGED <<failed, closed, frames>>
    BY <1>10 DEF waitForMore, bsVars
  <2>2. nchan + 1 \notin signalled
    BY <1>1
  <2>3. CASE frames > 0
    <3>1. waiting' = {} /\ signalled' = signalled \cup {chan'}
      BY <1>1, <1>10, <2>1, <2>3 DEF waitForMore
    <3> QED
      BY <2>1, <2>3, <3>1
  <2>4. CASE frames = 0
    <3>1. waiting' = {chan'} /\ signalled' = signalled /\ chan' \notin signalled /\ ~(frames' > 0)
      BY <1>1, <1>10, <2>1, <2>2, <2>4 DEF waitForMore
    <3> QED
      BY <2>1, <3>1
  <2> QED
    BY <1>1, <2>3, <2>4
<1>11. CASE WakeStreamCtx \/ WakeCallCtx
  <2>1. /\ pc = "blocked" /\ failed' # "nil" /\ (closed => failed # "nil")
        /\ UNCHANGED <<frames, waiting, signalled, chan, closed>>
        /\ pc' \in {"idle", "ready"} /\ (pc' = "ready" => frames > 0)
    BY <1>11 DEF WakeStreamCtx, WakeCallCtx, NextReturnsTrue, NextReturnsFalse, fbVars, TypeOK, CtxErr
  <2> QED
    BY <2>1
<1>12. CASE WakeClosed \/ WakeFrame
  <2>1. /\ pc = "blocked" /\ (closed \/ chan \in signalled)
        /\ UNCHANGED <<failed, frames, waiting, signalled, chan, closed>>
        /\ pc' \in {"idle", "ready"} /\ (pc' = "ready" => frames > 0)
    BY <1>12 DEF WakeClosed, WakeFrame, NextReturnsTrue, NextReturnsFalse, fbVars, bsVars
  <2> QED
    BY <2>1
<1>13. CASE Bytes
  BY <1>13 DEF Bytes, fbVars, bsVars
<1>14. CASE UNCHANGED vars
  BY <1>14 DEF vars
<1> QED
  BY <1>2, <1>4, <1>6, <1>7, <1>8, <1>9, <1>10, <1>11, <1>12, <1>13, <1>14
  DEF Next, ServeStep, OtherStep, ReaderStep, Wake

(* A cause, once set, stays: the action property of FirstCauseWins.        *)
LEMMA FirstCauseStep == [Next]_vars => (failed # "nil" => failed' = failed)
<1>1. ASSUME NEW err, Cancel(err), failed # "nil" PROVE failed' = failed
  BY <1>1 DEF Cancel
<1>2. ASSUME ServeStep, failed # "nil" PROVE failed' = failed
  <2>1. CASE closeStreamCancel
    BY <1>1, <1>2, <2>1 DEF closeStreamCancel
  <2> QED
    BY <1>2, <2>1 DEF ServeStep, consume, consumeTorn, consumeRefused, closeStreamAbort, bsVars
<1>3. ASSUME OtherStep, failed # "nil" PROVE failed' = failed
  BY <1>1, <1>3 DEF OtherStep, TerminateCancel, UserCancel, EndStreamCtx, EndCallCtx, bsVars
<1>4. ASSUME ReaderStep, failed # "nil" PROVE failed' = failed
  BY <1>4 DEF ReaderStep, Wake, NextCheck, waitForMore, WakeStreamCtx, WakeCallCtx, WakeClosed,
     WakeFrame, Bytes, bsVars
<1> QED
  BY <1>2, <1>3, <1>4 DEF Next, vars

(* Nothing is accepted after the end, and Next is not false before the     *)
(* accepted frames are read, unless the reader's own context ended.        *)
LEMMA EndStep ==
  TypeOK /\ FIFO /\ WakeInv /\ EndInv /\ [Next]_vars => EndInv'
<1> SUFFICES ASSUME TypeOK, FIFO, WakeInv, EndInv, [Next]_vars
             PROVE EndInv'
  OBVIOUS
<1> USE DEF EndInv, EndIsComplete
<1>1. /\ frames \in Nat /\ sent \in Nat /\ Len(delivered) \in Nat /\ Len(delivered) + frames = sent
      /\ (closed => failed # "nil") /\ (pc = "ready" => frames > 0)
  BY DEF TypeOK, FIFO, WakeInv, NoDoubleClose, ReadyMeansFrame
<1>2. failed # "nil" => failed' = failed
  BY FirstCauseStep
<1>3. frames = 0 => Len(delivered) = sent
  BY <1>1
<1>4. ASSUME UNCHANGED <<told, sent, delivered>>, callCtx' = "live" => callCtx = "live"
      PROVE EndInv'
  BY <1>2, <1>4
<1>5. ASSUME UNCHANGED <<sent, delivered, callCtx>>,
             told' # told => (callCtx # "live" \/ frames = 0) /\ failed' # "nil"
      PROVE EndInv'
  BY <1>2, <1>3, <1>5
<1>6. CASE consume
  BY <1>6 DEF consume, bsVars, ctxVars, readerVars
<1>7. CASE consumeTorn \/ consumeRefused \/ closeStreamCancel \/ closeStreamAbort
  BY <1>4, <1>7 DEF consumeTorn, consumeRefused, closeStreamCancel, closeStreamAbort, ctxVars,
     readerVars
<1>8. CASE TerminateCancel \/ UserCancel
  BY <1>4, <1>8 DEF TerminateCancel, UserCancel, ctxVars, readerVars
<1>9. CASE EndStreamCtx \/ EndCallCtx
  BY <1>4, <1>9 DEF EndStreamCtx, EndCallCtx, CtxErr, readerVars
<1>10. CASE NextCheck
  BY <1>1, <1>5, <1>10 DEF NextCheck, NextReturnsTrue, NextReturnsFalse, ctxVars, bsVars
<1>11. CASE waitForMore
  BY <1>4, <1>11 DEF waitForMore, ctxVars
<1>12. CASE WakeStreamCtx \/ WakeCallCtx
  <2>1. failed' # "nil"
    BY <1>12 DEF WakeStreamCtx, WakeCallCtx, TypeOK, CtxErr
  <2>2. ~(frames > 0) => frames = 0
    BY <1>1
  <2> QED
    BY <1>5, <1>12, <2>1, <2>2 DEF WakeStreamCtx, WakeCallCtx, NextReturnsTrue, NextReturnsFalse,
       ctxVars
<1>13. CASE WakeClosed \/ WakeFrame
  <2>1. ~(frames > 0) => frames = 0
    BY <1>1
  <2> QED
    BY <1>1, <1>5, <1>13, <2>1 DEF WakeClosed, WakeFrame, NextReturnsTrue, NextReturnsFalse, ctxVars,
       bsVars
<1>14. CASE Bytes
  <2>1. pc = "ready" /\ UNCHANGED <<told, sent, callCtx, failed>>
    BY <1>14 DEF Bytes, ctxVars, bsVars
  <2>2. Len(delivered) # sent
    BY <1>1, <2>1
  <2> QED
    BY <2>1, <2>2
<1>15. CASE UNCHANGED vars
  BY <1>4, <1>15 DEF vars
<1> QED
  BY <1>6, <1>7, <1>8, <1>9, <1>10, <1>11, <1>12, <1>13, <1>14, <1>15
  DEF Next, ServeStep, OtherStep, ReaderStep, Wake

-------------------------------------------------------------------------------
LEMMA NextInv == IInv /\ [Next]_vars => IInv'
  BY TypeStep, StoreStep, WakeStep, EndStep DEF IInv, StoreInv, WakeInv

(* The invariant holds in every reachable state.                           *)
THEOREM Invariance == Spec => []IInv
<1>1. IInv /\ [Next]_vars => IInv'
  BY NextInv
<1> QED
  BY <1>1, InitInv, PTL DEF Spec

(* Type correctness of the source and its frame buffer.                    *)
THEOREM TypeCorrect == Spec => []TypeOK
<1>1. IInv => TypeOK
  BY DEF IInv
<1> QED
  BY <1>1, Invariance, PTL

(* Frames come out whole, once and in order (copyBody, getNextFrameReader). *)
THEOREM FramesInOrder == Spec => []FIFO
<1>1. IInv => FIFO
  BY DEF IInv, StoreInv
<1> QED
  BY <1>1, Invariance, PTL

(* A true Next is followed by a Bytes that finds a whole frame.            *)
THEOREM TrueMeansFrame == Spec => []NextTrueMeansFrame
<1>1. IInv => NextTrueMeansFrame
  <2>1. SUFFICES ASSUME IInv, pc = "ready" PROVE frames > 0 /\ store # << >> /\ Head(store) # Torn
    BY DEF NextTrueMeansFrame
  <2>2. /\ frames \in Nat /\ store \in Seq(Nat) /\ frames > 0 /\ Len(delivered) \in Nat
        /\ frames <= Len(store)
    BY <2>1 DEF IInv, TypeOK, WakeInv, ReadyMeansFrame, StoreInv, FIFO
  <2>3. store[1] = Len(delivered) + 1
    <3>1. 1 \in 1 .. frames
      BY <2>2
    <3> QED
      BY <2>1, <3>1 DEF IInv, StoreInv, FIFO
  <2>4. store # << >> /\ Head(store) = store[1]
    BY <2>2
  <2> QED
    BY <2>2, <2>3, <2>4 DEF Torn
<1> QED
  BY <1>1, Invariance, PTL

(* No reader sleeps through a frame or an end.                             *)
THEOREM WakeupKept == Spec => []NoLostWakeup
<1>1. IInv => NoLostWakeup
  BY DEF IInv, WakeInv
<1> QED
  BY <1>1, Invariance, PTL

(* No channel is closed twice, so neither copyBody nor Cancel panics.      *)
THEOREM CloseOnce == Spec => []NoDoubleClose
<1>1. IInv => NoDoubleClose
  BY DEF IInv, WakeInv
<1> QED
  BY <1>1, Invariance, PTL

(* One reader leaves at most one channel on the waiting list.              *)
THEOREM WaitsOnce == Spec => []OneWaiter
<1>1. IInv => OneWaiter
  BY DEF IInv, WakeInv
<1> QED
  BY <1>1, Invariance, PTL

(* The end is told after the last accepted frame.                          *)
THEOREM EndAfterFrames == Spec => []EndIsComplete
<1>1. IInv => EndIsComplete
  BY DEF IInv, EndInv
<1> QED
  BY <1>1, Invariance, PTL

(* The first cause of the end stays, whoever reports another later.        *)
THEOREM FirstCause == Spec => FirstCauseWins
<1>1. [Next]_vars => [failed # "nil" => failed' = failed]_vars
  BY FirstCauseStep
<1> QED
  BY <1>1, PTL DEF Spec, FirstCauseWins

(* The source implements Stream: a frame is accepted only while the stream *)
(* is open, delivery is the next accepted frame, and the end is for good.  *)
THEOREM Refinement == Spec => ImplementsStream
<1>1. Init => AbstractStream!Init
  BY DEF Init, AbstractStream!Init
<1>2. ASSUME IInv, [Next]_vars PROVE [AbstractStream!Next]_(AbstractStream!vars)
  <2> USE DEF AbstractStream!Next, AbstractStream!vars
  <2>1. CASE consume
    BY <2>1 DEF consume, bsVars, readerVars, AbstractStream!Accept
  <2>2. CASE Bytes
    <3>1. /\ frames \in Nat /\ store \in Seq(Nat) /\ frames > 0 /\ Len(delivered) \in Nat
          /\ frames <= Len(store) /\ Len(delivered) + frames = sent /\ sent \in Nat
      BY <1>2, <2>2 DEF IInv, TypeOK, WakeInv, ReadyMeansFrame, StoreInv, FIFO, Bytes
    <3>2. store[1] = Len(delivered) + 1
      <4>1. 1 \in 1 .. frames
        BY <3>1
      <4> QED
        BY <1>2, <4>1 DEF IInv, StoreInv, FIFO
    <3>3. Head(store) = store[1]
      BY <3>1
    <3>4. Len(delivered) < sent
      BY <3>1
    <3> QED
      BY <2>2, <3>2, <3>3, <3>4 DEF Bytes, bsVars, AbstractStream!Deliver
  <2>3. ASSUME UNCHANGED <<sent, delivered>>
        PROVE  [AbstractStream!Next]_(AbstractStream!vars)
    <3>1. failed # "nil" => failed' = failed
      BY <1>2, FirstCauseStep
    <3> QED
      BY <2>3, <3>1 DEF AbstractStream!Close
  <2>4. CASE consumeTorn \/ consumeRefused \/ closeStreamCancel \/ closeStreamAbort
    BY <2>3, <2>4 DEF consumeTorn, consumeRefused, closeStreamCancel, closeStreamAbort, readerVars
  <2>5. CASE OtherStep
    BY <2>3, <2>5 DEF OtherStep, TerminateCancel, UserCancel, EndStreamCtx, EndCallCtx, readerVars
  <2>6. CASE NextCheck \/ waitForMore
    BY <2>3, <2>6 DEF NextCheck, waitForMore
  <2>7. CASE Wake
    BY <2>3, <2>7 DEF Wake, WakeStreamCtx, WakeCallCtx, WakeClosed, WakeFrame
  <2>8. CASE UNCHANGED vars
    BY <2>3, <2>8 DEF vars
  <2> QED
    BY <1>2, <2>1, <2>2, <2>4, <2>5, <2>6, <2>7, <2>8 DEF Next, ServeStep, ReaderStep
<1> QED
  BY <1>1, <1>2, Invariance, PTL DEF Spec, ImplementsStream, AbstractStream!Spec
===============================================================================
