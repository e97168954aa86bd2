----------------------------- MODULE SessionProofs -----------------------------
(***************************************************************************)
(* Proofs about Session, for any calls, any bound and any behaviour of     *)
(* callers, handlers, Terminates and crashes: types; the tables of a       *)
(* request; callers at the end of a session; the data of a source; and,    *)
(* when streams end by packets, the framing of a session.                  *)
(***************************************************************************)
EXTENDS Session, FiniteSets, FiniteSetTheorems, TLAPS

(* The loop has a packet in hand from the header to the end of its work.   *)
InWork == {"end", "endbody", "cancel", "sink", "forget", "data", "fetch", "parse", "consume"}
CurInv == \A p \in Peers : spc[p] \in InWork => cur[p] \in Packet

TypeInv == TypeOK /\ CurInv

(* There are two endpoints, and Other leads from one to the other.         *)
LEMMA OtherPeer ==
  ASSUME NEW p \in Peers
  PROVE  Other(p) \in Peers /\ Other(p) # p /\ Other(Other(p)) = p
<1>1. PICK a \in Peers, b \in Peers : a # b /\ Peers = {a, b}
  BY SessionAssumption
<1> QED
  BY <1>1 DEF Other

LEMMA Ends ==
  ASSUME NEW c \in Calls
  PROVE  CallerOf[c] \in Peers /\ HandlerOf(c) \in Peers /\ HandlerOf(c) # CallerOf[c]
BY SessionAssumption, OtherPeer DEF HandlerOf

LEMMA InitType == Init => TypeInv
<1> SUFFICES ASSUME Init PROVE TypeInv
  OBVIOUS
<1>0. 0 \in 0 .. MaxData /\ 0 \in 0 .. MaxData + 1 /\ 0 \in Nat
  BY SessionAssumption
<1>1. ConnOK /\ TablesOK
  <2>1. << >> \in Seq(Packet)
    OBVIOUS
  <2> QED
    BY <2>1 DEF Init, ConnOK, TablesOK
<1>2. ServeOK /\ CurInv
  BY DEF Init, ServeOK, CurInv, InWork
<1>3. TermOK
  BY DEF Init, TermOK
<1>4. StreamsOK /\ AppsOK
  BY DEF Init, StreamsOK, AppsOK, PerCall
<1>5. HistoryOK
  BY <1>0 DEF Init, HistoryOK, PerCall
<1> QED
  BY <1>1, <1>2, <1>3, <1>4, <1>5 DEF TypeInv, TypeOK

-------------------------------------------------------------------------------
(* What the shared operators do to the variables they change.              *)

LEMMA WriteType ==
  ASSUME ConnOK, NEW p \in Peers, NEW c \in Calls, NEW ok \in BOOLEAN,
         NEW kind \in {"call", "data", "ok", "err"}, WritePacket(p, kind, c, ok)
  PROVE  net' \in [Peers -> Seq(Packet)]
<1> DEFINE q == Other(p)  pkt == [kind |-> kind, call |-> c]
<1>1. q \in Peers /\ pkt \in Packet
  BY OtherPeer DEF Packet
<1>2. net \in [Peers -> Seq(Packet)] /\ net[q] \in Seq(Packet)
  BY <1>1 DEF ConnOK
<1>3. Append(net[q], pkt) \in Seq(Packet)
  BY <1>1, <1>2
<1>4. net' = [net EXCEPT ![q] = Append(net[q], pkt)] \/ net' = net
  BY DEF WritePacket
<1> HIDE DEF q, pkt
<1> QED
  BY <1>1, <1>2, <1>3, <1>4

LEMMA CancelType ==
  ASSUME StreamsOK, NEW p \in Peers, NEW c \in Calls,
         NEW err \in {"nil", "remote", "refused", "session", "user"}, sourceCancel(p, c, err),
         UNCHANGED <<sinkClosed, reqDone>>
  PROVE  StreamsOK'
BY DEF StreamsOK, sourceCancel

LEMMA EndedType ==
  ASSUME HistoryOK, NEW p \in Peers, NEW c \in Calls
  PROVE  MarkEnded(p, c) \in [Peers -> [Calls -> 0 .. MaxData + 1]]
<1>1. wrote[p][c] \in 0 .. MaxData
  BY DEF HistoryOK
<1>2. 1 + wrote[p][c] \in 0 .. MaxData + 1
  BY <1>1, SessionAssumption
<1> QED
  BY <1>2 DEF HistoryOK, MarkEnded

LEMMA SinkCloseType ==
  ASSUME ConnOK, StreamsOK, HistoryOK, NEW p \in Peers, NEW c \in Calls, NEW err,
         sinkCloseWithError(p, c, err)
  PROVE  /\ net' \in [Peers -> Seq(Packet)]
         /\ sinkClosed' \in [Peers -> [Calls -> BOOLEAN]]
         /\ ended' \in [Peers -> [Calls -> 0 .. MaxData + 1]]
<1>1. CASE sinkClosed[p][c]
  BY <1>1 DEF sinkCloseWithError, ConnOK, StreamsOK, HistoryOK
<1>2. CASE ~sinkClosed[p][c]
  <2>1. PICK ok \in BOOLEAN :
          /\ WritePacket(p, IF err = "nil" THEN "ok" ELSE "err", c, ok)
          /\ sinkClosed' = [sinkClosed EXCEPT ![p][c] = err # "nil" \/ ~ok]
          /\ ended' = IF ok THEN MarkEnded(p, c) ELSE ended
    BY <1>2 DEF sinkCloseWithError
  <2>2. net' \in [Peers -> Seq(Packet)]
    BY <2>1, WriteType
  <2>3. sinkClosed' \in [Peers -> [Calls -> BOOLEAN]]
    BY <2>1 DEF StreamsOK
  <2> QED
    BY <2>1, <2>2, <2>3, EndedType DEF HistoryOK
<1> QED
  BY <1>1, <1>2

LEMMA SinkWriteType ==
  ASSUME ConnOK, StreamsOK, HistoryOK, NEW p \in Peers, NEW c \in Calls, sinkWrite(p, c)
  PROVE  ConnOK' /\ StreamsOK' /\ HistoryOK'
<1>1. wrote[p][c] + 1 \in 0 .. MaxData
  BY SessionAssumption DEF sinkWrite, HistoryOK
<1>2. CASE StreamCtxDone(p, c)
  <2>1. net' = net /\ wrote' = wrote /\ sinkClosed' = [sinkClosed EXCEPT ![p][c] = TRUE]
    BY <1>2 DEF sinkWrite
  <2> QED
    BY <2>1 DEF sinkWrite, ConnOK, StreamsOK, HistoryOK
<1>3. CASE ~StreamCtxDone(p, c)
  <2>1. PICK ok \in BOOLEAN :
          /\ WritePacket(p, "data", c, ok)
          /\ sinkClosed' = [sinkClosed EXCEPT ![p][c] = ~ok]
          /\ wrote' = [wrote EXCEPT ![p][c] = IF ok THEN @ + 1 ELSE @]
    BY <1>3 DEF sinkWrite
  <2>2. net' \in [Peers -> Seq(Packet)]
    BY <2>1, WriteType
  <2>3. sinkClosed' \in [Peers -> [Calls -> BOOLEAN]]
    BY <2>1 DEF StreamsOK
  <2>4. wrote' \in [Peers -> [Calls -> 0 .. MaxData]]
    <3> DEFINE n == IF ok THEN wrote[p][c] + 1 ELSE wrote[p][c]  Counts == 0 .. MaxData
    <3>1. wrote' = [wrote EXCEPT ![p][c] = n]
      BY <2>1
    <3>2. wrote \in [Peers -> [Calls -> Counts]]
      BY DEF HistoryOK
    <3>3. n \in Counts
      BY <1>1, <3>2
    <3> HIDE DEF n, Counts
    <3>4. wrote' \in [Peers -> [Calls -> Counts]]
      BY <3>1, <3>2, <3>3
    <3> QED
      BY <3>4 DEF Counts
  <2> QED
    BY <2>2, <2>3, <2>4 DEF sinkWrite, ConnOK, StreamsOK, HistoryOK
<1> QED
  BY <1>2, <1>3

LEMMA ForgetType ==
  ASSUME TablesOK, StreamsOK, NEW p \in Peers, NEW c \in Calls, closeStreamForget(p, c),
         UNCHANGED <<failed, sinkClosed>>
  PROVE  TablesOK' /\ StreamsOK'
BY DEF closeStreamForget, TablesOK, StreamsOK

-------------------------------------------------------------------------------
(* The serve loop: its own variables, then everything else.                *)

LEMMA ServeType ==
  ASSUME TypeInv, NEW p \in Peers, ServeStep(p)
  PROVE  ServeOK' /\ CurInv'
<1>0. ConnOK /\ ServeOK /\ CurInv
  BY DEF TypeInv, TypeOK
<1> USE <1>0 DEF ServeOK, CurInv, InWork, ServeGoto, ServeExit, ServeContinue
<1>1. CASE NextHeader(p)
  <2>1. Head(net[p]) \in Packet
    BY <1>1 DEF NextHeader, ConnOK
  <2> QED
    BY <1>1, <2>1 DEF NextHeader
<1>2. CASE NextHeaderGarbage(p) \/ ServeGarbage(p) \/ NextHeaderEOF(p) \/ NextHeaderFails(p)
  BY <1>2 DEF NextHeaderGarbage, ServeGarbage, NextHeaderEOF, NextHeaderFails
<1>3. CASE serveEnd(p) \/ serveEndBody(p)
  BY <1>3 DEF serveEnd, serveEndBody
<1>4. CASE closeStreamCancel(p) \/ closeStreamSink(p) \/ closeStream(p)
  BY <1>4 DEF closeStreamCancel, closeStreamSink, closeStream
<1>5. CASE maybeDiscardPacket(p) \/ fetchRequest(p) \/ parseNewRequestFails(p)
  BY <1>5 DEF maybeDiscardPacket, fetchRequest, parseNewRequestFails
<1>6. ASSUME NEW c \in Calls, noSuchMethod(p, c) \/ acceptRequest(p, c) PROVE ServeOK' /\ CurInv'
  BY <1>6 DEF noSuchMethod, acceptRequest, NewRequest
<1>7. CASE consume(p)
  BY <1>7 DEF consume
<1> QED
  BY <1>1, <1>2, <1>3, <1>4, <1>5, <1>6, <1>7 DEF ServeStep

RestOK == ConnOK /\ TablesOK /\ TermOK /\ StreamsOK /\ AppsOK /\ HistoryOK

LEMMA ServeRest ==
  ASSUME TypeInv, NEW p \in Peers, ServeStep(p)
  PROVE  RestOK'
<1>0. RestOK /\ ServeOK /\ CurInv
  BY DEF TypeInv, TypeOK, RestOK
<1>1. CASE NextHeader(p)
  <2>1. Tail(net[p]) \in Seq(Packet)
    BY <1>0, <1>1 DEF NextHeader, ConnOK, RestOK
  <2>2. ConnOK'
    BY <1>0, <1>1, <2>1 DEF NextHeader, ConnOK, RestOK
  <2> QED
    BY <1>0, <1>1, <2>2 DEF NextHeader, RestOK, TablesOK, TermOK, StreamsOK, AppsOK, HistoryOK,
       tableVars, termVars, streamVars, appVars, history
<1>2. CASE \/ NextHeaderGarbage(p) \/ ServeGarbage(p) \/ NextHeaderEOF(p) \/ NextHeaderFails(p)
           \/ serveEnd(p) \/ serveEndBody(p)
           \/ maybeDiscardPacket(p) \/ fetchRequest(p) \/ parseNewRequestFails(p)
  <2>1. UNCHANGED <<netVars, tableVars, termVars, streamVars, appVars, history>>
    BY <1>2 DEF NextHeaderGarbage, ServeGarbage, NextHeaderEOF, NextHeaderFails, serveEnd,
       serveEndBody, maybeDiscardPacket, fetchRequest, parseNewRequestFails
  <2> QED
    BY <1>0, <2>1 DEF RestOK, ConnOK, TablesOK, TermOK, StreamsOK, AppsOK, HistoryOK, netVars,
       tableVars, termVars, streamVars, appVars, history
<1>3. ASSUME spc[p] \in InWork PROVE cur[p].call \in Calls
  BY <1>0, <1>3 DEF CurInv, Packet
<1>4. CASE closeStreamCancel(p)
  <2>1. StreamsOK'
    <3>1. cur[p].call \in Calls /\ serr[p] \in {"nil", "remote", "refused", "session", "user"}
      BY <1>0, <1>3, <1>4 DEF closeStreamCancel, InWork, ServeOK
    <3> QED
      BY <1>0, <1>4, <3>1, CancelType DEF closeStreamCancel, RestOK
  <2> QED
    BY <1>0, <1>4, <2>1 DEF closeStreamCancel, RestOK, ConnOK, TablesOK, TermOK, AppsOK, HistoryOK,
       netVars, tableVars, termVars, appVars, history
<1>5. CASE closeStreamSink(p)
  <2>1. cur[p].call \in Calls
    BY <1>3, <1>5 DEF closeStreamSink, InWork
  <2>2. sinkCloseWithError(p, cur[p].call, serr[p])
    BY <1>5 DEF closeStreamSink
  <2>3. /\ net' \in [Peers -> Seq(Packet)]
        /\ sinkClosed' \in [Peers -> [Calls -> BOOLEAN]]
        /\ ended' \in [Peers -> [Calls -> 0 .. MaxData + 1]]
    BY <1>0, <2>1, <2>2, SinkCloseType DEF RestOK
  <2> QED
    BY <1>0, <1>5, <2>3 DEF closeStreamSink, RestOK, ConnOK, TablesOK, TermOK, StreamsOK, AppsOK,
       HistoryOK, tableVars, termVars, appVars
<1>6. CASE closeStream(p)
  <2>1. cur[p].call \in Calls
    BY <1>3, <1>6 DEF closeStream, InWork
  <2>2. TablesOK' /\ StreamsOK'
    BY <1>0, <1>6, <2>1, ForgetType DEF closeStream, RestOK
  <2> QED
    BY <1>0, <1>6, <2>2 DEF closeStream, RestOK, ConnOK, TermOK, AppsOK, HistoryOK, netVars,
       termVars, appVars, history
<1>7. ASSUME NEW c \in Calls, noSuchMethod(p, c) PROVE RestOK'
  <2>1. net' \in [Peers -> Seq(Packet)]
    BY <1>0, <1>7, WriteType DEF noSuchMethod, RestOK
  <2>2. ended' \in [Peers -> [Calls -> 0 .. MaxData + 1]]
    <3>1. ended' = MarkEnded(p, c) \/ ended' = ended
      BY <1>7 DEF noSuchMethod
    <3> QED
      BY <1>0, <3>1, EndedType DEF RestOK, HistoryOK
  <2>3. TablesOK'
    BY <1>0, <1>7 DEF noSuchMethod, RestOK, TablesOK
  <2> QED
    BY <1>0, <1>7, <2>1, <2>2, <2>3 DEF noSuchMethod, RestOK, ConnOK, TermOK, StreamsOK, AppsOK,
       HistoryOK, termVars, streamVars, appVars
<1>8. ASSUME NEW c \in Calls, acceptRequest(p, c) PROVE RestOK'
  <2>1. TablesOK'
    BY <1>0, <1>8 DEF acceptRequest, RestOK, TablesOK
  <2>2. AppsOK'
    BY <1>0, <1>8 DEF acceptRequest, RestOK, AppsOK
  <2> QED
    BY <1>0, <1>8, <2>1, <2>2 DEF acceptRequest, RestOK, ConnOK, TermOK, StreamsOK, HistoryOK,
       netVars, termVars, streamVars, history
<1>9. CASE consume(p)
  <2>1. cur[p].call \in Calls
    BY <1>3, <1>9 DEF consume, InWork
  <2>2. ConnOK'
    <3>1. << >> \in Seq(Packet)
      OBVIOUS
    <3>2. net' = net \/ net' = [net EXCEPT ![p] = << >>]
      BY <1>9 DEF consume
    <3> QED
      BY <1>0, <1>9, <3>1, <3>2 DEF consume, RestOK, ConnOK
  <2>3. got' \in [Peers -> [Calls -> Nat]]
    <3>1. got[p][cur[p].call] + 1 \in Nat
      BY <1>0, <2>1 DEF RestOK, HistoryOK
    <3>2. got' = got \/ got' = [got EXCEPT ![p][cur[p].call] = got[p][cur[p].call] + 1]
      BY <1>9 DEF consume
    <3>3. got \in [Peers -> [Calls -> Nat]]
      BY <1>0 DEF RestOK, HistoryOK
    <3> QED
      BY <2>1, <3>1, <3>2, <3>3
  <2>4. TablesOK' /\ TermOK' /\ StreamsOK' /\ AppsOK'
    BY <1>0, <1>9 DEF consume, RestOK, TablesOK, TermOK, StreamsOK, AppsOK, tableVars, termVars,
       streamVars, appVars
  <2>5. wrote' = wrote /\ ended' = ended
    BY <1>9 DEF consume
  <2> QED
    BY <1>0, <2>2, <2>3, <2>4, <2>5 DEF RestOK, HistoryOK
<1> QED
  BY <1>1, <1>2, <1>4, <1>5, <1>6, <1>7, <1>8, <1>9 DEF ServeStep

-------------------------------------------------------------------------------
(* Terminate, the caller and the handler leave the serve loop alone.       *)

LEMMA TerminateRest ==
  ASSUME RestOK, NEW p \in Peers, NEW w \in Terminating, Terminate(p, w) \/ TerminateStep(p, w)
  PROVE  RestOK' /\ UNCHANGED serveVars
<1>1. CASE Terminate(p, w) \/ TerminateLock(p, w) \/ TerminateClose(p, w)
  <2>1. TermOK' /\ connClosed' \in [Peers -> BOOLEAN]
    <3>0. TermOK /\ ConnOK
      BY DEF RestOK
    <3>1. CASE Terminate(p, w)
      BY <3>0, <3>1 DEF Terminate, TermOK, ConnOK, netVars
    <3>2. CASE TerminateLock(p, w)
      BY <3>0, <3>2 DEF TerminateLock, TermOK, ConnOK, netVars
    <3>3. CASE TerminateClose(p, w)
      BY <3>0, <3>3 DEF TerminateClose, TermOK, ConnOK
    <3> QED
      BY <1>1, <3>1, <3>2, <3>3
  <2> QED
    BY <1>1, <2>1 DEF Terminate, TerminateLock, TerminateClose, RestOK, ConnOK, TablesOK, StreamsOK,
       AppsOK, HistoryOK, netVars, tableVars, streamVars, appVars, history
<1>2. ASSUME NEW c \in Calls, TerminateSweep(p, w, c) PROVE RestOK' /\ UNCHANGED serveVars
  <2>1. sourceCancel(p, c, "session") /\ sinkCloseWithError(p, c, "session")
    BY <1>2 DEF TerminateSweep
  <2>2. /\ net' \in [Peers -> Seq(Packet)]
        /\ sinkClosed' \in [Peers -> [Calls -> BOOLEAN]]
        /\ ended' \in [Peers -> [Calls -> 0 .. MaxData + 1]]
    BY <2>1, SinkCloseType DEF RestOK
  <2>3. failed' \in [Peers -> [Calls -> {"nil", "EOF", "remote", "refused", "session", "user", "canceled"}]]
    BY <2>1 DEF sourceCancel, RestOK, StreamsOK
  <2>4. TablesOK'
    BY <1>2 DEF TerminateSweep, RestOK, TablesOK
  <2> QED
    BY <1>2, <2>2, <2>3, <2>4 DEF TerminateSweep, RestOK, ConnOK, StreamsOK, TermOK, AppsOK,
       HistoryOK, termVars, appVars
<1> QED
  BY <1>1, <1>2 DEF TerminateStep

LEMMA CallerRest ==
  ASSUME RestOK, NEW c \in Calls, CallerStep(c)
  PROVE  RestOK' /\ UNCHANGED serveVars
<1> DEFINE p == CallerOf[c]
<1>0. p \in Peers
  BY Ends
<1>1. CASE start(c) \/ Async(c)
  <2>1. TablesOK'
    BY <1>0, <1>1 DEF start, Async, RestOK, TablesOK, tableVars
  <2>2. AppsOK'
    BY <1>1 DEF start, Async, RestOK, AppsOK
  <2> QED
    BY <1>1, <2>1, <2>2 DEF start, Async, RestOK, ConnOK, TermOK, StreamsOK, HistoryOK, netVars,
       termVars, streamVars, history
<1>2. CASE startWrite(c)
  <2>1. net' \in [Peers -> Seq(Packet)]
    BY <1>0, <1>2, WriteType DEF startWrite, RestOK
  <2>2. AppsOK'
    BY <1>2 DEF startWrite, RestOK, AppsOK
  <2> QED
    BY <1>2, <2>1, <2>2 DEF startWrite, RestOK, ConnOK, TablesOK, TermOK, StreamsOK, HistoryOK,
       tableVars, termVars, streamVars, history
<1>3. CASE callerWrite(c)
  <2>1. ConnOK' /\ StreamsOK' /\ HistoryOK'
    BY <1>0, <1>3, SinkWriteType DEF callerWrite, RestOK
  <2> QED
    BY <1>3, <2>1 DEF callerWrite, sinkWrite, RestOK, TablesOK, TermOK, AppsOK, tableVars, termVars, appVars
<1>4. CASE callerClose(c)
  <2>1. PICK err \in {"nil", "user"} : sinkCloseWithError(p, c, err)
    BY <1>4 DEF callerClose
  <2>2. /\ net' \in [Peers -> Seq(Packet)]
        /\ sinkClosed' \in [Peers -> [Calls -> BOOLEAN]]
        /\ ended' \in [Peers -> [Calls -> 0 .. MaxData + 1]]
    BY <1>0, <2>1, SinkCloseType DEF RestOK
  <2>3. AppsOK'
    BY <1>4 DEF callerClose, RestOK, AppsOK
  <2> QED
    BY <1>4, <2>2, <2>3 DEF callerClose, RestOK, ConnOK, TablesOK, TermOK, StreamsOK, HistoryOK,
       tableVars, termVars
<1>5. CASE callerCancel(c)
  <2>1. StreamsOK'
    BY <1>0, <1>5, CancelType DEF callerCancel, RestOK
  <2>2. AppsOK'
    BY <1>5 DEF callerCancel, RestOK, AppsOK
  <2> QED
    BY <1>5, <2>1, <2>2 DEF callerCancel, RestOK, ConnOK, TablesOK, TermOK, HistoryOK, netVars,
       tableVars, termVars, history
<1>6. CASE callerCtx(c) \/ NextCtxDone(CallerOf[c], c)
  <2>1. StreamsOK'
    <3>1. CASE callerCtx(c)
      BY <1>0, <3>1 DEF callerCtx, RestOK, StreamsOK
    <3>2. CASE NextCtxDone(CallerOf[c], c)
      BY <1>0, <3>2 DEF NextCtxDone, RestOK, StreamsOK
    <3> QED
      BY <1>6, <3>1, <3>2
  <2> QED
    BY <1>6, <2>1 DEF callerCtx, NextCtxDone, RestOK, ConnOK, TablesOK, TermOK, AppsOK, HistoryOK,
       netVars, tableVars, termVars, appVars, history
<1> QED
  BY <1>1, <1>2, <1>3, <1>4, <1>5, <1>6 DEF CallerStep

LEMMA HandlerRest ==
  ASSUME RestOK, NEW c \in Calls, HandlerStep(c)
  PROVE  RestOK' /\ UNCHANGED serveVars
<1> DEFINE p == HandlerOf(c)
<1>0. p \in Peers
  BY Ends
<1>1. CASE handlerWrite(c) \/ Return(c)
  <2>1. sinkWrite(p, c)
    BY <1>1 DEF handlerWrite, Return
  <2>2. ConnOK' /\ StreamsOK' /\ HistoryOK'
    BY <1>0, <2>1, SinkWriteType DEF RestOK
  <2>3. AppsOK'
    BY <1>1 DEF handlerWrite, Return, RestOK, AppsOK, appVars
  <2> QED
    BY <2>1, <2>2, <2>3 DEF sinkWrite, RestOK, TablesOK, TermOK, tableVars, termVars
<1>2. CASE handlerClose(c) \/ CloseWithErrorSink(c)
  <2>1. PICK err : sinkCloseWithError(p, c, err)
    BY <1>2 DEF handlerClose, CloseWithErrorSink
  <2>2. /\ net' \in [Peers -> Seq(Packet)]
        /\ sinkClosed' \in [Peers -> [Calls -> BOOLEAN]]
        /\ ended' \in [Peers -> [Calls -> 0 .. MaxData + 1]]
    BY <1>0, <2>1, SinkCloseType DEF RestOK
  <2>3. AppsOK'
    BY <1>2 DEF handlerClose, CloseWithErrorSink, RestOK, AppsOK
  <2> QED
    BY <1>2, <2>2, <2>3 DEF handlerClose, CloseWithErrorSink, RestOK, ConnOK, TablesOK, TermOK,
       StreamsOK, HistoryOK, tableVars, termVars
<1>3. CASE CloseWithError(c)
  <2>1. StreamsOK'
    BY <1>0, <1>3, CancelType DEF CloseWithError, RestOK
  <2>2. AppsOK'
    BY <1>3 DEF CloseWithError, RestOK, AppsOK
  <2> QED
    BY <1>3, <2>1, <2>2 DEF CloseWithError, RestOK, ConnOK, TablesOK, TermOK, HistoryOK, netVars,
       tableVars, termVars, history
<1>4. CASE CloseWithErrorForget(c)
  <2>1. TablesOK' /\ StreamsOK'
    BY <1>0, <1>4, ForgetType DEF CloseWithErrorForget, RestOK
  <2>2. AppsOK'
    BY <1>4 DEF CloseWithErrorForget, RestOK, AppsOK
  <2> QED
    BY <1>4, <2>1, <2>2 DEF CloseWithErrorForget, RestOK, ConnOK, TermOK, HistoryOK, netVars,
       termVars, history
<1>5. CASE NextCtxDone(HandlerOf(c), c)
  <2>1. StreamsOK'
    BY <1>0, <1>5 DEF NextCtxDone, RestOK, StreamsOK
  <2> QED
    BY <1>5, <2>1 DEF NextCtxDone, RestOK, ConnOK, TablesOK, TermOK, AppsOK, HistoryOK, netVars,
       tableVars, termVars, appVars, history
<1> QED
  BY <1>1, <1>2, <1>3, <1>4, <1>5 DEF HandlerStep, HandlerCloses

LEMMA NextType == TypeInv /\ [Next]_vars => TypeInv'
<1> SUFFICES ASSUME TypeInv, [Next]_vars PROVE TypeInv'
  OBVIOUS
<1>0. RestOK /\ ServeOK /\ CurInv
  BY DEF TypeInv, TypeOK, RestOK
<1>1. ASSUME RestOK', UNCHANGED serveVars PROVE TypeInv'
  BY <1>0, <1>1 DEF TypeInv, TypeOK, RestOK, ServeOK, CurInv, serveVars
<1>2. ASSUME NEW p \in Peers, ServeStep(p) PROVE TypeInv'
  BY <1>2, ServeType, ServeRest DEF TypeInv, TypeOK, RestOK
<1>3. ASSUME NEW p \in Peers, Crash(p) PROVE TypeInv'
  <2>1. ServeOK' /\ CurInv' /\ ConnOK'
    BY <1>0, <1>3 DEF Crash, ServeOK, CurInv, InWork, RestOK, ConnOK
  <2> QED
    BY <1>0, <1>3, <2>1 DEF Crash, TypeInv, TypeOK, RestOK, TablesOK, TermOK, StreamsOK, AppsOK,
       HistoryOK, tableVars, termVars, streamVars, appVars, history
<1>4. CASE UNCHANGED vars
  <2>1. RestOK'
    BY <1>0, <1>4 DEF vars, RestOK, ConnOK, TablesOK, TermOK, StreamsOK, AppsOK, HistoryOK, netVars,
       tableVars, termVars, streamVars, appVars, history
  <2> QED
    BY <1>1, <1>4, <2>1 DEF vars
<1> QED
  BY <1>0, <1>1, <1>2, <1>3, <1>4, TerminateRest, CallerRest, HandlerRest DEF Next

(* Every variable keeps its type: the keys of both tables are calls, what  *)
(* the loop works on is a packet, and nobody leaves the paths described.   *)
THEOREM TypeCorrect == Spec => []TypeOK
<1>1. TypeInv => TypeOK
  BY DEF TypeInv
<1> QED
  BY <1>1, InitType, NextType, PTL DEF Spec

-------------------------------------------------------------------------------
(*****************************************************************************)
(* A request is active or closed and never comes back, and a closed          *)
(* connection leaves no caller waiting.                                      *)
(*****************************************************************************)

(* Where the first packet of a call is, and whether peer p may still have  *)
(* to register the call.                                                   *)
First(c) == [kind |-> "call", call |-> c]
At(s, x) == \E i \in 1 .. Len(s) : s[i] = x
Once(s, x) == \A i, j \in 1 .. Len(s) : s[i] = x /\ s[j] = x => i = j

Unsent(c) == cpc[c] \in {"new", "registered", "failed"}
InNet(c) == At(net[HandlerOf(c)], First(c))
InHand(c) ==
  spc[HandlerOf(c)] \in {"data", "fetch", "parse"} /\ cur[HandlerOf(c)] = First(c)

Fresh(p, c) ==
  IF p = CallerOf[c] THEN cpc[c] = "new" ELSE Unsent(c) \/ InNet(c) \/ InHand(c)

(* The serve loop of p is at work on a stream it found in its table.       *)
Works(p, c) == spc[p] \in {"endbody", "cancel", "sink", "forget", "consume"} /\ cur[p].call = c

(* The first packet of a call travels once.                                *)
FirstInv ==
  \A c \in Calls :
    /\ Unsent(c) => ~InNet(c) /\ ~InHand(c)
    /\ InHand(c) => ~InNet(c)
    /\ Once(net[HandlerOf(c)], First(c))

(* What is still to be registered is in no table and nobody works on it.   *)
FreshInv ==
  \A p \in Peers, c \in Calls :
    Fresh(p, c) => c \notin reqs[p] \cup reqsClosed[p] /\ ~Works(p, c)

RunsInv == \A c \in Calls : hpc[c] # "none" => ~Fresh(HandlerOf(c), c)

TablesInv == FirstInv /\ FreshInv /\ RunsInv /\ ClosedStaysClosed

-------------------------------------------------------------------------------
(* Sequences in which a packet occurs once.                                *)

LEMMA AtAppend ==
  ASSUME NEW s \in Seq(Packet), NEW e \in Packet, NEW x
  PROVE  /\ At(Append(s, e), x) => At(s, x) \/ e = x
         /\ Once(s, x) /\ (e # x \/ ~At(s, x)) => Once(Append(s, e), x)
<1>1. Len(Append(s, e)) = Len(s) + 1 /\ Len(s) \in Nat
  OBVIOUS
<1>2. \A i \in 1 .. Len(s) + 1 : Append(s, e)[i] = IF i = Len(s) + 1 THEN e ELSE s[i]
  OBVIOUS
<1>3. At(Append(s, e), x) => At(s, x) \/ e = x
  BY <1>1, <1>2 DEF At
<1>4. ASSUME Once(s, x), e # x \/ ~At(s, x), NEW i \in 1 .. Len(s) + 1, NEW j \in 1 .. Len(s) + 1,
             Append(s, e)[i] = x, Append(s, e)[j] = x
      PROVE  i = j
  BY <1>1, <1>2, <1>4 DEF At, Once
<1> QED
  BY <1>1, <1>3, <1>4 DEF Once

LEMMA AtTail ==
  ASSUME NEW s \in Seq(Packet), s # << >>, NEW x
  PROVE  /\ At(Tail(s), x) => At(s, x)
         /\ Once(s, x) => Once(Tail(s), x)
         /\ Head(s) = x => At(s, x)
         /\ Once(s, x) /\ Head(s) = x => ~At(Tail(s), x)
<1>1. Len(Tail(s)) = Len(s) - 1 /\ Len(s) \in Nat /\ Len(s) > 0
  OBVIOUS
<1>2. \A i \in 1 .. Len(s) - 1 : Tail(s)[i] = s[i + 1]
  OBVIOUS
<1>3. Head(s) = s[1]
  OBVIOUS
<1>4. \A i \in 1 .. Len(s) - 1 : i + 1 \in 1 .. Len(s) /\ i + 1 # 1
  BY <1>1
<1>5. 1 \in 1 .. Len(s)
  BY <1>1
<1>6. At(Tail(s), x) => At(s, x)
  BY <1>1, <1>2, <1>4 DEF At
<1>7. ASSUME Once(s, x), NEW i \in 1 .. Len(s) - 1, NEW j \in 1 .. Len(s) - 1,
             Tail(s)[i] = x, Tail(s)[j] = x
      PROVE  i = j
  <2>1. i + 1 = j + 1
    BY <1>2, <1>4, <1>7 DEF Once
  <2> QED
    BY <2>1
<1>8. ASSUME Once(s, x), Head(s) = x, NEW i \in 1 .. Len(s) - 1, Tail(s)[i] = x PROVE FALSE
  BY <1>2, <1>3, <1>4, <1>5, <1>8 DEF Once
<1> QED
  BY <1>1, <1>3, <1>5, <1>6, <1>7, <1>8 DEF At, Once

-------------------------------------------------------------------------------
(* The shape of a step, seen from one queue, one table or one goroutine.   *)

NetShape(q) ==
  \/ net'[q] = net[q] \/ net'[q] = << >>
  \/ \E e \in Packet : e.kind # "call" /\ net'[q] = Append(net[q], e)
  \/ \E c \in Calls :
       /\ startWrite(c) /\ cpc'[c] = "open" /\ q = HandlerOf(c)
       /\ net'[q] = Append(net[q], First(c))
  \/ NextHeader(q) /\ net'[q] = Tail(net[q])

LEMMA WriteShape ==
  ASSUME ConnOK, NEW p \in Peers, NEW c \in Calls, NEW ok \in BOOLEAN, NEW kind,
         WritePacket(p, kind, c, ok), NEW q \in Peers
  PROVE  /\ ~ok => net' = net
         /\ net'[q] # net[q] => q = Other(p) /\ net'[q] = Append(net[q], [kind |-> kind, call |-> c])
<1> DEFINE pkt == [kind |-> kind, call |-> c]
<1>1. ~ok => net' = net
  BY Zenon DEF WritePacket
<1>2. ok => net' = [net EXCEPT ![Other(p)] = Append(net[Other(p)], pkt)]
  BY Zenon DEF WritePacket
<1>3. net \in [Peers -> Seq(Packet)]
  BY DEF ConnOK
<1> HIDE DEF pkt
<1>4. net'[q] # net[q] => q = Other(p) /\ net'[q] = Append(net[q], pkt)
  BY <1>1, <1>2, <1>3
<1> QED
  BY <1>1, <1>4 DEF pkt

LEMMA WriteNotFirst ==
  ASSUME ConnOK, NEW p \in Peers, NEW c \in Calls, NEW ok \in BOOLEAN,
         NEW kind \in {"data", "ok", "err"}, WritePacket(p, kind, c, ok), NEW q \in Peers
  PROVE  NetShape(q)
<1> DEFINE e == [kind |-> kind, call |-> c]
<1>1. e \in Packet /\ e.kind # "call"
  BY DEF Packet
<1>2. net'[q] # net[q] => net'[q] = Append(net[q], e)
  BY WriteShape, Zenon
<1> HIDE DEF e
<1> QED
  BY <1>1, <1>2 DEF NetShape

LEMMA CloseShape ==
  ASSUME ConnOK, NEW p \in Peers, NEW c \in Calls, NEW err, sinkCloseWithError(p, c, err),
         NEW q \in Peers
  PROVE  NetShape(q)
<1>1. CASE sinkClosed[p][c]
  BY <1>1 DEF sinkCloseWithError, NetShape
<1>2. CASE ~sinkClosed[p][c]
  <2>1. PICK ok \in BOOLEAN : WritePacket(p, IF err = "nil" THEN "ok" ELSE "err", c, ok)
    BY <1>2 DEF sinkCloseWithError
  <2> QED
    BY <2>1, WriteNotFirst
<1> QED
  BY <1>1, <1>2

LEMMA SinkShape ==
  ASSUME ConnOK, NEW p \in Peers, NEW c \in Calls, sinkWrite(p, c), NEW q \in Peers
  PROVE  NetShape(q)
<1>1. CASE UNCHANGED net
  BY <1>1 DEF NetShape
<1>2. CASE \E ok \in BOOLEAN : WritePacket(p, "data", c, ok)
  BY <1>2, WriteNotFirst
<1> QED
  BY <1>1, <1>2 DEF sinkWrite

LEMMA NetStep ==
  ASSUME TypeInv, Next, NEW q \in Peers
  PROVE  NetShape(q)
<1>0. ConnOK /\ CurInv /\ AppsOK
  BY DEF TypeInv, TypeOK
<1>1. CASE UNCHANGED net
  BY <1>1 DEF NetShape
<1>2. ASSUME NEW p \in Peers, ServeStep(p) PROVE NetShape(q)
  <2>1. CASE NextHeader(p)
    BY <1>0, <2>1 DEF NextHeader, NetShape, ConnOK
  <2>2. CASE closeStreamSink(p)
    <3>1. cur[p].call \in Calls
      BY <1>0, <2>2 DEF CurInv, closeStreamSink, InWork, Packet
    <3> QED
      BY <1>0, <2>2, <3>1, CloseShape DEF closeStreamSink
  <2>3. ASSUME NEW c \in Calls, noSuchMethod(p, c) PROVE NetShape(q)
    BY <1>0, <2>3, WriteNotFirst DEF noSuchMethod
  <2>4. CASE consume(p)
    BY <1>0, <2>4 DEF consume, NetShape, ConnOK
  <2>5. CASE \/ NextHeaderGarbage(p) \/ ServeGarbage(p) \/ NextHeaderEOF(p) \/ NextHeaderFails(p)
             \/ serveEnd(p) \/ serveEndBody(p) \/ closeStreamCancel(p) \/ closeStream(p)
             \/ maybeDiscardPacket(p) \/ fetchRequest(p) \/ parseNewRequestFails(p)
             \/ \E c \in Calls : acceptRequest(p, c)
    BY <1>1, <2>5 DEF NextHeaderGarbage, ServeGarbage, NextHeaderEOF, NextHeaderFails, serveEnd,
       serveEndBody, closeStreamCancel, closeStream, maybeDiscardPacket, fetchRequest,
       parseNewRequestFails, acceptRequest, netVars
  <2> QED
    BY <1>2, <2>1, <2>2, <2>3, <2>4, <2>5 DEF ServeStep
<1>3. ASSUME NEW p \in Peers, NEW w \in Terminating,
             Terminate(p, w) \/ TerminateStep(p, w) \/ Crash(p)
      PROVE  NetShape(q)
  <2>1. ASSUME NEW c \in Calls, TerminateSweep(p, w, c) PROVE NetShape(q)
    BY <1>0, <2>1, CloseShape DEF TerminateSweep
  <2> QED
    BY <1>1, <1>3, <2>1 DEF Terminate, TerminateStep, TerminateLock, TerminateClose, Crash, netVars
<1>4. ASSUME NEW c \in Calls, CallerStep(c) PROVE NetShape(q)
  <2>1. CallerOf[c] \in Peers
    BY Ends
  <2>2. CASE startWrite(c)
    <3>1. PICK ok \in BOOLEAN :
            /\ WritePacket(CallerOf[c], "call", c, ok)
            /\ cpc' = [cpc EXCEPT ![c] = IF ok THEN "open" ELSE "failed"]
      BY <2>2 DEF startWrite
    <3>2. ok => cpc'[c] = "open"
      BY <1>0, <3>1 DEF AppsOK
    <3>3. /\ ~ok => net' = net
          /\ net'[q] # net[q] => q = HandlerOf(c) /\ net'[q] = Append(net[q], First(c))
      BY <1>0, <2>1, <3>1, WriteShape, Zenon DEF HandlerOf, First
    <3> QED
      BY <2>2, <3>2, <3>3 DEF NetShape
  <2>3. CASE callerWrite(c)
    BY <1>0, <2>1, <2>3, SinkShape DEF callerWrite
  <2>4. CASE callerClose(c)
    BY <1>0, <2>1, <2>4, CloseShape DEF callerClose
  <2>5. CASE start(c) \/ Async(c) \/ callerCancel(c) \/ callerCtx(c) \/ NextCtxDone(CallerOf[c], c)
    BY <1>1, <2>5 DEF start, Async, callerCancel, callerCtx, NextCtxDone, netVars
  <2> QED
    BY <1>4, <2>2, <2>3, <2>4, <2>5 DEF CallerStep
<1>5. ASSUME NEW c \in Calls, HandlerStep(c) PROVE NetShape(q)
  <2>1. HandlerOf(c) \in Peers
    BY Ends
  <2>2. CASE handlerWrite(c) \/ Return(c)
    BY <1>0, <2>1, <2>2, SinkShape DEF handlerWrite, Return
  <2>3. CASE handlerClose(c) \/ CloseWithErrorSink(c)
    BY <1>0, <2>1, <2>3, CloseShape DEF handlerClose, CloseWithErrorSink
  <2>4. CASE CloseWithError(c) \/ CloseWithErrorForget(c) \/ NextCtxDone(HandlerOf(c), c)
    BY <1>1, <2>4 DEF CloseWithError, CloseWithErrorForget, NextCtxDone, netVars
  <2> QED
    BY <1>5, <2>2, <2>3, <2>4 DEF HandlerStep, HandlerCloses
<1>6. "user" \in Terminating
  BY DEF Terminating
<1> QED
  BY <1>2, <1>3, <1>4, <1>5, <1>6 DEF Next

-------------------------------------------------------------------------------
LEMMA TwoEnds ==
  ASSUME NEW p \in Peers, NEW c \in Calls, p # CallerOf[c]
  PROVE  p = HandlerOf(c)
<1>1. CallerOf[c] \in Peers
  BY Ends
<1>2. PICK a \in Peers, b \in Peers : a # b /\ Peers = {a, b}
  BY SessionAssumption
<1> QED
  BY <1>1, <1>2 DEF HandlerOf, Other

(* Whether c is in a table of p changes in a few places only.              *)
Kept(p, c) ==
  (c \in reqs'[p] <=> c \in reqs[p]) /\ (c \in reqsClosed'[p] <=> c \in reqsClosed[p])

TableShape(p, c) ==
  \/ Kept(p, c)
  \/ start(c) /\ p = CallerOf[c] /\ cpc'[c] # "new" /\ reqsClosed' = reqsClosed
  \/ acceptRequest(p, c) /\ reqsClosed' = reqsClosed
  \/ noSuchMethod(p, c) /\ reqs' = reqs
  \/ c \notin reqs'[p] /\ (c \in reqs[p] \/ Works(p, c) \/ (p = HandlerOf(c) /\ hpc[c] # "none"))

LEMMA TableStep ==
  ASSUME TypeInv, Next, NEW p \in Peers, NEW c \in Calls
  PROVE  TableShape(p, c)
<1>0. TablesOK /\ AppsOK
  BY DEF TypeInv, TypeOK
<1>1. CASE UNCHANGED tableVars
  BY <1>1 DEF TableShape, Kept, tableVars
<1>2. ASSUME NEW q \in Peers, ServeStep(q) PROVE TableShape(p, c)
  <2>1. CASE closeStream(q)
    BY <1>0, <2>1 DEF closeStream, closeStreamForget, TablesOK, TableShape, Kept, Works
  <2>2. ASSUME NEW d \in Calls, noSuchMethod(q, d) PROVE TableShape(p, c)
    <3>1. reqs' = reqs /\ (reqsClosed' = reqsClosed \/ reqsClosed' = [reqsClosed EXCEPT ![q] = @ \cup {d}])
      BY <2>2 DEF noSuchMethod
    <3> QED
      BY <1>0, <2>2, <3>1 DEF TablesOK, TableShape, Kept
  <2>3. ASSUME NEW d \in Calls, acceptRequest(q, d) PROVE TableShape(p, c)
    <3>1. reqsClosed' = reqsClosed /\ reqs' = [reqs EXCEPT ![q] = @ \cup {d}]
      BY <2>3 DEF acceptRequest
    <3> QED
      BY <1>0, <2>3, <3>1 DEF TablesOK, TableShape, Kept
  <2>4. CASE \/ NextHeader(q) \/ NextHeaderGarbage(q) \/ ServeGarbage(q) \/ NextHeaderEOF(q)
             \/ NextHeaderFails(q) \/ serveEnd(q) \/ serveEndBody(q) \/ closeStreamCancel(q)
             \/ closeStreamSink(q) \/ maybeDiscardPacket(q) \/ fetchRequest(q)
             \/ parseNewRequestFails(q) \/ consume(q)
    BY <1>1, <2>4 DEF NextHeader, NextHeaderGarbage, ServeGarbage, NextHeaderEOF, NextHeaderFails,
       serveEnd, serveEndBody, closeStreamCancel, closeStreamSink, maybeDiscardPacket, fetchRequest,
       parseNewRequestFails, consume
  <2> QED
    BY <1>2, <2>1, <2>2, <2>3, <2>4 DEF ServeStep
<1>3. ASSUME NEW q \in Peers, NEW w \in Terminating, Terminate(q, w) \/ TerminateStep(q, w) \/ Crash(q)
      PROVE  TableShape(p, c)
  <2>1. ASSUME NEW d \in Calls, TerminateSweep(q, w, d) PROVE TableShape(p, c)
    BY <1>0, <2>1 DEF TerminateSweep, TablesOK, TableShape, Kept
  <2> QED
    BY <1>1, <1>3, <2>1 DEF Terminate, TerminateStep, TerminateLock, TerminateClose, Crash
<1>4. ASSUME NEW d \in Calls, CallerStep(d) PROVE TableShape(p, c)
  <2>1. CASE start(d)
    <3>1. /\ reqsClosed' = reqsClosed /\ reqs' = [reqs EXCEPT ![CallerOf[d]] = @ \cup {d}]
          /\ cpc'[d] # "new"
      BY <1>0, <2>1 DEF start, AppsOK
    <3> QED
      BY <1>0, <2>1, <3>1 DEF TablesOK, TableShape, Kept
  <2> QED
    BY <1>1, <1>4, <2>1 DEF CallerStep, startWrite, Async, callerWrite, sinkWrite, callerClose,
       callerCancel, callerCtx, NextCtxDone
<1>5. ASSUME NEW d \in Calls, HandlerStep(d) PROVE TableShape(p, c)
  <2>1. CASE CloseWithErrorForget(d)
    BY <1>0, <2>1 DEF CloseWithErrorForget, closeStreamForget, TablesOK, TableShape, Kept
  <2> QED
    BY <1>1, <1>5, <2>1 DEF HandlerStep, HandlerCloses, handlerWrite, Return, sinkWrite, handlerClose,
       CloseWithError, CloseWithErrorSink, NextCtxDone
<1>6. "user" \in Terminating
  BY DEF Terminating
<1> QED
  BY <1>2, <1>3, <1>4, <1>5, <1>6 DEF Next

LEMMA ServeLocal ==
  ASSUME ServeOK, NEW q \in Peers, ServeStep(q), NEW p \in Peers, p # q
  PROVE  spc'[p] = spc[p] /\ cur'[p] = cur[p]
<1>1. CASE \/ NextHeader(q) \/ NextHeaderGarbage(q) \/ ServeGarbage(q) \/ NextHeaderEOF(q)
           \/ NextHeaderFails(q) \/ serveEnd(q) \/ serveEndBody(q)
  BY <1>1 DEF NextHeader, NextHeaderGarbage, ServeGarbage, NextHeaderEOF, NextHeaderFails, serveEnd,
     serveEndBody, ServeExit, ServeGoto, ServeContinue, ServeOK
<1>2. CASE \/ closeStreamCancel(q) \/ closeStreamSink(q) \/ closeStream(q) \/ maybeDiscardPacket(q)
           \/ fetchRequest(q) \/ parseNewRequestFails(q) \/ consume(q)
  BY <1>2 DEF closeStreamCancel, closeStreamSink, closeStream, maybeDiscardPacket, fetchRequest,
     parseNewRequestFails, consume, ServeExit, ServeGoto, ServeContinue, ServeOK
<1>3. ASSUME NEW d \in Calls, noSuchMethod(q, d) \/ acceptRequest(q, d)
      PROVE  spc'[p] = spc[p] /\ cur'[p] = cur[p]
  BY <1>3 DEF noSuchMethod, acceptRequest, ServeExit, ServeContinue, ServeOK
<1> QED
  BY <1>1, <1>2, <1>3 DEF ServeStep

(* The loop starts to work on a call it finds in its table, and takes the  *)
(* first packet of a call from the connection.                             *)
LoopShape(p, c) ==
  /\ Works(p, c)' => Works(p, c) \/ c \in reqs[p]
  /\ spc'[p] \in {"data", "fetch", "parse"} /\ cur'[p] = First(c) =>
       \/ spc[p] \in {"data", "fetch", "parse"} /\ cur[p] = First(c)
       \/ NextHeader(p) /\ Head(net[p]) = First(c)

LEMMA LoopStep ==
  ASSUME TypeInv, Next, NEW p \in Peers, NEW c \in Calls
  PROVE  LoopShape(p, c)
<1>0. ServeOK
  BY DEF TypeInv, TypeOK
<1>1. CASE UNCHANGED serveVars
  BY <1>1 DEF LoopShape, Works, serveVars
<1>2. ASSUME NEW q \in Peers, ServeStep(q) PROVE LoopShape(p, c)
  <2>1. CASE p # q
    <3>1. spc'[p] = spc[p] /\ cur'[p] = cur[p]
      BY <1>0, <1>2, <2>1, ServeLocal
    <3> QED
      BY <3>1 DEF LoopShape, Works
  <2>2. CASE p = q
    <3>1. CASE NextHeader(p)
      BY <1>0, <3>1 DEF NextHeader, ServeOK, LoopShape, Works
    <3>2. CASE NextHeaderGarbage(p) \/ ServeGarbage(p) \/ NextHeaderEOF(p) \/ NextHeaderFails(p)
      BY <1>0, <3>2 DEF NextHeaderGarbage, ServeGarbage, NextHeaderEOF, NextHeaderFails, ServeExit,
         ServeGoto, ServeOK, LoopShape, Works
    <3>3. CASE serveEnd(p) \/ serveEndBody(p)
      BY <1>0, <3>3 DEF serveEnd, serveEndBody, ServeExit, ServeGoto, ServeContinue, ServeOK,
         LoopShape, Works
    <3>4. CASE closeStreamCancel(p) \/ closeStreamSink(p) \/ closeStream(p)
      BY <1>0, <3>4 DEF closeStreamCancel, closeStreamSink, closeStream, ServeGoto, ServeOK,
         LoopShape, Works
    <3>5. CASE maybeDiscardPacket(p) \/ fetchRequest(p)
      BY <1>0, <3>5 DEF maybeDiscardPacket, fetchRequest, ServeExit, ServeGoto, ServeContinue, ServeOK,
         LoopShape, Works
    <3>6. CASE parseNewRequestFails(p) \/ \E d \in Calls : noSuchMethod(p, d) \/ acceptRequest(p, d)
      BY <1>0, <3>6 DEF parseNewRequestFails, noSuchMethod, acceptRequest, ServeExit, ServeContinue,
         ServeOK, LoopShape, Works
    <3>7. CASE consume(p)
      BY <1>0, <3>7 DEF consume, ServeContinue, ServeOK, LoopShape, Works
    <3> QED
      BY <1>2, <2>2, <3>1, <3>2, <3>3, <3>4, <3>5, <3>6, <3>7 DEF ServeStep
  <2> QED
    BY <2>1, <2>2
<1>3. ASSUME NEW q \in Peers, Crash(q) PROVE LoopShape(p, c)
  BY <1>0, <1>3 DEF Crash, ServeOK, LoopShape, Works
<1>4. RestOK
  BY DEF TypeInv, TypeOK, RestOK
<1>5. ASSUME NEW q \in Peers, NEW w \in Terminating, Terminate(q, w) \/ TerminateStep(q, w)
      PROVE  LoopShape(p, c)
  BY <1>1, <1>4, <1>5, TerminateRest
<1>6. ASSUME NEW d \in Calls, CallerStep(d) \/ HandlerStep(d) PROVE LoopShape(p, c)
  BY <1>1, <1>4, <1>6, CallerRest, HandlerRest
<1> QED
  BY <1>2, <1>3, <1>5, <1>6 DEF Next

(* A call is sent once and a handler starts once.                          *)
AppShape(c) ==
  /\ cpc'[c] = "new" => cpc[c] = "new"
  /\ Unsent(c)' => Unsent(c)
  /\ startWrite(c) /\ cpc'[c] = "open" => Unsent(c) /\ ~Unsent(c)'
  /\ hpc'[c] = "none" => hpc[c] = "none"
  /\ hpc'[c] # "none" => hpc[c] # "none" \/ acceptRequest(HandlerOf(c), c)

LEMMA AppStep ==
  ASSUME TypeInv, Next, NEW c \in Calls
  PROVE  AppShape(c)
<1>0. AppsOK
  BY DEF TypeInv, TypeOK
<1> SUFFICES /\ cpc'[c] = "new" => cpc[c] = "new"
             /\ Unsent(c)' => Unsent(c)
             /\ hpc'[c] = "none" => hpc[c] = "none"
             /\ hpc'[c] # "none" => hpc[c] # "none" \/ acceptRequest(HandlerOf(c), c)
  BY DEF AppShape, startWrite, Unsent
<1>1. CASE UNCHANGED appVars
  BY <1>1 DEF Unsent, appVars
<1>2. ASSUME NEW q \in Peers, ServeStep(q), ~UNCHANGED appVars
      PROVE  \E d \in Calls : acceptRequest(q, d)
  BY <1>2 DEF ServeStep, NextHeader, NextHeaderGarbage, ServeGarbage, NextHeaderEOF, NextHeaderFails,
     serveEnd, serveEndBody, closeStreamCancel, closeStreamSink, closeStream, maybeDiscardPacket,
     fetchRequest, parseNewRequestFails, consume, noSuchMethod
<1>3. ASSUME NEW q \in Peers, NEW d \in Calls, acceptRequest(q, d)
      PROVE  /\ cpc'[c] = cpc[c]
             /\ hpc'[c] = "none" => hpc[c] = "none"
             /\ hpc'[c] # "none" => hpc[c] # "none" \/ acceptRequest(HandlerOf(c), c)
  <2>1. cpc' = cpc /\ hpc' = [hpc EXCEPT ![d] = "run"] /\ q # CallerOf[d]
    BY <1>3 DEF acceptRequest, NewRequest
  <2>2. q = HandlerOf(d)
    BY <2>1, TwoEnds
  <2> QED
    BY <1>0, <1>3, <2>1, <2>2 DEF AppsOK
<1>4. ASSUME NEW d \in Calls, CallerStep(d)
      PROVE  /\ cpc'[c] = "new" => cpc[c] = "new"
             /\ Unsent(c)' => Unsent(c)
             /\ hpc' = hpc
  BY <1>0, <1>4 DEF CallerStep, start, startWrite, Async, callerWrite, callerClose, callerCancel,
     callerCtx, NextCtxDone, appVars, AppsOK, Unsent
<1>5. ASSUME NEW d \in Calls, HandlerStep(d)
      PROVE  cpc' = cpc /\ (hpc'[c] = "none" <=> hpc[c] = "none")
  BY <1>0, <1>5 DEF HandlerStep, HandlerCloses, handlerWrite, Return, handlerClose, CloseWithError,
     CloseWithErrorSink, CloseWithErrorForget, NextCtxDone, appVars, AppsOK
<1>6. ASSUME NEW q \in Peers, NEW w \in Terminating, Terminate(q, w) \/ TerminateStep(q, w) \/ Crash(q)
      PROVE  UNCHANGED appVars
  BY <1>6 DEF Terminate, TerminateStep, TerminateLock, TerminateClose, TerminateSweep, Crash
<1>7. "user" \in Terminating
  BY DEF Terminating
<1>8. CASE \E q \in Peers : ServeStep(q)
  BY <1>1, <1>2, <1>3, <1>8 DEF Unsent
<1>9. CASE \E d \in Calls : CallerStep(d) \/ HandlerStep(d)
  BY <1>4, <1>5, <1>9 DEF Unsent
<1> QED
  BY <1>1, <1>6, <1>7, <1>8, <1>9 DEF Next

-------------------------------------------------------------------------------
(* The invariant: a call is registered from fresh, and fresh never again.  *)

LEMMA Sent ==
  ASSUME TypeInv, FirstInv, Next, NEW c \in Calls
  PROVE  /\ Once(net[HandlerOf(c)], First(c))'
         /\ InNet(c)' => InNet(c) \/ (Unsent(c) /\ ~Unsent(c)')
         /\ InHand(c)' => InHand(c) \/ (InNet(c) /\ ~InNet(c)')
         /\ NextHeader(HandlerOf(c)) /\ Head(net[HandlerOf(c)]) = First(c) => InNet(c) /\ ~InNet(c)'
<1> DEFINE q == HandlerOf(c)  x == First(c)
<1>0. q \in Peers /\ net[q] \in Seq(Packet) /\ Once(net[q], x) /\ (Unsent(c) => ~At(net[q], x))
  BY Ends DEF TypeInv, TypeOK, ConnOK, FirstInv, InNet
<1>1. /\ Once(net'[q], x)
      /\ At(net'[q], x) => At(net[q], x) \/ (Unsent(c) /\ ~Unsent(c)')
  <2>0. NetShape(q)
    BY <1>0, NetStep
  <2>1. CASE net'[q] = net[q]
    BY <1>0, <2>1
  <2>2. CASE net'[q] = << >>
    BY <2>2 DEF At, Once
  <2>3. ASSUME NEW e \in Packet, e.kind # "call", net'[q] = Append(net[q], e)
        PROVE  Once(net'[q], x) /\ (At(net'[q], x) => At(net[q], x))
    <3>1. e # x
      BY <2>3 DEF First
    <3> QED
      BY <1>0, <2>3, <3>1, AtAppend
  <2>4. ASSUME NEW d \in Calls, startWrite(d), cpc'[d] = "open", net'[q] = Append(net[q], First(d))
        PROVE  /\ Once(net'[q], x)
               /\ At(net'[q], x) => At(net[q], x) \/ (Unsent(c) /\ ~Unsent(c)')
    <3>1. First(d) \in Packet
      BY DEF First, Packet
    <3>2. CASE d = c
      <4>1. Unsent(c) /\ ~Unsent(c)'
        BY <2>4, <3>2, AppStep DEF AppShape
      <4> QED
        BY <1>0, <2>4, <3>1, <4>1, AtAppend
    <3>3. CASE d # c
      <4>1. First(d) # x
        BY <3>3 DEF First
      <4> QED
        BY <1>0, <2>4, <3>1, <4>1, AtAppend
    <3> QED
      BY <3>2, <3>3
  <2>5. CASE NextHeader(q) /\ net'[q] = Tail(net[q])
    <3>1. net[q] # << >>
      BY <2>5 DEF NextHeader
    <3> QED
      BY <1>0, <2>5, <3>1, AtTail
  <2> QED
    BY <2>0, <2>1, <2>2, <2>3, <2>4, <2>5 DEF NetShape
<1>2. ASSUME NextHeader(q), Head(net[q]) = x
      PROVE  At(net[q], x) /\ ~At(net'[q], x)
  <2>1. net[q] # << >> /\ net'[q] = Tail(net[q])
    BY <1>0, <1>2 DEF NextHeader, TypeInv, TypeOK, ConnOK
  <2> QED
    BY <1>0, <1>2, <2>1, AtTail
<1>3. InHand(c)' => InHand(c) \/ (NextHeader(q) /\ Head(net[q]) = x)
  BY <1>0, LoopStep DEF LoopShape, InHand, HandlerOf, First
<1> QED
  BY <1>1, <1>2, <1>3 DEF InNet, HandlerOf, First

LEMMA FirstStep ==
  ASSUME TypeInv, FirstInv, Next
  PROVE  FirstInv'
<1> SUFFICES ASSUME NEW c \in Calls
             PROVE  /\ Unsent(c)' => ~InNet(c)' /\ ~InHand(c)'
                    /\ InHand(c)' => ~InNet(c)'
                    /\ Once(net[HandlerOf(c)], First(c))'
  BY DEF FirstInv
<1>1. Unsent(c)' => Unsent(c)
  BY AppStep DEF AppShape
<1>2. (Unsent(c) => ~InNet(c) /\ ~InHand(c)) /\ (InHand(c) => ~InNet(c))
  BY DEF FirstInv
<1> QED
  BY <1>1, <1>2, Sent

LEMMA FreshStep ==
  ASSUME TypeInv, FirstInv, Next, NEW p \in Peers, NEW c \in Calls, Fresh(p, c)'
  PROVE  Fresh(p, c)
<1>1. AppShape(c)
  BY AppStep
<1>2. CASE p = CallerOf[c]
  BY <1>1, <1>2 DEF Fresh, AppShape
<1>3. CASE p # CallerOf[c]
  BY <1>1, <1>3, Sent DEF Fresh, AppShape
<1> QED
  BY <1>2, <1>3

(* A receiver that answers the first packet of a call had not done so      *)
(* before, and will not do so again.                                       *)
LEMMA ReceiveStep ==
  ASSUME TypeInv, FirstInv, Next, NEW p \in Peers, NEW c \in Calls,
         noSuchMethod(p, c) \/ acceptRequest(p, c)
  PROVE  p # CallerOf[c] /\ Fresh(p, c) /\ ~Fresh(p, c)'
<1>1. p # CallerOf[c] /\ spc[p] = "parse" /\ cur[p] = First(c)
  BY DEF noSuchMethod, acceptRequest, NewRequest, First
<1>2. p = HandlerOf(c)
  BY <1>1, TwoEnds
<1>3. InHand(c)
  BY <1>1, <1>2 DEF InHand
<1>4. ~Unsent(c) /\ ~InNet(c)
  BY <1>3 DEF FirstInv
<1>5. ~InHand(c)'
  <2>1. spc'[p] \in {"read", "exit"}
    BY DEF noSuchMethod, acceptRequest, ServeContinue, ServeExit, TypeInv, TypeOK, ServeOK
  <2> QED
    BY <1>2, <2>1 DEF InHand, HandlerOf
<1>6. ~Unsent(c)'
  BY <1>4, AppStep DEF AppShape
<1>7. ~InNet(c)'
  BY <1>4, Sent
<1> QED
  BY <1>1, <1>3, <1>5, <1>6, <1>7 DEF Fresh

LEMMA TablesStep ==
  ASSUME TypeInv, TablesInv, Next
  PROVE  TablesInv'
<1>0. FirstInv /\ FreshInv /\ RunsInv /\ ClosedStaysClosed
  BY DEF TablesInv
<1>1. FirstInv'
  BY <1>0, FirstStep
<1>2. ASSUME NEW p \in Peers, NEW c \in Calls, Fresh(p, c)'
      PROVE  Fresh(p, c) /\ c \notin reqs[p] \cup reqsClosed[p] /\ ~Works(p, c)
  BY <1>0, <1>2, FreshStep DEF FreshInv
<1>3. ASSUME NEW p \in Peers, NEW c \in Calls, p = HandlerOf(c), hpc[c] # "none"
      PROVE  ~Fresh(p, c)
  BY <1>0, <1>3 DEF RunsInv
<1>4. ASSUME NEW p \in Peers, NEW c \in Calls
      PROVE  /\ ~(c \in reqs'[p] /\ c \in reqsClosed'[p])
             /\ Fresh(p, c)' => c \notin reqs'[p] \cup reqsClosed'[p]
  <2>0. ~(c \in reqs[p] /\ c \in reqsClosed[p])
    BY <1>0 DEF ClosedStaysClosed
  <2>1. CASE Kept(p, c)
    BY <1>2, <2>0, <2>1 DEF Kept
  <2>2. CASE start(c) /\ p = CallerOf[c] /\ cpc'[c] # "new" /\ reqsClosed' = reqsClosed
    <3>1. Fresh(p, c) /\ ~Fresh(p, c)'
      BY <2>2 DEF start, Fresh
    <3> QED
      BY <1>0, <2>2, <3>1 DEF FreshInv
  <2>3. CASE acceptRequest(p, c) /\ reqsClosed' = reqsClosed
    BY <1>0, <2>3, ReceiveStep DEF FreshInv
  <2>4. CASE noSuchMethod(p, c) /\ reqs' = reqs
    BY <1>0, <2>4, ReceiveStep DEF FreshInv
  <2>5. CASE c \notin reqs'[p] /\ (c \in reqs[p] \/ Works(p, c) \/ (p = HandlerOf(c) /\ hpc[c] # "none"))
    BY <1>2, <1>3, <2>5
  <2> QED
    BY <2>1, <2>2, <2>3, <2>4, <2>5, TableStep DEF TableShape
<1>5. FreshInv'
  <2>1. ASSUME NEW p \in Peers, NEW c \in Calls, Fresh(p, c)' PROVE ~Works(p, c)'
    BY <1>2, <2>1, LoopStep DEF LoopShape
  <2> QED
    BY <1>4, <2>1 DEF FreshInv
<1>6. RunsInv'
  <2>1. ASSUME NEW c \in Calls, hpc'[c] # "none" PROVE ~Fresh(HandlerOf(c), c)'
    <3>1. HandlerOf(c) \in Peers
      BY Ends
    <3>2. CASE hpc[c] # "none"
      BY <1>2, <1>3, <3>1, <3>2
    <3>3. CASE acceptRequest(HandlerOf(c), c)
      BY <1>0, <3>1, <3>3, ReceiveStep
    <3> QED
      BY <2>1, <3>2, <3>3, AppStep DEF AppShape
  <2> QED
    BY <2>1 DEF RunsInv, HandlerOf
<1>7. ClosedStaysClosed'
  <2>1. ASSUME NEW c \in Calls, hpc'[c] = "none" PROVE c \notin reqs'[HandlerOf(c)]
    <3> DEFINE p == HandlerOf(c)
    <3>1. p \in Peers /\ p # CallerOf[c]
      BY Ends
    <3>2. hpc[c] = "none" /\ c \notin reqs[p]
      BY <1>0, <2>1, AppStep DEF AppShape, ClosedStaysClosed
    <3>3. ~acceptRequest(p, c)
      BY <2>1 DEF acceptRequest, TypeInv, TypeOK, AppsOK
    <3> QED
      BY <3>1, <3>2, <3>3, TableStep DEF TableShape, Kept
  <2>2. reqs' \in [Peers -> SUBSET Calls]
    BY NextType DEF TypeInv, TypeOK, TablesOK
  <2> QED
    BY <1>4, <2>1, <2>2 DEF ClosedStaysClosed, HandlerOf
<1> QED
  BY <1>1, <1>5, <1>6, <1>7 DEF TablesInv

LEMMA TablesStutter ==
  ASSUME TypeInv, TablesInv, UNCHANGED vars
  PROVE  TablesInv'
<1>1. UNCHANGED <<net, spc, cur, reqs, reqsClosed, cpc, hpc>>
  BY DEF vars, netVars, serveVars, tableVars, appVars
<1>2. ASSUME NEW c \in Calls
      PROVE  /\ (Unsent(c)' <=> Unsent(c)) /\ (InNet(c)' <=> InNet(c)) /\ (InHand(c)' <=> InHand(c))
             /\ Once(net[HandlerOf(c)], First(c))' <=> Once(net[HandlerOf(c)], First(c))
  BY <1>1 DEF Unsent, InNet, InHand, At, Once, HandlerOf, First
<1>3. ASSUME NEW p \in Peers, NEW c \in Calls
      PROVE  (Fresh(p, c)' <=> Fresh(p, c)) /\ (Works(p, c)' <=> Works(p, c))
  BY <1>1, <1>2 DEF Fresh, Works
<1>4. FirstInv' /\ FreshInv'
  BY <1>1, <1>2, <1>3 DEF TablesInv, FirstInv, FreshInv
<1>5. RunsInv'
  <2>1. ASSUME NEW c \in Calls, hpc'[c] # "none" PROVE ~Fresh(HandlerOf(c), c)'
    BY <1>1, <1>3, <2>1, Ends DEF TablesInv, RunsInv
  <2> QED
    BY <2>1 DEF RunsInv, HandlerOf
<1>6. ClosedStaysClosed'
  BY <1>1 DEF TablesInv, ClosedStaysClosed, HandlerOf
<1> QED
  BY <1>4, <1>5, <1>6 DEF TablesInv

LEMMA InitTables == Init => TablesInv
<1> SUFFICES ASSUME Init PROVE TablesInv
  OBVIOUS
<1>1. ASSUME NEW c \in Calls
      PROVE  net[HandlerOf(c)] = << >> /\ spc[HandlerOf(c)] = "read" /\ hpc[c] = "none"
  BY Ends DEF Init
<1>2. FirstInv
  BY <1>1 DEF FirstInv, InNet, InHand, At, Once
<1>3. FreshInv
  BY DEF Init, FreshInv, Works
<1>4. RunsInv
  BY <1>1 DEF RunsInv
<1>5. ClosedStaysClosed
  BY Ends DEF Init, ClosedStaysClosed
<1> QED
  BY <1>2, <1>3, <1>4, <1>5 DEF TablesInv

(* A request is active or closed, never both, and only its handler's start *)
(* makes it active at the receiver: what closeStream or Terminate closed   *)
(* is never found again by the serve loop.                                 *)
THEOREM ClosedForGood == Spec => []ClosedStaysClosed
<1>1. TypeInv /\ TablesInv /\ [Next]_vars => TypeInv' /\ TablesInv'
  <2> SUFFICES ASSUME TypeInv, TablesInv, [Next]_vars PROVE TypeInv' /\ TablesInv'
    OBVIOUS
  <2> QED
    BY NextType, TablesStep, TablesStutter
<1>2. TypeInv /\ TablesInv => ClosedStaysClosed
  BY DEF TablesInv
<1> QED
  BY <1>1, <1>2, InitType, InitTables, PTL DEF Spec

-------------------------------------------------------------------------------
(* Callers of a closed connection: what has left the table has failed, and *)
(* the connection is closed with an empty table.                           *)

LeftInv ==
  \A c \in Calls :
    cpc[c] # "new" /\ c \notin reqs[CallerOf[c]] => failed[CallerOf[c]][c] # "nil"

CancelInv == \A p \in Peers : spc[p] \in {"sink", "forget"} => failed[p][cur[p].call] # "nil"

SweptInv ==
  \A c \in Calls :
    LET p == CallerOf[c] IN
    connClosed[p] /\ Alive(p) /\ cpc[c] = "open" => c \notin reqs[p]

StrandInv == LeftInv /\ CancelInv /\ SweptInv

LEMMA CancelFails ==
  ASSUME StreamsOK, NEW q \in Peers, NEW d \in Calls, NEW err, sourceCancel(q, d, err)
  PROVE  /\ failed'[q][d] # "nil"
         /\ \A p \in Peers, c \in Calls : failed[p][c] # "nil" => failed'[p][c] # "nil"
BY DEF StreamsOK, sourceCancel

(* A source that has failed stays so.                                      *)
LEMMA FailedStep ==
  ASSUME TypeInv, Next, NEW p \in Peers, NEW c \in Calls, failed[p][c] # "nil"
  PROVE  failed'[p][c] # "nil"
<1>0. StreamsOK /\ CurInv
  BY DEF TypeInv, TypeOK
<1>1. CASE UNCHANGED failed
  BY <1>1
<1>2. ASSUME NEW q \in Peers, NEW d \in Calls, NextCtxDone(q, d) PROVE failed'[p][c] # "nil"
  BY <1>0, <1>2 DEF NextCtxDone, StreamsOK
<1>3. ASSUME NEW q \in Peers, ServeStep(q) PROVE failed'[p][c] # "nil"
  <2>1. CASE closeStreamCancel(q)
    <3>1. cur[q].call \in Calls
      BY <1>0, <2>1 DEF CurInv, closeStreamCancel, InWork, Packet
    <3> QED
      BY <1>0, <2>1, <3>1, CancelFails DEF closeStreamCancel
  <2>2. CASE ~closeStreamCancel(q)
    BY <1>1, <1>3, <2>2 DEF ServeStep, NextHeader, NextHeaderGarbage, ServeGarbage, NextHeaderEOF,
       NextHeaderFails, serveEnd, serveEndBody, closeStreamSink, closeStream, maybeDiscardPacket,
       fetchRequest, parseNewRequestFails, consume, noSuchMethod, acceptRequest, streamVars
  <2> QED
    BY <2>1, <2>2
<1>4. ASSUME NEW q \in Peers, NEW w \in Terminating, Terminate(q, w) \/ TerminateStep(q, w) \/ Crash(q)
      PROVE  failed'[p][c] # "nil"
  <2>1. ASSUME NEW d \in Calls, TerminateSweep(q, w, d) PROVE failed'[p][c] # "nil"
    BY <1>0, <2>1, CancelFails DEF TerminateSweep
  <2> QED
    BY <1>1, <1>4, <2>1 DEF Terminate, TerminateStep, TerminateLock, TerminateClose, Crash, streamVars
<1>5. ASSUME NEW d \in Calls, CallerStep(d) PROVE failed'[p][c] # "nil"
  <2>1. CASE callerCancel(d)
    BY <1>0, <2>1, Ends, CancelFails DEF callerCancel
  <2> QED
    BY <1>1, <1>2, <1>5, <2>1, Ends DEF CallerStep, start, startWrite, Async, callerWrite, sinkWrite,
       callerClose, callerCtx, streamVars
<1>6. ASSUME NEW d \in Calls, HandlerStep(d) PROVE failed'[p][c] # "nil"
  <2>1. CASE CloseWithError(d)
    BY <1>0, <2>1, Ends, CancelFails DEF CloseWithError
  <2> QED
    BY <1>1, <1>2, <1>6, <2>1, Ends DEF HandlerStep, HandlerCloses, handlerWrite, Return, sinkWrite,
       handlerClose, CloseWithErrorSink, CloseWithErrorForget, streamVars
<1>7. "user" \in Terminating
  BY DEF Terminating
<1> QED
  BY <1>3, <1>4, <1>5, <1>6, <1>7 DEF Next

(* The caller's table loses a call only when its source has failed.        *)
LEMMA LeaveStep ==
  ASSUME TypeInv, CancelInv, Next, NEW c \in Calls,
         c \in reqs[CallerOf[c]], c \notin reqs'[CallerOf[c]]
  PROVE  failed'[CallerOf[c]][c] # "nil"
<1> DEFINE p == CallerOf[c]
<1>0. p \in Peers /\ TablesOK /\ StreamsOK /\ CurInv
  BY Ends DEF TypeInv, TypeOK
<1>1. ~UNCHANGED reqs
  OBVIOUS
<1>2. ASSUME NEW q \in Peers, ServeStep(q) PROVE failed'[p][c] # "nil"
  <2>1. CASE closeStream(q)
    <3>1. q = p /\ cur[q].call = c
      BY <1>0, <2>1 DEF closeStream, closeStreamForget, TablesOK
    <3> QED
      BY <1>0, <2>1, <3>1 DEF closeStream, CancelInv
  <2>2. ASSUME NEW d \in Calls, acceptRequest(q, d) PROVE FALSE
    <3>1. reqs' = [reqs EXCEPT ![q] = @ \cup {d}]
      BY <2>2 DEF acceptRequest
    <3> QED
      BY <1>0, <3>1 DEF TablesOK
  <2>3. ASSUME NEW d \in Calls, noSuchMethod(q, d) PROVE FALSE
    BY <1>1, <2>3 DEF noSuchMethod
  <2> QED
    BY <1>1, <1>2, <2>1, <2>2, <2>3 DEF ServeStep, NextHeader, NextHeaderGarbage, ServeGarbage,
       NextHeaderEOF, NextHeaderFails, serveEnd, serveEndBody, closeStreamCancel, closeStreamSink,
       maybeDiscardPacket, fetchRequest, parseNewRequestFails, consume, tableVars
<1>3. ASSUME NEW q \in Peers, NEW w \in Terminating, Terminate(q, w) \/ TerminateStep(q, w) \/ Crash(q)
      PROVE  failed'[p][c] # "nil"
  <2>1. ASSUME NEW d \in Calls, TerminateSweep(q, w, d) PROVE failed'[p][c] # "nil"
    <3>1. q = p /\ d = c
      BY <1>0, <2>1 DEF TerminateSweep, TablesOK
    <3> QED
      BY <1>0, <2>1, <3>1, CancelFails DEF TerminateSweep
  <2> QED
    BY <1>1, <1>3, <2>1 DEF Terminate, TerminateStep, TerminateLock, TerminateClose, Crash, tableVars
<1>4. ASSUME NEW d \in Calls, CallerStep(d) PROVE FALSE
  <2>1. CASE start(d)
    <3>1. reqs' = [reqs EXCEPT ![CallerOf[d]] = @ \cup {d}]
      BY <2>1 DEF start
    <3> QED
      BY <1>0, <3>1 DEF TablesOK
  <2> QED
    BY <1>1, <1>4, <2>1 DEF CallerStep, startWrite, Async, callerWrite, sinkWrite, callerClose,
       callerCancel, callerCtx, NextCtxDone, tableVars
<1>5. ASSUME NEW d \in Calls, HandlerStep(d) PROVE FALSE
  <2>1. CASE CloseWithErrorForget(d)
    <3>1. HandlerOf(d) = p /\ d = c
      BY <1>0, <2>1 DEF CloseWithErrorForget, closeStreamForget, TablesOK
    <3> QED
      BY <3>1, Ends
  <2> QED
    BY <1>1, <1>5, <2>1 DEF HandlerStep, HandlerCloses, handlerWrite, Return, sinkWrite, handlerClose,
       CloseWithError, CloseWithErrorSink, NextCtxDone, tableVars
<1>6. "user" \in Terminating
  BY DEF Terminating
<1> QED
  BY <1>2, <1>3, <1>4, <1>5, <1>6 DEF Next

(* An end is closed by a crash or by a Terminate that has swept the table. *)
LEMMA CloseStep ==
  ASSUME TypeInv, Next, NEW p \in Peers, connClosed'[p], ~connClosed[p], Alive(p)'
  PROVE  reqs[p] = {} /\ reqs' = reqs
<1>0. ConnOK /\ ServeOK
  BY DEF TypeInv, TypeOK
<1>1. ~UNCHANGED connClosed
  OBVIOUS
<1>2. ASSUME NEW q \in Peers, ServeStep(q) PROVE FALSE
  BY <1>1, <1>2 DEF ServeStep, NextHeader, NextHeaderGarbage, ServeGarbage, NextHeaderEOF,
     NextHeaderFails, serveEnd, serveEndBody, closeStreamCancel, closeStreamSink, closeStream,
     maybeDiscardPacket, fetchRequest, parseNewRequestFails, consume, noSuchMethod, acceptRequest, netVars
<1>3. ASSUME NEW q \in Peers, Crash(q) PROVE FALSE
  BY <1>0, <1>3 DEF Crash, ConnOK, ServeOK, Alive
<1>4. ASSUME NEW q \in Peers, NEW w \in Terminating, Terminate(q, w) \/ TerminateStep(q, w)
      PROVE  reqs[p] = {} /\ reqs' = reqs
  <2>1. CASE TerminateClose(q, w)
    BY <1>0, <2>1 DEF TerminateClose, ConnOK, tableVars
  <2> QED
    BY <1>1, <1>4, <2>1 DEF Terminate, TerminateStep, TerminateLock, TerminateSweep, netVars
<1>5. ASSUME NEW d \in Calls, CallerStep(d) \/ HandlerStep(d) PROVE FALSE
  BY <1>1, <1>5 DEF CallerStep, start, startWrite, Async, callerWrite, sinkWrite, callerClose,
     callerCancel, callerCtx, NextCtxDone, HandlerStep, HandlerCloses, handlerWrite, Return,
     handlerClose, CloseWithError, CloseWithErrorSink, CloseWithErrorForget, netVars
<1> QED
  BY <1>2, <1>3, <1>4, <1>5 DEF Next

(* A call opens when its first packet is taken by an open connection.      *)
LEMMA OpenStep ==
  ASSUME TypeInv, Next, NEW c \in Calls
  PROVE  /\ cpc'[c] = "open" /\ cpc[c] # "open" =>
              ~connClosed[CallerOf[c]] /\ connClosed' = connClosed
         /\ cpc'[c] # "new" /\ cpc[c] = "new" => c \in reqs'[CallerOf[c]]
<1>0. AppsOK /\ TablesOK
  BY DEF TypeInv, TypeOK
<1>1. CASE UNCHANGED cpc
  BY <1>1
<1>2. ASSUME NEW d \in Calls, startWrite(d)
      PROVE  /\ cpc'[c] = "open" /\ cpc[c] # "open" =>
                  ~connClosed[CallerOf[c]] /\ connClosed' = connClosed
             /\ cpc'[c] # "new" /\ cpc[c] = "new" => FALSE
  <2>1. PICK ok \in BOOLEAN :
          /\ WritePacket(CallerOf[d], "call", d, ok)
          /\ cpc' = [cpc EXCEPT ![d] = IF ok THEN "open" ELSE "failed"]
    BY <1>2 DEF startWrite
  <2>2. ok => ~connClosed[CallerOf[d]]
    BY <2>1, Zenon DEF WritePacket
  <2> QED
    BY <1>0, <1>2, <2>1, <2>2 DEF startWrite, AppsOK
<1>3. ASSUME NEW d \in Calls, CallerStep(d), ~startWrite(d)
      PROVE  /\ cpc'[c] = "open" => cpc[c] = "open"
             /\ cpc'[c] # "new" /\ cpc[c] = "new" => c \in reqs'[CallerOf[c]]
  <2>1. CASE start(d)
    BY <1>0, <2>1, Ends DEF start, AppsOK, TablesOK
  <2>2. CASE Async(d) \/ callerClose(d) \/ callerCancel(d)
    BY <1>0, <2>2 DEF Async, callerClose, callerCancel, AppsOK
  <2> QED
    BY <1>1, <1>3, <2>1, <2>2 DEF CallerStep, callerWrite, callerCtx, NextCtxDone, appVars
<1>4. ASSUME ~UNCHANGED cpc PROVE \E d \in Calls : CallerStep(d)
  <2>1. ASSUME NEW q \in Peers, ServeStep(q) PROVE FALSE
    BY <1>4, <2>1 DEF ServeStep, NextHeader, NextHeaderGarbage, ServeGarbage, NextHeaderEOF,
       NextHeaderFails, serveEnd, serveEndBody, closeStreamCancel, closeStreamSink, closeStream,
       maybeDiscardPacket, fetchRequest, parseNewRequestFails, consume, noSuchMethod, acceptRequest, appVars
  <2>2. ASSUME NEW q \in Peers, NEW w \in Terminating, Terminate(q, w) \/ TerminateStep(q, w) PROVE FALSE
    BY <1>4, <2>2 DEF Terminate, TerminateStep, TerminateLock, TerminateClose, TerminateSweep, appVars
  <2>3. ASSUME NEW q \in Peers, Crash(q) PROVE FALSE
    BY <1>4, <2>3 DEF Crash, appVars
  <2>4. ASSUME NEW d \in Calls, HandlerStep(d) PROVE FALSE
    BY <1>4, <2>4 DEF HandlerStep, HandlerCloses, handlerWrite, Return, handlerClose, CloseWithError,
       CloseWithErrorSink, CloseWithErrorForget, NextCtxDone, appVars
  <2> QED
    BY <2>1, <2>2, <2>3, <2>4 DEF Next
<1> QED
  BY <1>1, <1>2, <1>3, <1>4

(* The loop gets to close a sink by way of Cancel, and a dead loop stays.  *)
LEMMA CancelStep ==
  ASSUME TypeInv, Next, NEW p \in Peers
  PROVE  /\ Alive(p)' => Alive(p)
         /\ spc'[p] \in {"sink", "forget"} =>
              /\ cur'[p] = cur[p]
              /\ spc[p] \in {"sink", "forget"} \/ failed'[p][cur[p].call] # "nil"
<1>0. ServeOK /\ StreamsOK /\ CurInv
  BY DEF TypeInv, TypeOK
<1> DEFINE Goal == /\ Alive(p)' => Alive(p)
                   /\ spc'[p] \in {"sink", "forget"} =>
                        /\ cur'[p] = cur[p]
                        /\ spc[p] \in {"sink", "forget"} \/ failed'[p][cur[p].call] # "nil"
<1>1. CASE UNCHANGED serveVars
  BY <1>1 DEF Alive, serveVars
<1>2. ASSUME NEW q \in Peers, Alive(q), ServeStep(q) PROVE Goal
  <2>1. CASE p # q
    <3>1. spc'[p] = spc[p] /\ cur'[p] = cur[p]
      BY <1>0, <1>2, <2>1, ServeLocal
    <3> QED
      BY <3>1 DEF Alive
  <2>2. CASE p = q
    <3>1. CASE closeStreamCancel(p)
      <4>1. cur[p].call \in Calls
        BY <1>0, <3>1 DEF CurInv, closeStreamCancel, InWork, Packet
      <4>2. failed'[p][cur[p].call] # "nil" /\ cur' = cur
        BY <1>0, <3>1, <4>1, CancelFails DEF closeStreamCancel, ServeGoto
      <4> QED
        BY <1>2, <2>2, <4>2
    <3>2. CASE closeStreamSink(p)
      BY <1>2, <2>2, <3>2 DEF closeStreamSink, ServeGoto
    <3>3. CASE ~closeStreamCancel(p) /\ ~closeStreamSink(p)
      <4>1. spc'[p] \notin {"sink", "forget"}
        <5>1. CASE NextHeader(p) \/ NextHeaderGarbage(p) \/ ServeGarbage(p) \/ NextHeaderEOF(p) \/ NextHeaderFails(p)
          BY <1>0, <5>1 DEF NextHeader, NextHeaderGarbage, ServeGarbage, NextHeaderEOF,
             NextHeaderFails, ServeExit, ServeGoto, ServeOK
        <5>2. CASE serveEnd(p) \/ serveEndBody(p) \/ closeStream(p) \/ maybeDiscardPacket(p) \/ fetchRequest(p)
          BY <1>0, <5>2 DEF serveEnd, serveEndBody, closeStream, maybeDiscardPacket, fetchRequest,
             ServeExit, ServeGoto, ServeContinue, ServeOK
        <5>3. CASE parseNewRequestFails(p) \/ \E d \in Calls : noSuchMethod(p, d) \/ acceptRequest(p, d)
          BY <1>0, <5>3 DEF parseNewRequestFails, noSuchMethod, acceptRequest, ServeExit,
             ServeContinue, ServeOK
        <5>4. CASE consume(p)
          BY <1>0, <5>4 DEF consume, ServeContinue, ServeOK
        <5> QED
          BY <1>2, <2>2, <3>3, <5>1, <5>2, <5>3, <5>4 DEF ServeStep
      <4> QED
        BY <1>2, <2>2, <4>1
    <3> QED
      BY <3>1, <3>2, <3>3
  <2> QED
    BY <2>1, <2>2
<1>3. ASSUME NEW q \in Peers, Alive(q), Crash(q) PROVE Goal
  BY <1>0, <1>3 DEF Crash, ServeOK, Alive
<1>4. RestOK
  BY DEF TypeInv, TypeOK, RestOK
<1>5. ASSUME NEW q \in Peers, NEW w \in Terminating, Terminate(q, w) \/ TerminateStep(q, w) PROVE Goal
  BY <1>1, <1>4, <1>5, TerminateRest
<1>6. ASSUME NEW d \in Calls, CallerStep(d) \/ HandlerStep(d) PROVE Goal
  BY <1>1, <1>4, <1>6, CallerRest, HandlerRest
<1> QED
  BY <1>2, <1>3, <1>5, <1>6 DEF Next

LEMMA StrandStep ==
  ASSUME TypeInv, TablesInv, StrandInv, Next
  PROVE  StrandInv'
<1>0. LeftInv /\ CancelInv /\ SweptInv /\ TypeInv'
  BY NextType DEF StrandInv
<1>1. LeftInv'
  <2>1. ASSUME NEW c \in Calls, cpc'[c] # "new", c \notin reqs'[CallerOf[c]]
        PROVE  failed'[CallerOf[c]][c] # "nil"
    <3>1. cpc[c] # "new"
      BY <2>1, OpenStep
    <3>2. CASE c \in reqs[CallerOf[c]]
      BY <1>0, <2>1, <3>2, LeaveStep
    <3>3. CASE c \notin reqs[CallerOf[c]]
      BY <1>0, <3>1, <3>3, FailedStep, Ends DEF LeftInv
    <3> QED
      BY <3>2, <3>3
  <2> QED
    BY <2>1 DEF LeftInv
<1>2. CancelInv'
  <2>1. ASSUME NEW p \in Peers, spc'[p] \in {"sink", "forget"} PROVE failed'[p][cur'[p].call] # "nil"
    <3>1. /\ cur'[p] = cur[p]
          /\ spc[p] \in {"sink", "forget"} \/ failed'[p][cur[p].call] # "nil"
      BY <2>1, CancelStep
    <3>2. cur[p].call \in Calls
      BY <1>0, <2>1, <3>1 DEF TypeInv, CurInv, InWork, Packet
    <3> QED
      BY <1>0, <3>1, <3>2, FailedStep DEF CancelInv
  <2> QED
    BY <2>1 DEF CancelInv
<1>3. SweptInv'
  <2>1. ASSUME NEW c \in Calls, connClosed'[CallerOf[c]], Alive(CallerOf[c])', cpc'[c] = "open"
        PROVE  c \notin reqs'[CallerOf[c]]
    <3> DEFINE p == CallerOf[c]
    <3>0. p \in Peers
      BY Ends
    <3>1. CASE ~connClosed[p]
      BY <2>1, <3>0, <3>1, CloseStep
    <3>2. CASE connClosed[p]
      <4>1. cpc[c] = "open" /\ Alive(p)
        BY <2>1, <3>0, <3>2, OpenStep, CancelStep
      <4>2. c \notin reqs[p]
        BY <1>0, <3>2, <4>1 DEF SweptInv
      <4>3. ~start(c)
        BY <4>1 DEF start
      <4>4. ~acceptRequest(p, c) /\ ~noSuchMethod(p, c)
        BY DEF acceptRequest, noSuchMethod, NewRequest
      <4> QED
        BY <3>0, <4>2, <4>3, <4>4, TableStep DEF TableShape, Kept
    <3> QED
      BY <3>1, <3>2
  <2> QED
    BY <2>1 DEF SweptInv, Alive
<1> QED
  BY <1>1, <1>2, <1>3 DEF StrandInv

LEMMA InitStrand == Init => StrandInv
BY Ends DEF Init, StrandInv, LeftInv, CancelInv, SweptInv

LEMMA StrandStutter ==
  ASSUME StrandInv, UNCHANGED vars
  PROVE  StrandInv'
<1>1. UNCHANGED <<connClosed, spc, cur, reqs, failed, cpc>>
  BY DEF vars, netVars, serveVars, tableVars, streamVars, appVars
<1> QED
  BY <1>1 DEF StrandInv, LeftInv, CancelInv, SweptInv, Alive

(* A caller whose endpoint has closed the connection is not left waiting:  *)
(* a Terminate that races a start either sweeps the call or makes its      *)
(* first write fail.                                                       *)
THEOREM NobodyStranded == Spec => []NoStrandedCall
<1>1. TypeInv /\ TablesInv /\ StrandInv /\ [Next]_vars => TypeInv' /\ TablesInv' /\ StrandInv'
  <2> SUFFICES ASSUME TypeInv, TablesInv, StrandInv, [Next]_vars
               PROVE  TypeInv' /\ TablesInv' /\ StrandInv'
    OBVIOUS
  <2>1. CASE Next
    BY <2>1, NextType, TablesStep, StrandStep
  <2>2. CASE UNCHANGED vars
    BY <2>2, NextType, TablesStutter, StrandStutter
  <2> QED
    BY <2>1, <2>2
<1>2. StrandInv => NoStrandedCall
  BY DEF StrandInv, LeftInv, SweptInv, NoStrandedCall
<1> QED
  BY <1>1, <1>2, InitType, InitTables, InitStrand, PTL DEF Spec

-------------------------------------------------------------------------------
(*****************************************************************************)
(* A clean end of a source comes after all its data.                         *)
(*****************************************************************************)

(* The data of call c in a queue s that stands before the first end of c.  *)
Data(c) == [kind |-> "data", call |-> c]
EndsOf(c) == {[kind |-> "ok", call |-> c], [kind |-> "err", call |-> c]}

AnEnd(s, c) == \E i \in 1 .. Len(s) : s[i] \in EndsOf(c)
Before(s, c) == {i \in 1 .. Len(s) : s[i] = Data(c) /\ \A j \in 1 .. i - 1 : s[j] \notin EndsOf(c)}
Due(s, c) == Cardinality(Before(s, c))

-------------------------------------------------------------------------------
(* Counting the data of a call in a queue.                                 *)

LEMMA Apart ==
  ASSUME NEW c
  PROVE  Data(c) \notin EndsOf(c)
BY DEF Data, EndsOf

LEMMA DueType ==
  ASSUME NEW s \in Seq(Packet), NEW c
  PROVE  IsFiniteSet(Before(s, c)) /\ Due(s, c) \in Nat
<1>1. IsFiniteSet(1 .. Len(s))
  BY FS_Interval
<1>2. Before(s, c) \in SUBSET (1 .. Len(s))
  BY DEF Before
<1>3. IsFiniteSet(Before(s, c))
  BY <1>1, <1>2, FS_Subset
<1> QED
  BY <1>3, FS_CardinalityType DEF Due

(* A packet put at the end counts when it is data and no end stands before *)
(* it.                                                                     *)
LEMMA DueAppend ==
  ASSUME NEW s \in Seq(Packet), NEW e \in Packet, NEW c
  PROVE  /\ AnEnd(Append(s, e), c) <=> AnEnd(s, c) \/ e \in EndsOf(c)
         /\ Due(Append(s, e), c) =
              IF e = Data(c) /\ ~AnEnd(s, c) THEN Due(s, c) + 1 ELSE Due(s, c)
<1> DEFINE n == Len(s)  t == Append(s, e)
<1>1. n \in Nat /\ Len(t) = n + 1
  OBVIOUS
<1>2. t[n + 1] = e /\ \A i \in 1 .. n : t[i] = s[i]
  OBVIOUS
<1> HIDE DEF t, n
<1>3. 1 .. n + 1 = (1 .. n) \cup {n + 1}
  BY <1>1
<1>4. AnEnd(t, c) <=> AnEnd(s, c) \/ e \in EndsOf(c)
  BY <1>1, <1>2, <1>3 DEF AnEnd, n
<1>5. \A i \in 1 .. n : i \in Before(t, c) <=> i \in Before(s, c)
  <2> TAKE i \in 1 .. n
  <2>1. \A j \in 1 .. i - 1 : t[j] = s[j]
    BY <1>1, <1>2
  <2> QED
    BY <1>1, <1>2, <1>3, <2>1 DEF Before, n
<1>6. n + 1 \in Before(t, c) <=> e = Data(c) /\ ~AnEnd(s, c)
  <2>1. (n + 1) - 1 = n /\ n + 1 \in 1 .. n + 1
    BY <1>1
  <2> QED
    BY <1>1, <1>2, <2>1 DEF Before, AnEnd, n
<1>7. Before(s, c) \subseteq 1 .. n /\ Before(t, c) \subseteq (1 .. n) \cup {n + 1}
  BY <1>1, <1>3 DEF Before, n
<1>8. n + 1 \notin 1 .. n
  BY <1>1
<1>9. CASE e = Data(c) /\ ~AnEnd(s, c)
  <2>1. Before(t, c) = Before(s, c) \cup {n + 1}
    BY <1>5, <1>6, <1>7, <1>9
  <2>2. n + 1 \notin Before(s, c)
    BY <1>7, <1>8
  <2>3. Due(t, c) = Due(s, c) + 1
    BY <2>1, <2>2, DueType, FS_AddElement DEF Due
  <2> QED
    BY <1>4, <1>9, <2>3 DEF t
<1>10. CASE ~(e = Data(c) /\ ~AnEnd(s, c))
  <2>1. Before(t, c) = Before(s, c)
    BY <1>5, <1>6, <1>7, <1>8, <1>10
  <2> QED
    BY <1>4, <1>10, <2>1 DEF Due, t
<1> QED
  BY <1>9, <1>10

(* What leaves at the front no longer counts; nothing counts behind an end *)
(* at the front.                                                           *)
LEMMA DueTail ==
  ASSUME NEW s \in Seq(Packet), s # << >>, NEW c
  PROVE  /\ AnEnd(s, c) <=> Head(s) \in EndsOf(c) \/ AnEnd(Tail(s), c)
         /\ Head(s) \in EndsOf(c) => Due(s, c) = 0
         /\ Head(s) \notin EndsOf(c) =>
              Due(s, c) = IF Head(s) = Data(c) THEN Due(Tail(s), c) + 1 ELSE Due(Tail(s), c)
<1> DEFINE n == Len(s)  t == Tail(s)  B == Before(t, c)  C == {i + 1 : i \in B}
<1>1. n \in Nat /\ n > 0 /\ Len(t) = n - 1 /\ t \in Seq(Packet)
  OBVIOUS
<1>2. Head(s) = s[1] /\ \A i \in 1 .. n - 1 : t[i] = s[i + 1]
  OBVIOUS
<1> HIDE DEF t, n
<1>3. \A i \in 1 .. n : i = 1 \/ (i - 1 \in 1 .. n - 1 /\ (i - 1) + 1 = i)
  BY <1>1
<1>4. \A i \in 1 .. n - 1 : i + 1 \in 1 .. n /\ i + 1 # 1 /\ (i + 1) - 1 = i
  BY <1>1
<1>5. 1 \in 1 .. n
  BY <1>1
<1>6. AnEnd(s, c) <=> Head(s) \in EndsOf(c) \/ AnEnd(t, c)
  <2>1. ASSUME NEW i \in 1 .. n, s[i] \in EndsOf(c) PROVE Head(s) \in EndsOf(c) \/ AnEnd(t, c)
    <3>1. CASE i = 1
      BY <1>2, <2>1, <3>1
    <3>2. CASE i # 1
      BY <1>1, <1>2, <1>3, <2>1, <3>2 DEF AnEnd
    <3> QED
      BY <3>1, <3>2
  <2>2. ASSUME NEW i \in 1 .. n - 1, t[i] \in EndsOf(c) PROVE AnEnd(s, c)
    BY <1>2, <1>4, <2>2 DEF AnEnd, n
  <2> QED
    BY <1>1, <1>2, <1>5, <2>1, <2>2 DEF AnEnd, n
<1>7. ASSUME Head(s) \in EndsOf(c) PROVE Due(s, c) = 0
  <2>1. ASSUME NEW i \in Before(s, c) PROVE FALSE
    <3>1. i \in 1 .. n /\ s[i] = Data(c) /\ \A j \in 1 .. i - 1 : s[j] \notin EndsOf(c)
      BY <2>1 DEF Before, n
    <3>2. i # 1
      BY <1>2, <1>7, <3>1, Apart
    <3>3. 1 \in 1 .. i - 1
      BY <3>1, <3>2, <1>1
    <3> QED
      BY <1>2, <1>7, <3>1, <3>3
  <2>2. Before(s, c) = {}
    BY <2>1
  <2> QED
    BY <2>2, FS_EmptySet DEF Due
<1>8. ASSUME Head(s) \notin EndsOf(c)
      PROVE  Due(s, c) = IF Head(s) = Data(c) THEN Due(t, c) + 1 ELSE Due(t, c)
  <2>1. \A i \in 1 .. n - 1 : i + 1 \in Before(s, c) <=> i \in B
    <3> TAKE i \in 1 .. n - 1
    <3>1. ASSUME \A j \in 1 .. i : s[j] \notin EndsOf(c), NEW j \in 1 .. i - 1
          PROVE  t[j] \notin EndsOf(c)
      <4>1. j + 1 \in 1 .. i /\ j \in 1 .. n - 1
        BY <1>1
      <4> QED
        BY <1>2, <3>1, <4>1
    <3>2. ASSUME \A j \in 1 .. i - 1 : t[j] \notin EndsOf(c), NEW j \in 1 .. i
          PROVE  s[j] \notin EndsOf(c)
      <4>1. CASE j = 1
        BY <1>2, <1>8, <4>1
      <4>2. CASE j # 1
        <5>1. j - 1 \in 1 .. i - 1 /\ j - 1 \in 1 .. n - 1 /\ (j - 1) + 1 = j
          BY <1>1, <4>2
        <5> QED
          BY <1>2, <3>2, <5>1
      <4> QED
        BY <4>1, <4>2
    <3>3. t[i] = s[i + 1] /\ i + 1 \in 1 .. n /\ (i + 1) - 1 = i /\ i \in 1 .. Len(t)
      BY <1>1, <1>2, <1>4
    <3>4. i \in B <=> t[i] = Data(c) /\ \A j \in 1 .. i - 1 : t[j] \notin EndsOf(c)
      BY <3>3 DEF Before
    <3>5. i + 1 \in Before(s, c) <=> s[i + 1] = Data(c) /\ \A j \in 1 .. i : s[j] \notin EndsOf(c)
      BY <3>3 DEF Before, n
    <3> QED
      BY <3>1, <3>2, <3>3, <3>4, <3>5
  <2>2. 1 \in Before(s, c) <=> Head(s) = Data(c)
    <3>1. 1 .. 1 - 1 = {}
      OBVIOUS
    <3> QED
      BY <1>2, <1>5, <3>1 DEF Before, n
  <2>3. B \subseteq 1 .. n - 1 /\ IsFiniteSet(B) /\ Due(t, c) \in Nat
    BY <1>1, DueType DEF Before
  <2>4. C \subseteq 1 .. n /\ 1 \notin C
    BY <1>4, <2>3
  <2>5. Before(s, c) = IF Head(s) = Data(c) THEN C \cup {1} ELSE C
    <3>1. ASSUME NEW i \in 1 .. n, i # 1 PROVE i \in Before(s, c) <=> i \in C
      <4>1. i - 1 \in 1 .. n - 1 /\ (i - 1) + 1 = i
        BY <1>3, <3>1
      <4>2. i \in Before(s, c) <=> i - 1 \in B
        BY <2>1, <4>1
      <4>3. \A k \in B : k + 1 = i => k = i - 1
        BY <2>3, <3>1, <1>1
      <4>4. i \in C <=> i - 1 \in B
        BY <4>1, <4>3
      <4> QED
        BY <4>2, <4>4
    <3>2. Before(s, c) \subseteq 1 .. n
      BY DEF Before, n
    <3>3. \A i : i # 1 => (i \in Before(s, c) <=> i \in C)
      BY <2>4, <3>1, <3>2
    <3> DEFINE A == Before(s, c)
    <3> HIDE DEF A, C
    <3>4. 1 \notin C /\ (1 \in A <=> Head(s) = Data(c)) /\ \A i : i # 1 => (i \in A <=> i \in C)
      BY <2>2, <2>4, <3>3 DEF A
    <3>5. A = IF Head(s) = Data(c) THEN C \cup {1} ELSE C
      <4>1. CASE Head(s) = Data(c)
        BY <3>4, <4>1
      <4>2. CASE Head(s) # Data(c)
        BY <3>4, <4>2
      <4> QED
        BY <4>1, <4>2
    <3> QED
      BY <3>5 DEF A
  <2>6. IsFiniteSet(C) /\ Cardinality(C) = Cardinality(B)
    <3> DEFINE f == [i \in B |-> i + 1]
    <3>1. f \in [B -> C]
      OBVIOUS
    <3>2. \A i, j \in B : f[i] = f[j] => i = j
      BY <2>3, <1>1
    <3>3. \A k \in C : \E i \in B : f[i] = k
      OBVIOUS
    <3>4. f \in Bijection(B, C)
      BY <3>1, <3>2, <3>3 DEF Bijection, Injection, IsInjective, Surjection
    <3>5. ExistsBijection(B, C)
      BY <3>4 DEF ExistsBijection
    <3> QED
      BY <2>3, <3>5, FS_Bijection
  <2> HIDE DEF B, C
  <2>7. Cardinality(C \cup {1}) = Cardinality(C) + 1
    BY <2>4, <2>6, FS_AddElement
  <2>8. Due(t, c) = Cardinality(B)
    BY DEF Due, B
  <2> QED
    BY <2>5, <2>6, <2>7, <2>8 DEF Due
<1> QED
  BY <1>6, <1>7, <1>8 DEF t

-------------------------------------------------------------------------------
(* A call c seen from its caller: the serve loop there, the queue to it    *)
(* and what the handler has written.                                       *)

(* The caller's loop has a data packet of c, or an end of c, in hand.      *)
DataInHand(c) ==
  spc[CallerOf[c]] \in {"data", "fetch", "consume"} /\ cur[CallerOf[c]] = Data(c)
EndInHand(c) ==
  spc[CallerOf[c]] \in {"end", "endbody", "cancel"} /\ cur[CallerOf[c]] \in EndsOf(c)

(* The caller's loop runs over an open connection, and c has its source.   *)
Listens(c) ==
  /\ failed[CallerOf[c]][c] = "nil"
  /\ spc[CallerOf[c]] \notin {"exit", "crashed"} /\ ~connClosed[CallerOf[c]]

(* The data that comes before the first end of c.                          *)
Promised(c) ==
  IF ended[HandlerOf(c)][c] = 0 THEN wrote[HandlerOf(c)][c] ELSE ended[HandlerOf(c)][c] - 1

(* The caller gets packets of c only after it has sent the call, and never *)
(* the first packet of it.                                                 *)
About(s, c) == \E i \in 1 .. Len(s) : s[i].call = c
SentInv ==
  \A c \in Calls :
    LET p == CallerOf[c] IN
    /\ About(net[p], c) \/ (spc[p] \in InWork /\ cur[p].call = c) => ~Unsent(c)
    /\ ~At(net[p], First(c)) /\ (spc[p] \in InWork => cur[p] # First(c))

(* The kind of a packet decides its way through the loop.                  *)
KindInv ==
  \A p \in Peers :
    /\ spc[p] \in {"data", "fetch", "parse", "consume"} => cur[p].kind \in {"call", "data"}
    /\ spc[p] \in {"end", "endbody"} => cur[p].kind \in {"ok", "err"}
    /\ spc[p] = "cancel" /\ serr[p] = "nil" => cur[p].kind = "ok"

(* An end of c that was not written is not under way, and one that was     *)
(* written is, until the caller's source has failed.                       *)
MarkInv ==
  \A c \in Calls :
    /\ ended[HandlerOf(c)][c] = 0 => ~AnEnd(net[CallerOf[c]], c) /\ ~EndInHand(c)
    /\ Listens(c) /\ ~connClosed[HandlerOf(c)] /\ ended[HandlerOf(c)][c] # 0 =>
         AnEnd(net[CallerOf[c]], c) \/ EndInHand(c)

(* No data is lost in front of an end.                                     *)
DueInv ==
  \A c \in Calls :
    /\ Listens(c) /\ ~EndInHand(c) /\ (~connClosed[HandlerOf(c)] \/ AnEnd(net[CallerOf[c]], c)) =>
         Promised(c) = got[CallerOf[c]][c] + (IF DataInHand(c) THEN 1 ELSE 0) + Due(net[CallerOf[c]], c)
    /\ failed[CallerOf[c]][c] = "nil" /\ EndInHand(c) =>
         ended[HandlerOf(c)][c] = 1 + got[CallerOf[c]][c]

-------------------------------------------------------------------------------
(* The steps, seen from a call: nothing passes to its caller, or the       *)
(* handler's endpoint sends a packet there.                                *)

Still(c) ==
  /\ net'[CallerOf[c]] = net[CallerOf[c]]
  /\ wrote'[HandlerOf(c)][c] = wrote[HandlerOf(c)][c]
  /\ ended'[HandlerOf(c)][c] = ended[HandlerOf(c)][c]

SendsData(c, e) ==
  /\ e = Data(c)
  /\ wrote'[HandlerOf(c)][c] = wrote[HandlerOf(c)][c] + 1
  /\ ended'[HandlerOf(c)][c] = ended[HandlerOf(c)][c]

SendsEnd(c, e) ==
  /\ e \in EndsOf(c)
  /\ wrote'[HandlerOf(c)][c] = wrote[HandlerOf(c)][c]
  /\ ended'[HandlerOf(c)][c] =
       IF ended[HandlerOf(c)][c] = 0 THEN 1 + wrote[HandlerOf(c)][c] ELSE ended[HandlerOf(c)][c]

SendsOther(c, e) ==
  /\ e.call # c
  /\ wrote'[HandlerOf(c)][c] = wrote[HandlerOf(c)][c]
  /\ ended'[HandlerOf(c)][c] = ended[HandlerOf(c)][c]

Sends(c, e) ==
  /\ ~connClosed[HandlerOf(c)] /\ net'[CallerOf[c]] = Append(net[CallerOf[c]], e)
  /\ SendsData(c, e) \/ SendsEnd(c, e) \/ SendsOther(c, e)

(* A packet written by endpoint q about call d.                            *)
SentBy(c, q, d) ==
  Still(c) \/ (q = HandlerOf(c) /\ \E e \in Packet : e.call = d /\ Sends(c, e))

LEMMA WriteReaches ==
  ASSUME ConnOK, NEW q \in Peers, NEW d \in Calls, NEW kind, WritePacket(q, kind, d, TRUE), NEW c \in Calls
  PROVE  /\ ~connClosed[q]
         /\ q # HandlerOf(c) => net'[CallerOf[c]] = net[CallerOf[c]]
         /\ q = HandlerOf(c) => net'[CallerOf[c]] = Append(net[CallerOf[c]], [kind |-> kind, call |-> d])
<1> DEFINE e == [kind |-> kind, call |-> d]
<1>1. ~connClosed[q] /\ net' = [net EXCEPT ![Other(q)] = Append(net[Other(q)], e)]
  BY Zenon DEF WritePacket
<1>2. net \in [Peers -> Seq(Packet)] /\ CallerOf[c] \in Peers
  BY Ends DEF ConnOK
<1> HIDE DEF e
<1>3. CASE q = HandlerOf(c)
  <2>1. Other(q) = CallerOf[c]
    BY <1>2, <1>3, OtherPeer DEF HandlerOf
  <2> QED
    BY <1>1, <1>2, <1>3, <2>1 DEF e
<1>4. CASE q # HandlerOf(c)
  <2>1. Other(q) # CallerOf[c]
    BY <1>2, <1>4, OtherPeer DEF HandlerOf
  <2> QED
    BY <1>1, <1>2, <1>4, <2>1
<1> QED
  BY <1>3, <1>4

LEMMA EndMarked ==
  ASSUME HistoryOK, NEW q \in Peers, NEW d \in Calls, ended' = MarkEnded(q, d), NEW c \in Calls
  PROVE  ended'[HandlerOf(c)][c] =
           IF q = HandlerOf(c) /\ d = c /\ ended[HandlerOf(c)][c] = 0
           THEN 1 + wrote[HandlerOf(c)][c] ELSE ended[HandlerOf(c)][c]
BY Ends DEF HistoryOK, MarkEnded

LEMMA EndSent ==
  ASSUME ConnOK, HistoryOK, NEW q \in Peers, NEW d \in Calls, NEW kind \in {"ok", "err"}, NEW ok \in BOOLEAN,
         WritePacket(q, kind, d, ok), ended' = (IF ok THEN MarkEnded(q, d) ELSE ended), wrote' = wrote,
         NEW c \in Calls
  PROVE  SentBy(c, q, d)
<1> DEFINE e == [kind |-> kind, call |-> d]
<1>1. CASE ~ok
  <2>1. net' = net
    BY <1>1, Zenon DEF WritePacket
  <2> QED
    BY <1>1, <2>1 DEF SentBy, Still
<1>2. CASE ok
  <2>1. ok = TRUE
    BY <1>2
  <2>2. WritePacket(q, kind, d, TRUE) /\ ended' = MarkEnded(q, d)
    BY <2>1
  <2>3. e \in Packet /\ e.call = d /\ (d = c => e \in EndsOf(c))
    BY DEF Packet, EndsOf
  <2>4. CASE q = HandlerOf(c)
    <3>1. ~connClosed[q] /\ net'[CallerOf[c]] = Append(net[CallerOf[c]], e)
      BY <2>2, <2>4, WriteReaches
    <3>2. SendsEnd(c, e) \/ SendsOther(c, e)
      BY <2>2, <2>3, <2>4, EndMarked DEF SendsEnd, SendsOther
    <3> HIDE DEF e
    <3> QED
      BY <2>3, <2>4, <3>1, <3>2 DEF SentBy, Sends
  <2>5. CASE q # HandlerOf(c)
    BY <2>2, <2>5, WriteReaches, EndMarked DEF SentBy, Still
  <2> QED
    BY <2>4, <2>5
<1> QED
  BY <1>1, <1>2

LEMMA CloseSent ==
  ASSUME ConnOK, HistoryOK, NEW q \in Peers, NEW d \in Calls, NEW err, sinkCloseWithError(q, d, err),
         wrote' = wrote, NEW c \in Calls
  PROVE  SentBy(c, q, d)
<1>1. CASE sinkClosed[q][d]
  BY <1>1 DEF sinkCloseWithError, SentBy, Still
<1>2. CASE ~sinkClosed[q][d]
  <2> DEFINE kind == IF err = "nil" THEN "ok" ELSE "err"
  <2>1. PICK ok \in BOOLEAN :
          WritePacket(q, kind, d, ok) /\ ended' = (IF ok THEN MarkEnded(q, d) ELSE ended)
    BY <1>2, Zenon DEF sinkCloseWithError
  <2>2. kind \in {"ok", "err"}
    OBVIOUS
  <2> HIDE DEF kind
  <2> QED
    BY <2>1, <2>2, EndSent
<1> QED
  BY <1>1, <1>2

LEMMA DataSent ==
  ASSUME ConnOK, HistoryOK, NEW q \in Peers, NEW d \in Calls, sinkWrite(q, d), NEW c \in Calls
  PROVE  SentBy(c, q, d)
<1> DEFINE e == [kind |-> "data", call |-> d]
<1>0. ended' = ended
  BY DEF sinkWrite
<1>1. CASE StreamCtxDone(q, d)
  BY <1>0, <1>1 DEF sinkWrite, SentBy, Still
<1>2. CASE ~StreamCtxDone(q, d)
  <2>1. PICK ok \in BOOLEAN :
          /\ WritePacket(q, "data", d, ok)
          /\ wrote' = [wrote EXCEPT ![q][d] = IF ok THEN @ + 1 ELSE @]
    BY <1>2 DEF sinkWrite
  <2>2. CASE ~ok
    <3>1. net' = net
      BY <2>1, <2>2, Zenon DEF WritePacket
    <3>2. wrote'[HandlerOf(c)][c] = wrote[HandlerOf(c)][c]
      BY <2>1, <2>2, Ends DEF HistoryOK
    <3> QED
      BY <1>0, <3>1, <3>2 DEF SentBy, Still
  <2>3. CASE ok
    <3>1. ok = TRUE
      BY <2>3
    <3>2. WritePacket(q, "data", d, TRUE)
      BY <2>1, <3>1
    <3>3. wrote'[HandlerOf(c)][c] =
            IF q = HandlerOf(c) /\ d = c THEN wrote[HandlerOf(c)][c] + 1 ELSE wrote[HandlerOf(c)][c]
      BY <2>1, <2>3, Ends DEF HistoryOK
    <3>4. e \in Packet /\ e.call = d /\ (d = c => e = Data(c))
      BY DEF Packet, Data
    <3>5. CASE q = HandlerOf(c)
      <4>1. ~connClosed[q] /\ net'[CallerOf[c]] = Append(net[CallerOf[c]], e)
        BY <3>2, <3>5, WriteReaches
      <4>2. SendsData(c, e) \/ SendsOther(c, e)
        BY <1>0, <3>3, <3>4, <3>5 DEF SendsData, SendsOther
      <4> HIDE DEF e
      <4> QED
        BY <3>4, <3>5, <4>1, <4>2 DEF SentBy, Sends
    <3>6. CASE q # HandlerOf(c)
      BY <1>0, <3>2, <3>3, <3>6, WriteReaches DEF SentBy, Still
    <3> QED
      BY <3>5, <3>6
  <2> QED
    BY <2>2, <2>3
<1> QED
  BY <1>1, <1>2

(* What a step can be for call c.                                          *)
LoopRests(c) ==
  /\ spc'[CallerOf[c]] = spc[CallerOf[c]] /\ cur'[CallerOf[c]] = cur[CallerOf[c]]
  /\ serr'[CallerOf[c]] = serr[CallerOf[c]] /\ got'[CallerOf[c]][c] = got[CallerOf[c]][c]

SourceRests(c) == failed'[CallerOf[c]][c] = failed[CallerOf[c]][c]
SourceFails(c) == failed[CallerOf[c]][c] = "nil" /\ failed'[CallerOf[c]][c] \notin {"nil", "EOF"}
StaysClosed == \A p \in Peers : connClosed[p] => connClosed'[p]

Quiet(c) == Still(c) /\ LoopRests(c) /\ (SourceRests(c) \/ SourceFails(c)) /\ StaysClosed

CallerServes(c) ==
  /\ ServeStep(CallerOf[c]) /\ connClosed' = connClosed
  /\ wrote'[HandlerOf(c)][c] = wrote[HandlerOf(c)][c]
  /\ ended'[HandlerOf(c)][c] = ended[HandlerOf(c)][c]

CallerDies(c) ==
  /\ spc'[CallerOf[c]] = "crashed" /\ Still(c) /\ SourceRests(c) /\ StaysClosed
  /\ got'[CallerOf[c]][c] = got[CallerOf[c]][c]

HandlerSends(c) ==
  /\ LoopRests(c) /\ SourceRests(c) /\ connClosed' = connClosed
  /\ \E e \in Packet : Sends(c, e) /\ (e.call = c => ~Unsent(c))

Event(c) == Quiet(c) \/ CallerServes(c) \/ CallerDies(c) \/ HandlerSends(c)

LEMMA SentEvent ==
  ASSUME NEW c \in Calls, NEW q, NEW d, SentBy(c, q, d), LoopRests(c), connClosed' = connClosed,
         SourceRests(c) \/ (q # HandlerOf(c) /\ SourceFails(c)),
         q = HandlerOf(c) /\ d = c => ~Unsent(c)
  PROVE  Event(c)
<1>1. CASE Still(c)
  BY <1>1 DEF Event, Quiet, StaysClosed
<1>2. CASE q = HandlerOf(c) /\ \E e \in Packet : e.call = d /\ Sends(c, e)
  BY <1>2 DEF Event, HandlerSends
<1> QED
  BY <1>1, <1>2 DEF SentBy

(* An endpoint that is past the first packet of a call got it.             *)
LEMMA KnownSent ==
  ASSUME NEW c \in Calls, ~Fresh(HandlerOf(c), c)
  PROVE  ~Unsent(c)
BY Ends DEF Fresh

LEMMA CancelElse ==
  ASSUME StreamsOK, NEW q \in Peers, NEW d \in Calls, NEW err \in {"nil", "remote", "refused", "session", "user"},
         sourceCancel(q, d, err), NEW c \in Calls
  PROVE  /\ q # CallerOf[c] \/ d # c => SourceRests(c)
         /\ err # "nil" => SourceRests(c) \/ SourceFails(c)
BY Ends DEF StreamsOK, sourceCancel, SourceRests, SourceFails

LEMMA RunEvent ==
  ASSUME TypeInv, NEW q \in Peers, ServeStep(q), NEW c \in Calls
  PROVE  /\ connClosed' = connClosed
         /\ q = CallerOf[c] => CallerServes(c)
         /\ q = HandlerOf(c) => LoopRests(c) /\ SourceRests(c)
<1>0. ConnOK /\ ServeOK /\ CurInv /\ StreamsOK /\ HistoryOK
  BY DEF TypeInv, TypeOK
<1>1. connClosed' = connClosed
  BY DEF ServeStep, NextHeader, NextHeaderGarbage, ServeGarbage, NextHeaderEOF, NextHeaderFails,
     serveEnd, serveEndBody, closeStreamCancel, closeStreamSink, closeStream, maybeDiscardPacket,
     fetchRequest, parseNewRequestFails, consume, noSuchMethod, acceptRequest, netVars
<1>2. CASE q = CallerOf[c]
  <2>1. wrote' = wrote
    BY DEF ServeStep, NextHeader, NextHeaderGarbage, ServeGarbage, NextHeaderEOF, NextHeaderFails,
       serveEnd, serveEndBody, closeStreamCancel, closeStreamSink, closeStream, maybeDiscardPacket,
       fetchRequest, parseNewRequestFails, consume, noSuchMethod, acceptRequest, history
  <2>2. ended'[HandlerOf(c)][c] = ended[HandlerOf(c)][c]
    <3>0. q # HandlerOf(c)
      BY <1>2, Ends
    <3>1. CASE ended' = ended
      BY <3>1
    <3>2. ASSUME NEW d \in Calls, ended' = MarkEnded(q, d) PROVE ended'[HandlerOf(c)][c] = ended[HandlerOf(c)][c]
      BY <1>0, <3>0, <3>2, EndMarked
    <3>3. ASSUME closeStreamSink(q), ended' # ended PROVE \E d \in Calls : ended' = MarkEnded(q, d)
      <4>1. cur[q].call \in Calls
        BY <1>0, <3>3 DEF CurInv, closeStreamSink, InWork, Packet
      <4> QED
        BY <3>3, <4>1, Zenon DEF closeStreamSink, sinkCloseWithError
    <3>4. ASSUME NEW d \in Calls, noSuchMethod(q, d) PROVE ended' = ended \/ ended' = MarkEnded(q, d)
      BY <3>4, Zenon DEF noSuchMethod
    <3>5. CASE ~closeStreamSink(q) /\ ~\E d \in Calls : noSuchMethod(q, d)
      BY <3>5 DEF ServeStep, NextHeader, NextHeaderGarbage, ServeGarbage, NextHeaderEOF, NextHeaderFails,
         serveEnd, serveEndBody, closeStreamCancel, closeStream, maybeDiscardPacket,
         fetchRequest, parseNewRequestFails, consume, acceptRequest, history
    <3> QED
      BY <3>1, <3>2, <3>3, <3>4, <3>5
  <2> QED
    BY <1>1, <1>2, <2>1, <2>2, Ends DEF CallerServes
<1>3. CASE q = HandlerOf(c)
  <2> DEFINE p == CallerOf[c]
  <2>0. p \in Peers /\ p # q
    BY <1>3, Ends
  <2>1. spc'[p] = spc[p] /\ cur'[p] = cur[p]
    BY <1>0, <2>0, ServeLocal
  <2>2. serr'[p] = serr[p]
    BY <1>0, <2>0 DEF ServeOK, ServeStep, NextHeader, NextHeaderGarbage, ServeGarbage, NextHeaderEOF,
       NextHeaderFails, serveEnd, serveEndBody, closeStreamCancel, closeStreamSink, closeStream,
       maybeDiscardPacket, fetchRequest, parseNewRequestFails, consume, noSuchMethod, acceptRequest,
       ServeGoto, ServeExit, ServeContinue
  <2>3. got'[p][c] = got[p][c]
    <3>1. CASE consume(q)
      <4>1. cur[q].call \in Calls
        BY <1>0, <3>1 DEF CurInv, consume, InWork, Packet
      <4>2. got' = got \/ got' = [got EXCEPT ![q][cur[q].call] = @ + 1]
        BY <3>1 DEF consume
      <4> QED
        BY <1>0, <2>0, <4>1, <4>2 DEF HistoryOK
    <3>2. CASE ~consume(q)
      BY <3>2 DEF ServeStep, NextHeader, NextHeaderGarbage, ServeGarbage, NextHeaderEOF,
         NextHeaderFails, serveEnd, serveEndBody, closeStreamCancel, closeStreamSink, closeStream,
         maybeDiscardPacket, fetchRequest, parseNewRequestFails, noSuchMethod, acceptRequest, history
    <3> QED
      BY <3>1, <3>2
  <2>4. SourceRests(c)
    <3>1. CASE closeStreamCancel(q)
      <4>1. cur[q].call \in Calls /\ serr[q] \in {"nil", "remote", "refused", "session", "user"}
        BY <1>0, <3>1 DEF CurInv, closeStreamCancel, InWork, Packet, ServeOK
      <4> QED
        BY <1>0, <2>0, <3>1, <4>1, CancelElse DEF closeStreamCancel
    <3>2. CASE ~closeStreamCancel(q)
      BY <3>2 DEF SourceRests, ServeStep, NextHeader, NextHeaderGarbage, ServeGarbage, NextHeaderEOF,
         NextHeaderFails, serveEnd, serveEndBody, closeStreamSink, closeStream, maybeDiscardPacket,
         fetchRequest, parseNewRequestFails, consume, noSuchMethod, acceptRequest, streamVars
    <3> QED
      BY <3>1, <3>2
  <2> QED
    BY <1>1, <1>3, <2>0, <2>1, <2>2, <2>3, <2>4 DEF LoopRests
<1> QED
  BY <1>1, <1>2, <1>3

LEMMA ServeEvent ==
  ASSUME TypeInv, TablesInv, NEW q \in Peers, ServeStep(q), NEW c \in Calls
  PROVE  Event(c)
<1>0. ConnOK /\ CurInv /\ HistoryOK
  BY DEF TypeInv, TypeOK
<1>1. CASE q = CallerOf[c]
  BY <1>1, RunEvent DEF Event
<1>2. CASE q # CallerOf[c]
  <2>1. q = HandlerOf(c) /\ CallerOf[c] # q
    BY <1>2, TwoEnds
  <2>2. connClosed' = connClosed /\ LoopRests(c) /\ SourceRests(c)
    BY <2>1, RunEvent
  <2>3. ASSUME NEW d \in Calls, SentBy(c, q, d), d = c => ~Fresh(q, c) PROVE Event(c)
    BY <2>1, <2>2, <2>3, SentEvent, KnownSent
  <2>4. CASE closeStreamSink(q)
    <3>1. cur[q].call \in Calls /\ wrote' = wrote /\ sinkCloseWithError(q, cur[q].call, serr[q])
      BY <1>0, <2>4 DEF CurInv, closeStreamSink, InWork, Packet
    <3>2. SentBy(c, q, cur[q].call)
      BY <1>0, <3>1, CloseSent
    <3>3. cur[q].call = c => ~Fresh(q, c)
      BY <2>4 DEF closeStreamSink, Works, TablesInv, FreshInv
    <3> QED
      BY <2>3, <3>1, <3>2, <3>3
  <2>5. ASSUME NEW d \in Calls, noSuchMethod(q, d) PROVE Event(c)
    <3>1. wrote' = wrote
      BY <2>5 DEF noSuchMethod
    <3>2. \/ WritePacket(q, "err", d, TRUE) /\ ended' = MarkEnded(q, d)
          \/ WritePacket(q, "err", d, FALSE) /\ ended' = ended
      BY <2>5, Zenon DEF noSuchMethod
    <3>3. \E ok \in BOOLEAN : WritePacket(q, "err", d, ok) /\ ended' = (IF ok THEN MarkEnded(q, d) ELSE ended)
      BY <3>2
    <3>4. SentBy(c, q, d)
      BY <1>0, <3>1, <3>3, EndSent
    <3>5. d = c => ~Unsent(c)
      <4>1. d = c => InHand(c)
        BY <2>1, <2>5 DEF noSuchMethod, NewRequest, InHand, First
      <4> QED
        BY <4>1 DEF TablesInv, FirstInv
    <3> QED
      BY <2>1, <2>2, <3>4, <3>5, SentEvent
  <2>6. CASE ~closeStreamSink(q) /\ ~\E d \in Calls : noSuchMethod(q, d)
    <3>1. wrote' = wrote /\ ended' = ended
      BY <2>6 DEF ServeStep, NextHeader, NextHeaderGarbage, ServeGarbage, NextHeaderEOF, NextHeaderFails,
         serveEnd, serveEndBody, closeStreamCancel, closeStream, maybeDiscardPacket,
         fetchRequest, parseNewRequestFails, consume, acceptRequest, history
    <3>2. net'[CallerOf[c]] = net[CallerOf[c]]
      <4>1. CASE NextHeader(q) \/ consume(q)
        BY <1>0, <2>1, <4>1, Ends DEF NextHeader, consume, ConnOK
      <4>2. CASE ~NextHeader(q) /\ ~consume(q)
        BY <2>6, <4>2 DEF ServeStep, NextHeaderGarbage, ServeGarbage, NextHeaderEOF, NextHeaderFails,
           serveEnd, serveEndBody, closeStreamCancel, closeStream, maybeDiscardPacket,
           fetchRequest, parseNewRequestFails, acceptRequest, netVars
      <4> QED
        BY <4>1, <4>2
    <3> QED
      BY <2>2, <3>1, <3>2 DEF Event, Quiet, Still, StaysClosed
  <2> QED
    BY <2>4, <2>5, <2>6
<1> QED
  BY <1>1, <1>2

LEMMA TerminateEvent ==
  ASSUME TypeInv, TablesInv, NEW q \in Peers, NEW w \in Terminating,
         Terminate(q, w) \/ TerminateStep(q, w), NEW c \in Calls
  PROVE  Event(c)
<1>0. ConnOK /\ StreamsOK /\ HistoryOK
  BY DEF TypeInv, TypeOK
<1>1. ASSUME NEW d \in Calls, TerminateSweep(q, w, d) PROVE Event(c)
  <2>1. /\ sinkCloseWithError(q, d, "session") /\ wrote' = wrote /\ sourceCancel(q, d, "session")
        /\ LoopRests(c) /\ connClosed' = connClosed
    BY <1>1 DEF TerminateSweep, LoopRests, serveVars
  <2>2. SentBy(c, q, d)
    BY <1>0, <2>1, CloseSent
  <2>3. q = HandlerOf(c) /\ d = c => ~Unsent(c)
    <3>1. q = HandlerOf(c) /\ d = c => ~Fresh(HandlerOf(c), c)
      BY <1>1 DEF TerminateSweep, TablesInv, FreshInv
    <3> QED
      BY <3>1, KnownSent
  <2>4. SourceRests(c) \/ (q # HandlerOf(c) /\ SourceFails(c))
    <3>1. (q # CallerOf[c] \/ d # c => SourceRests(c)) /\ (SourceRests(c) \/ SourceFails(c))
      BY <1>0, <2>1, CancelElse
    <3> QED
      BY <3>1, Ends
  <2> QED
    BY <2>1, <2>2, <2>3, <2>4, SentEvent
<1>2. CASE Terminate(q, w) \/ TerminateLock(q, w) \/ TerminateClose(q, w)
  BY <1>0, <1>2 DEF Terminate, TerminateLock, TerminateClose, ConnOK, Event, Quiet, Still, LoopRests,
     SourceRests, StaysClosed, netVars, serveVars, streamVars, history
<1> QED
  BY <1>1, <1>2 DEF TerminateStep

LEMMA CallerEvent ==
  ASSUME TypeInv, TablesInv, NEW d \in Calls, CallerStep(d), NEW c \in Calls
  PROVE  Event(c)
<1>0. ConnOK /\ StreamsOK /\ HistoryOK /\ CallerOf[d] \in Peers
  BY Ends DEF TypeInv, TypeOK
<1>1. LoopRests(c) /\ connClosed' = connClosed
  <2>1. spc' = spc /\ cur' = cur /\ serr' = serr /\ got' = got /\ connClosed' = connClosed
    BY DEF CallerStep, start, startWrite, Async, callerWrite, sinkWrite, callerClose, callerCancel,
       callerCtx, NextCtxDone, netVars, serveVars, history
  <2> QED
    BY <2>1 DEF LoopRests
<1>2. ~(CallerOf[d] = HandlerOf(c) /\ d = c)
  BY Ends
<1>3. ASSUME SentBy(c, CallerOf[d], d), failed' = failed PROVE Event(c)
  BY <1>1, <1>2, <1>3, SentEvent DEF SourceRests
<1>4. CASE startWrite(d)
  <2>1. PICK ok \in BOOLEAN : WritePacket(CallerOf[d], "call", d, ok)
    BY <1>4 DEF startWrite
  <2>2. wrote' = wrote /\ ended' = ended /\ failed' = failed
    BY <1>4 DEF startWrite, history, streamVars
  <2>3. CASE ~ok
    <3>1. net' = net
      BY <2>1, <2>3, Zenon DEF WritePacket
    <3> QED
      BY <1>3, <2>2, <3>1 DEF SentBy, Still
  <2>4. CASE ok
    <3>0. ok = TRUE
      BY <2>4
    <3>1. WritePacket(CallerOf[d], "call", d, TRUE)
      BY <2>1, <3>0
    <3> DEFINE e == [kind |-> "call", call |-> d]
    <3>2. CASE CallerOf[d] = HandlerOf(c)
      <4>1. ~connClosed[HandlerOf(c)] /\ net'[CallerOf[c]] = Append(net[CallerOf[c]], e)
        BY <1>0, <3>1, <3>2, WriteReaches
      <4>2. e \in Packet /\ e.call = d /\ SendsOther(c, e)
        BY <1>2, <2>2, <3>2 DEF Packet, SendsOther
      <4> HIDE DEF e
      <4>3. SentBy(c, CallerOf[d], d)
        BY <3>2, <4>1, <4>2 DEF SentBy, Sends
      <4> QED
        BY <1>3, <2>2, <4>3
    <3>3. CASE CallerOf[d] # HandlerOf(c)
      <4>1. net'[CallerOf[c]] = net[CallerOf[c]]
        BY <1>0, <3>1, <3>3, WriteReaches
      <4> QED
        BY <1>3, <2>2, <4>1 DEF SentBy, Still
    <3> QED
      BY <3>2, <3>3
  <2> QED
    BY <2>3, <2>4
<1>5. CASE callerWrite(d)
  <2>1. SentBy(c, CallerOf[d], d) /\ failed' = failed
    BY <1>0, <1>5, DataSent DEF callerWrite, sinkWrite
  <2> QED
    BY <1>3, <2>1
<1>6. CASE callerClose(d)
  <2>1. SentBy(c, CallerOf[d], d) /\ failed' = failed
    BY <1>0, <1>6, CloseSent DEF callerClose
  <2> QED
    BY <1>3, <2>1
<1>7. CASE callerCancel(d)
  <2>1. Still(c) /\ sourceCancel(CallerOf[d], d, "user")
    BY <1>7 DEF callerCancel, Still, netVars, history
  <2>2. SourceRests(c) \/ SourceFails(c)
    BY <1>0, <2>1, CancelElse
  <2> QED
    BY <1>1, <2>1, <2>2 DEF Event, Quiet, StaysClosed
<1>8. CASE NextCtxDone(CallerOf[d], d)
  <2>1. Still(c) /\ (SourceRests(c) \/ SourceFails(c))
    BY <1>0, <1>8, Ends DEF NextCtxDone, Still, netVars, history, SourceRests, SourceFails, StreamsOK
  <2> QED
    BY <1>1, <2>1 DEF Event, Quiet, StaysClosed
<1>9. CASE start(d) \/ Async(d) \/ callerCtx(d)
  <2>1. Still(c) /\ SourceRests(c)
    BY <1>9 DEF start, Async, callerCtx, Still, SourceRests, netVars, streamVars, history
  <2> QED
    BY <1>1, <2>1 DEF Event, Quiet, StaysClosed
<1> QED
  BY <1>4, <1>5, <1>6, <1>7, <1>8, <1>9 DEF CallerStep

LEMMA HandlerEvent ==
  ASSUME TypeInv, TablesInv, NEW d \in Calls, HandlerStep(d), NEW c \in Calls
  PROVE  Event(c)
<1>0. ConnOK /\ StreamsOK /\ HistoryOK /\ HandlerOf(d) \in Peers
  BY Ends DEF TypeInv, TypeOK
<1>1. LoopRests(c) /\ connClosed' = connClosed
  <2>1. spc' = spc /\ cur' = cur /\ serr' = serr /\ got' = got /\ connClosed' = connClosed
    BY DEF HandlerStep, HandlerCloses, handlerWrite, Return, sinkWrite, handlerClose, CloseWithError,
       CloseWithErrorSink, CloseWithErrorForget, NextCtxDone, netVars, serveVars, history
  <2> QED
    BY <2>1 DEF LoopRests
<1>2. ASSUME hpc[d] # "none" PROVE d = c => ~Unsent(c)
  BY <1>2, KnownSent DEF TablesInv, RunsInv
<1>3. ASSUME SentBy(c, HandlerOf(d), d), failed' = failed, hpc[d] # "none" PROVE Event(c)
  BY <1>1, <1>2, <1>3, SentEvent DEF SourceRests
<1>4. CASE handlerWrite(d) \/ Return(d)
  <2>1. sinkWrite(HandlerOf(d), d) /\ failed' = failed /\ hpc[d] # "none"
    BY <1>4 DEF handlerWrite, Return, sinkWrite
  <2> QED
    BY <1>0, <1>3, <2>1, DataSent
<1>5. CASE handlerClose(d) \/ CloseWithErrorSink(d)
  <2>1. /\ \E err : sinkCloseWithError(HandlerOf(d), d, err)
        /\ wrote' = wrote /\ failed' = failed /\ hpc[d] # "none"
    BY <1>5 DEF handlerClose, CloseWithErrorSink
  <2> QED
    BY <1>0, <1>3, <2>1, CloseSent
<1>6. CASE CloseWithError(d)
  <2>1. PICK err \in {"nil", "user"} : sourceCancel(HandlerOf(d), d, err)
    BY <1>6 DEF CloseWithError
  <2>2. HandlerOf(d) # CallerOf[c] \/ d # c
    BY Ends
  <2>3. Still(c) /\ SourceRests(c)
    BY <1>0, <1>6, <2>1, <2>2, CancelElse DEF CloseWithError, Still, netVars, history
  <2> QED
    BY <1>1, <2>3 DEF Event, Quiet, StaysClosed
<1>7. CASE NextCtxDone(HandlerOf(d), d)
  <2>1. Still(c) /\ (SourceRests(c) \/ SourceFails(c))
    BY <1>0, <1>7, Ends DEF NextCtxDone, Still, netVars, history, SourceRests, SourceFails, StreamsOK
  <2> QED
    BY <1>1, <2>1 DEF Event, Quiet, StaysClosed
<1>8. CASE CloseWithErrorForget(d)
  <2>1. Still(c) /\ SourceRests(c)
    BY <1>8 DEF CloseWithErrorForget, Still, SourceRests, netVars, history
  <2> QED
    BY <1>1, <2>1 DEF Event, Quiet, StaysClosed
<1> QED
  BY <1>4, <1>5, <1>6, <1>7, <1>8 DEF HandlerStep, HandlerCloses

(* Every step is one of the events.                                        *)
LEMMA EventStep ==
  ASSUME TypeInv, TablesInv, Next, NEW c \in Calls
  PROVE  Event(c)
<1>1. ASSUME NEW q \in Peers, Crash(q) PROVE Event(c)
  <2>0. ConnOK /\ ServeOK
    BY DEF TypeInv, TypeOK
  <2>1. /\ Still(c) /\ SourceRests(c) /\ StaysClosed
        /\ cur' = cur /\ serr' = serr /\ got' = got
    BY <1>1, <2>0 DEF Crash, ConnOK, Still, SourceRests, StaysClosed, streamVars, history
  <2>2. spc'[CallerOf[c]] = "crashed" \/ spc'[CallerOf[c]] = spc[CallerOf[c]]
    BY <1>1, <2>0, Ends DEF Crash, ServeOK
  <2> QED
    BY <2>1, <2>2 DEF Event, Quiet, CallerDies, LoopRests
<1> QED
  BY <1>1, ServeEvent, TerminateEvent, CallerEvent, HandlerEvent DEF Next

-------------------------------------------------------------------------------
(* The loop between two headers.                                           *)

LEMMA LoopOwner ==
  ASSUME TypeInv, Next, NEW p \in Peers
  PROVE  \/ /\ spc'[p] = spc[p] /\ cur'[p] = cur[p] /\ serr'[p] = serr[p]
            /\ unread'[p] = unread[p] /\ serveRet'[p] = serveRet[p]
         \/ spc'[p] = "crashed" /\ serveRet'[p] = serveRet[p]
         \/ ServeStep(p) /\ Alive(p)
<1> DEFINE Rests == /\ spc'[p] = spc[p] /\ cur'[p] = cur[p] /\ serr'[p] = serr[p]
                    /\ unread'[p] = unread[p] /\ serveRet'[p] = serveRet[p]
           Goal == \/ Rests
                   \/ spc'[p] = "crashed" /\ serveRet'[p] = serveRet[p]
                   \/ ServeStep(p) /\ Alive(p)
<1>0. ServeOK /\ RestOK
  BY DEF TypeInv, TypeOK, RestOK
<1>1. ASSUME NEW q \in Peers, Alive(q), ServeStep(q) PROVE Goal
  <2>1. CASE p # q
    BY <1>0, <1>1, <2>1 DEF ServeOK, ServeStep, NextHeader, NextHeaderGarbage, ServeGarbage,
       NextHeaderEOF, NextHeaderFails, serveEnd, serveEndBody, closeStreamCancel, closeStreamSink,
       closeStream, maybeDiscardPacket, fetchRequest, parseNewRequestFails, consume, noSuchMethod,
       acceptRequest, ServeGoto, ServeExit, ServeContinue
  <2> QED
    BY <1>1, <2>1
<1>2. ASSUME NEW q \in Peers, Crash(q) PROVE Goal
  BY <1>0, <1>2 DEF Crash, ServeOK
<1>3. CASE UNCHANGED serveVars
  BY <1>3 DEF serveVars
<1>4. ASSUME NEW q \in Peers, NEW w \in Terminating, Terminate(q, w) \/ TerminateStep(q, w) PROVE Goal
  BY <1>0, <1>3, <1>4, TerminateRest
<1>5. ASSUME NEW d \in Calls, CallerStep(d) \/ HandlerStep(d) PROVE Goal
  BY <1>0, <1>3, <1>5, CallerRest, HandlerRest
<1> QED
  BY <1>1, <1>2, <1>4, <1>5 DEF Next

LEMMA LoopMove ==
  ASSUME TypeInv, NEW p \in Peers, ServeStep(p), ~NextHeader(p)
  PROVE  /\ cur' = cur /\ (spc'[p] \in InWork => spc[p] \in InWork)
         /\ ~consume(p) /\ ~closeStreamSink(p) /\ ~(\E d \in Calls : noSuchMethod(p, d)) => net' = net
         /\ net'[p] = net[p] \/ (consume(p) /\ net'[p] = << >> /\ Broken(p))
<1>0. ConnOK /\ ServeOK /\ CurInv
  BY DEF TypeInv, TypeOK
<1>1. cur' = cur /\ (spc'[p] \in InWork => spc[p] \in InWork)
  BY <1>0 DEF ServeOK, InWork, ServeStep, NextHeaderGarbage, ServeGarbage, NextHeaderEOF,
     NextHeaderFails, serveEnd, serveEndBody, closeStreamCancel, closeStreamSink, closeStream,
     maybeDiscardPacket, fetchRequest, parseNewRequestFails, consume, noSuchMethod, acceptRequest,
     ServeGoto, ServeExit, ServeContinue
<1>2. ASSUME ~consume(p), ~closeStreamSink(p), ~(\E d \in Calls : noSuchMethod(p, d)) PROVE net' = net
  BY <1>2 DEF ServeStep, NextHeaderGarbage, ServeGarbage, NextHeaderEOF, NextHeaderFails, serveEnd,
     serveEndBody, closeStreamCancel, closeStream, maybeDiscardPacket, fetchRequest,
     parseNewRequestFails, acceptRequest, netVars
<1>3. ASSUME NEW d \in Calls, NEW kind, NEW ok \in BOOLEAN, WritePacket(p, kind, d, ok) PROVE net'[p] = net[p]
  <2>1. net'[p] # net[p] => p = Other(p)
    BY <1>0, <1>3, WriteShape, Zenon
  <2> QED
    BY <2>1, OtherPeer
<1>4. ASSUME closeStreamSink(p) PROVE net'[p] = net[p]
  <2>1. cur[p].call \in Calls
    BY <1>0, <1>4 DEF CurInv, closeStreamSink, InWork, Packet
  <2> QED
    BY <1>3, <1>4, <2>1, Zenon DEF closeStreamSink, sinkCloseWithError
<1>5. ASSUME NEW d \in Calls, noSuchMethod(p, d) PROVE net'[p] = net[p]
  <2>1. WritePacket(p, "err", d, TRUE) \/ WritePacket(p, "err", d, FALSE)
    BY <1>5, Zenon DEF noSuchMethod
  <2> QED
    BY <1>3, <2>1
<1>6. ASSUME consume(p) PROVE net'[p] = net[p] \/ (net'[p] = << >> /\ Broken(p))
  BY <1>0, <1>6 DEF consume, ConnOK
<1> QED
  BY <1>1, <1>2, <1>4, <1>5, <1>6

LEMMA KindStep ==
  ASSUME TypeInv, KindInv, Next
  PROVE  KindInv'
<1> SUFFICES ASSUME NEW p \in Peers
             PROVE  /\ spc'[p] \in {"data", "fetch", "parse", "consume"} => cur'[p].kind \in {"call", "data"}
                    /\ spc'[p] \in {"end", "endbody"} => cur'[p].kind \in {"ok", "err"}
                    /\ spc'[p] = "cancel" /\ serr'[p] = "nil" => cur'[p].kind = "ok"
  BY DEF KindInv
<1>0. ServeOK /\ ConnOK
  BY DEF TypeInv, TypeOK
<1>1. CASE spc'[p] = spc[p] /\ cur'[p] = cur[p] /\ serr'[p] = serr[p]
  BY <1>1 DEF KindInv
<1>2. CASE NextHeader(p)
  <2>1. Head(net[p]) \in Packet
    BY <1>0, <1>2 DEF NextHeader, ConnOK
  <2>2. Head(net[p]).kind \in {"call", "data", "ok", "err"}
    BY <2>1 DEF Packet
  <2> QED
    BY <1>0, <1>2, <2>2 DEF NextHeader, ServeOK
<1>3. CASE ServeStep(p) /\ ~NextHeader(p)
  <2>1. cur' = cur
    BY <1>3, LoopMove
  <2> QED
    BY <1>0, <1>3, <2>1 DEF KindInv, ServeOK, ServeStep, NextHeaderGarbage, ServeGarbage, NextHeaderEOF,
       NextHeaderFails, serveEnd, serveEndBody, closeStreamCancel, closeStreamSink, closeStream,
       maybeDiscardPacket, fetchRequest, parseNewRequestFails, consume, noSuchMethod, acceptRequest,
       ServeGoto, ServeExit, ServeContinue
<1> QED
  BY <1>1, <1>2, <1>3, LoopOwner

LEMMA AboutSeq ==
  ASSUME NEW s \in Seq(Packet), NEW c
  PROVE  /\ \A e \in Packet : About(Append(s, e), c) => About(s, c) \/ e.call = c
         /\ s # << >> => (About(Tail(s), c) => About(s, c)) /\ (Head(s).call = c => About(s, c))
<1>1. ASSUME NEW e \in Packet PROVE About(Append(s, e), c) => About(s, c) \/ e.call = c
  <2>1. Len(Append(s, e)) = Len(s) + 1 /\ Len(s) \in Nat
    OBVIOUS
  <2>2. \A i \in 1 .. Len(s) + 1 : Append(s, e)[i] = IF i = Len(s) + 1 THEN e ELSE s[i]
    OBVIOUS
  <2> QED
    BY <2>1, <2>2 DEF About
<1>2. ASSUME s # << >> PROVE (About(Tail(s), c) => About(s, c)) /\ (Head(s).call = c => About(s, c))
  <2>1. Len(Tail(s)) = Len(s) - 1 /\ Len(s) \in Nat /\ Len(s) > 0 /\ Head(s) = s[1]
    BY <1>2
  <2>2. \A i \in 1 .. Len(s) - 1 : Tail(s)[i] = s[i + 1]
    BY <1>2
  <2>3. \A i \in 1 .. Len(s) - 1 : i + 1 \in 1 .. Len(s)
    BY <2>1
  <2>4. 1 \in 1 .. Len(s)
    BY <2>1
  <2> QED
    BY <2>1, <2>2, <2>3, <2>4 DEF About
<1> QED
  BY <1>1, <1>2

LEMMA SentStep ==
  ASSUME TypeInv, TablesInv, SentInv, Next
  PROVE  SentInv'
<1> SUFFICES ASSUME NEW c \in Calls
             PROVE  LET p == CallerOf[c] IN
                    /\ About(net'[p], c) \/ (spc'[p] \in InWork /\ cur'[p].call = c) => ~Unsent(c)'
                    /\ ~At(net'[p], First(c)) /\ (spc'[p] \in InWork => cur'[p] # First(c))
  BY DEF SentInv, First
<1> DEFINE p == CallerOf[c]
<1>0. p \in Peers /\ net[p] \in Seq(Packet) /\ ServeOK
  BY Ends DEF TypeInv, TypeOK, ConnOK
<1>1. Unsent(c)' => Unsent(c)
  BY AppStep DEF AppShape
<1>2. /\ About(net[p], c) \/ (spc[p] \in InWork /\ cur[p].call = c) => ~Unsent(c)
      /\ ~At(net[p], First(c)) /\ (spc[p] \in InWork => cur[p] # First(c))
  BY DEF SentInv
<1> HIDE DEF p
<1>3. CASE Quiet(c) \/ CallerDies(c)
  <2>1. net'[p] = net[p] /\ (spc'[p] \in InWork => spc[p] \in InWork /\ cur'[p] = cur[p])
    BY <1>3 DEF Quiet, CallerDies, Still, LoopRests, InWork, p
  <2> QED
    BY <1>1, <1>2, <2>1 DEF p
<1>4. CASE HandlerSends(c)
  <2>1. PICK e \in Packet : Sends(c, e) /\ (e.call = c => ~Unsent(c))
    BY <1>4 DEF HandlerSends
  <2>2. net'[p] = Append(net[p], e) /\ e # First(c)
    BY <2>1 DEF Sends, SendsData, SendsEnd, SendsOther, Data, EndsOf, First, p
  <2>3. spc'[p] = spc[p] /\ cur'[p] = cur[p]
    BY <1>4 DEF HandlerSends, LoopRests, p
  <2> QED
    BY <1>0, <1>1, <1>2, <2>1, <2>2, <2>3, AboutSeq, AtAppend DEF p
<1>5. CASE CallerServes(c) /\ NextHeader(p)
  <2>1. net[p] # << >> /\ net'[p] = Tail(net[p]) /\ cur'[p] = Head(net[p])
    BY <1>0, <1>5 DEF NextHeader, TypeInv, TypeOK, ConnOK, ServeOK
  <2> QED
    BY <1>0, <1>1, <1>2, <2>1, AboutSeq, AtTail DEF p
<1>6. CASE CallerServes(c) /\ ~NextHeader(p)
  <2>1. cur' = cur /\ (spc'[p] \in InWork => spc[p] \in InWork)
    BY <1>0, <1>6, LoopMove DEF CallerServes, p
  <2>2. net'[p] = net[p] \/ net'[p] = << >>
    BY <1>0, <1>6, LoopMove DEF CallerServes, p
  <2>3. ~About(<< >>, c) /\ ~At(<< >>, First(c))
    BY DEF About, At
  <2> QED
    BY <1>1, <1>2, <2>1, <2>2, <2>3 DEF p
<1> QED
  BY <1>3, <1>4, <1>5, <1>6, EventStep DEF Event

-------------------------------------------------------------------------------
(* What each step of the caller's loop does to a call.                     *)

LEMMA PacketIs ==
  ASSUME NEW e \in Packet
  PROVE  e = [kind |-> e.kind, call |-> e.call]
BY DEF Packet

LEMMA ListensBack ==
  ASSUME TypeInv, Next, NEW c \in Calls, Event(c), Listens(c)'
  PROVE  Listens(c)
<1> DEFINE p == CallerOf[c]
<1>0. p \in Peers /\ StreamsOK
  BY Ends DEF TypeInv, TypeOK
<1>1. failed[p][c] = "nil"
  BY <1>0, FailedStep DEF Listens
<1>2. ~connClosed[p]
  BY <1>0 DEF Listens, Event, Quiet, CallerServes, CallerDies, HandlerSends, StaysClosed
<1>3. ServeStep(p) => spc[p] \notin {"exit", "crashed"}
  BY DEF ServeStep, NextHeader, NextHeaderGarbage, ServeGarbage, NextHeaderEOF, NextHeaderFails,
     serveEnd, serveEndBody, closeStreamCancel, closeStreamSink, closeStream, maybeDiscardPacket,
     fetchRequest, parseNewRequestFails, consume, noSuchMethod, acceptRequest, NewRequest
<1>4. spc[p] \notin {"exit", "crashed"}
  BY <1>0, <1>3, LoopOwner DEF Listens
<1> QED
  BY <1>1, <1>2, <1>4 DEF Listens

LEMMA HeadTaken ==
  ASSUME TypeInv, NEW c \in Calls, NextHeader(CallerOf[c])
  PROVE  LET p == CallerOf[c] IN
         /\ net[p] \in Seq(Packet) /\ net[p] # << >> /\ net'[p] = Tail(net[p])
         /\ ~EndInHand(c) /\ ~DataInHand(c) /\ ~connClosed[p]
         /\ EndInHand(c)' <=> Head(net[p]) \in EndsOf(c)
         /\ DataInHand(c)' <=> Head(net[p]) = Data(c)
         /\ failed' = failed /\ got' = got
<1> DEFINE p == CallerOf[c]
<1>0. p \in Peers /\ ConnOK /\ ServeOK
  BY Ends DEF TypeInv, TypeOK
<1>1. spc[p] = "read" /\ net[p] # << >> /\ failed' = failed /\ got' = got /\ ~connClosed[p]
  BY DEF NextHeader, streamVars, history
<1>2. net[p] \in Seq(Packet) /\ net'[p] = Tail(net[p])
  BY <1>0 DEF NextHeader, ConnOK
<1>3. cur'[p] = Head(net[p]) /\ spc'[p] = IF Head(net[p]).kind \in {"ok", "err"} THEN "end" ELSE "data"
  BY <1>0 DEF NextHeader, ServeOK
<1>4. Head(net[p]) \in EndsOf(c) => Head(net[p]).kind \in {"ok", "err"}
  BY DEF EndsOf
<1>5. Head(net[p]) = Data(c) => Head(net[p]).kind \notin {"ok", "err"}
  BY DEF Data
<1>6. EndInHand(c)' <=> Head(net[p]) \in EndsOf(c)
  BY <1>3, <1>4 DEF EndInHand, EndsOf
<1>7. DataInHand(c)' <=> Head(net[p]) = Data(c)
  BY <1>3, <1>5 DEF DataInHand, Data
<1> QED
  BY <1>1, <1>2, <1>6, <1>7 DEF EndInHand, DataInHand

LEMMA EndFromHeader ==
  ASSUME TypeInv, KindInv, NEW c \in Calls, ServeStep(CallerOf[c]), ~NextHeader(CallerOf[c]), EndInHand(c)'
  PROVE  EndInHand(c)
<1> DEFINE p == CallerOf[c]
<1>0. p \in Peers /\ ServeOK
  BY Ends DEF TypeInv, TypeOK
<1>1. cur'[p] = cur[p]
  BY <1>0, LoopMove
<1>2. spc'[p] \in {"end", "endbody", "cancel"} /\ cur[p] \in EndsOf(c)
  BY <1>1 DEF EndInHand, EndsOf
<1>3. cur[p].kind \in {"ok", "err"}
  BY <1>2 DEF EndsOf
<1>4. spc[p] # "consume"
  BY <1>0, <1>3 DEF KindInv
<1>5. spc[p] \in {"end", "endbody", "cancel"}
  BY <1>0, <1>2, <1>4 DEF ServeOK, ServeStep, NextHeaderGarbage, ServeGarbage, NextHeaderEOF,
     NextHeaderFails, serveEnd, serveEndBody, closeStreamCancel, closeStreamSink, closeStream,
     maybeDiscardPacket, fetchRequest, parseNewRequestFails, consume, noSuchMethod, acceptRequest,
     NewRequest, ServeGoto, ServeExit, ServeContinue
<1> QED
  BY <1>2, <1>5 DEF EndInHand

LEMMA Consumes ==
  ASSUME TypeInv, KindInv, SentInv, NEW c \in Calls, consume(CallerOf[c]), failed[CallerOf[c]][c] = "nil"
  PROVE  LET p == CallerOf[c] IN
         /\ ~EndInHand(c) /\ ~DataInHand(c)' /\ failed' = failed
         /\ \/ DataInHand(c) /\ got'[p][c] = got[p][c] + 1 /\ net' = net
            \/ ~DataInHand(c) /\ got'[p][c] = got[p][c] /\ net' = net
            \/ net'[p] = << >> /\ Broken(p)
<1> DEFINE p == CallerOf[c]
<1>0. p \in Peers /\ ServeOK /\ CurInv /\ HistoryOK /\ ConnOK
  BY Ends DEF TypeInv, TypeOK
<1>1. spc[p] = "consume" /\ cur[p] \in Packet /\ failed' = failed
  BY <1>0 DEF consume, CurInv, InWork, streamVars
<1>2. cur[p].kind \in {"call", "data"}
  BY <1>0, <1>1 DEF KindInv
<1>3. cur[p] # First(c)
  BY <1>1 DEF SentInv, InWork
<1>4. cur[p].call = c <=> DataInHand(c)
  <2>1. cur[p] = [kind |-> cur[p].kind, call |-> cur[p].call]
    BY <1>1, PacketIs
  <2>2. cur[p].call = c => cur[p] = Data(c)
    BY <1>2, <1>3, <2>1 DEF Data, First
  <2> QED
    BY <1>1, <2>2 DEF DataInHand, Data
<1>5. spc'[p] \in {"read", "cancel"}
  BY <1>0 DEF consume, ServeContinue, ServeOK
<1>6. cur[p].call \in Calls
  BY <1>1 DEF Packet
<1>7. ~EndInHand(c) /\ ~DataInHand(c)'
  BY <1>1, <1>5 DEF EndInHand, DataInHand
<1>8. CASE failed[p][cur[p].call] = "nil" /\ got' = [got EXCEPT ![p][cur[p].call] = @ + 1] /\ net' = net
  BY <1>0, <1>1, <1>4, <1>6, <1>7, <1>8 DEF HistoryOK
<1>9. CASE failed[p][cur[p].call] = "nil" /\ Broken(p) /\ net' = [net EXCEPT ![p] = << >>]
  BY <1>0, <1>1, <1>7, <1>9 DEF ConnOK
<1>10. CASE failed[p][cur[p].call] # "nil" /\ got' = got /\ net' = net
  BY <1>1, <1>4, <1>7, <1>10
<1> QED
  BY <1>8, <1>9, <1>10 DEF consume

LEMMA Cancels ==
  ASSUME TypeInv, NEW c \in Calls, closeStreamCancel(CallerOf[c])
  PROVE  LET p == CallerOf[c] IN
         /\ net' = net /\ got' = got /\ ~EndInHand(c)' /\ ~DataInHand(c) /\ ~DataInHand(c)'
         /\ cur[p].call = c => failed'[p][c] # "nil"
         /\ cur[p].call # c => ~EndInHand(c) /\ failed'[p][c] = failed[p][c]
         /\ failed[p][c] = "nil" /\ failed'[p][c] = "EOF" => serr[p] = "nil"
<1> DEFINE p == CallerOf[c]
<1>0. p \in Peers /\ ServeOK /\ CurInv /\ StreamsOK
  BY Ends DEF TypeInv, TypeOK
<1>1. spc[p] = "cancel" /\ cur[p] \in Packet /\ net' = net /\ got' = got
  BY <1>0 DEF closeStreamCancel, CurInv, InWork, netVars, history
<1>2. spc'[p] = "sink"
  BY <1>0 DEF closeStreamCancel, ServeGoto, ServeOK
<1>3. cur[p].call \in Calls
  BY <1>1 DEF Packet
<1>4. failed' = IF failed[p][cur[p].call] # "nil" THEN failed
                ELSE [failed EXCEPT ![p][cur[p].call] = IF serr[p] = "nil" THEN "EOF" ELSE serr[p]]
  BY DEF closeStreamCancel, sourceCancel
<1>5. serr[p] \in {"nil", "remote", "refused"}
  BY <1>0 DEF ServeOK
<1>6. /\ cur[p].call = c => failed'[p][c] # "nil"
      /\ cur[p].call # c => failed'[p][c] = failed[p][c]
      /\ failed[p][c] = "nil" /\ failed'[p][c] = "EOF" => serr[p] = "nil"
  BY <1>0, <1>3, <1>4, <1>5 DEF StreamsOK
<1>7. cur[p].call # c => ~EndInHand(c)
  BY DEF EndInHand, EndsOf
<1> QED
  BY <1>1, <1>2, <1>6, <1>7 DEF EndInHand, DataInHand

(* Everything else leaves a stream that is open as it is.                  *)
LEMMA HandKept ==
  ASSUME TypeInv, TablesInv, StrandInv, SentInv, NEW c \in Calls,
         ServeStep(CallerOf[c]), ~NextHeader(CallerOf[c]), ~consume(CallerOf[c]),
         ~closeStreamCancel(CallerOf[c])
  PROVE  LET p == CallerOf[c] IN
         /\ net'[p] = net[p] /\ failed' = failed /\ got' = got
         /\ failed[p][c] = "nil" /\ spc'[p] # "exit" =>
              (EndInHand(c)' <=> EndInHand(c)) /\ (DataInHand(c)' <=> DataInHand(c))
<1> DEFINE p == CallerOf[c]
<1>0. p \in Peers /\ ServeOK
  BY Ends DEF TypeInv, TypeOK
<1>1. net'[p] = net[p] /\ cur' = cur
  BY <1>0, LoopMove
<1>2. failed' = failed /\ got' = got
  BY DEF ServeStep, NextHeaderGarbage, ServeGarbage, NextHeaderEOF, NextHeaderFails, serveEnd,
     serveEndBody, closeStreamSink, closeStream, maybeDiscardPacket, fetchRequest,
     parseNewRequestFails, noSuchMethod, acceptRequest, streamVars, history
<1>3. ASSUME failed[p][c] = "nil", spc'[p] # "exit"
      PROVE  (EndInHand(c)' <=> EndInHand(c)) /\ (DataInHand(c)' <=> DataInHand(c))
  <2>1. CASE cur[p].call # c
    BY <1>1, <2>1 DEF EndInHand, DataInHand, EndsOf, Data
  <2>2. CASE cur[p].call = c /\ spc[p] \in InWork
    <3>1. ~Unsent(c)
      BY <2>2 DEF SentInv
    <3>2. c \in reqs[p]
      BY <1>3, <3>1 DEF Unsent, StrandInv, LeftInv
    <3>3. c \notin reqsClosed[p]
      BY <1>0, <3>2 DEF TablesInv, ClosedStaysClosed
    <3>4. spc[p] \notin {"sink", "forget"}
      BY <1>0, <1>3, <2>2 DEF StrandInv, CancelInv
    <3>5. spc[p] = "parse" => spc'[p] \in {"read", "exit"}
      BY <1>0 DEF ServeOK, ServeStep, NextHeaderGarbage, ServeGarbage, NextHeaderEOF,
         NextHeaderFails, serveEnd, serveEndBody, closeStreamSink, closeStream,
         maybeDiscardPacket, fetchRequest, parseNewRequestFails, noSuchMethod, acceptRequest,
         ServeExit, ServeContinue
    <3>6. spc[p] \in {"end", "endbody"} => spc'[p] \in {"endbody", "cancel"}
      BY <1>0, <1>3, <2>2, <3>2, <3>3 DEF ServeOK, ServeStep, NextHeaderGarbage, ServeGarbage, NextHeaderEOF,
         NextHeaderFails, serveEnd, serveEndBody, closeStreamSink, closeStream,
         maybeDiscardPacket, fetchRequest, parseNewRequestFails, noSuchMethod, acceptRequest, NewRequest,
         ServeGoto, ServeExit, ServeContinue
    <3>7. spc[p] \in {"data", "fetch"} => spc'[p] \in {"fetch", "consume"}
      BY <1>0, <1>3, <2>2, <3>2, <3>3 DEF ServeOK, ServeStep, NextHeaderGarbage, ServeGarbage, NextHeaderEOF,
         NextHeaderFails, serveEnd, serveEndBody, closeStreamSink, closeStream,
         maybeDiscardPacket, fetchRequest, parseNewRequestFails, noSuchMethod, acceptRequest, NewRequest,
         ServeGoto, ServeExit, ServeContinue
    <3>8. spc[p] \notin {"consume", "cancel"}
      BY DEF ServeStep, NextHeader, NextHeaderGarbage, ServeGarbage, NextHeaderEOF, NextHeaderFails,
         serveEnd, serveEndBody, closeStreamCancel, closeStreamSink, closeStream, maybeDiscardPacket,
         fetchRequest, parseNewRequestFails, consume, noSuchMethod, acceptRequest, NewRequest
    <3>9. cur[p] = Data(c) => cur[p] \notin EndsOf(c)
      BY Apart
    <3> QED
      BY <1>1, <2>2, <3>4, <3>5, <3>6, <3>7, <3>8, <3>9, Zenon DEF EndInHand, DataInHand, InWork
  <2>3. CASE spc[p] \notin InWork
    <3>1. spc'[p] \notin InWork
      BY <1>0, <2>3, LoopMove
    <3> QED
      BY <2>3, <3>1 DEF EndInHand, DataInHand, InWork
  <2> QED
    BY <2>1, <2>2, <2>3
<1> QED
  BY <1>1, <1>2, <1>3

-------------------------------------------------------------------------------
(* The invariant of the streams.                                           *)

LEMMA HandRests ==
  ASSUME NEW c \in Calls, LoopRests(c)
  PROVE  (EndInHand(c)' <=> EndInHand(c)) /\ (DataInHand(c)' <=> DataInHand(c))
BY DEF LoopRests, EndInHand, DataInHand, EndsOf, Data

LEMMA MarkStep ==
  ASSUME TypeInv, TablesInv, StrandInv, SentInv, KindInv, MarkInv, Next
  PROVE  MarkInv'
<1> SUFFICES ASSUME NEW c \in Calls
             PROVE  /\ ended'[HandlerOf(c)][c] = 0 => ~AnEnd(net'[CallerOf[c]], c) /\ ~EndInHand(c)'
                    /\ Listens(c)' /\ ~connClosed'[HandlerOf(c)] /\ ended'[HandlerOf(c)][c] # 0 =>
                         AnEnd(net'[CallerOf[c]], c) \/ EndInHand(c)'
  BY DEF MarkInv, HandlerOf, AnEnd, EndsOf
<1> DEFINE p == CallerOf[c]  h == HandlerOf(c)
<1>0. p \in Peers /\ h \in Peers /\ net[p] \in Seq(Packet) /\ HistoryOK
  BY Ends DEF TypeInv, TypeOK, ConnOK
<1>1. /\ ended[h][c] = 0 => ~AnEnd(net[p], c) /\ ~EndInHand(c)
      /\ Listens(c) /\ ~connClosed[h] /\ ended[h][c] # 0 => AnEnd(net[p], c) \/ EndInHand(c)
  BY DEF MarkInv
<1>2. Event(c) /\ (Listens(c)' => Listens(c))
  BY EventStep, ListensBack
<1> HIDE DEF p, h
<1>3. CASE Quiet(c)
  <2>1. net'[p] = net[p] /\ ended'[h][c] = ended[h][c] /\ (connClosed[h] => connClosed'[h])
    BY <1>0, <1>3 DEF Quiet, Still, StaysClosed, p, h
  <2> QED
    BY <1>1, <1>2, <1>3, <2>1, HandRests DEF Quiet, p, h
<1>4. CASE CallerDies(c)
  <2>1. net'[p] = net[p] /\ ended'[h][c] = ended[h][c]
    BY <1>4 DEF CallerDies, Still, p, h
  <2>2. ~Listens(c)' /\ ~EndInHand(c)'
    BY <1>4 DEF CallerDies, Listens, EndInHand
  <2> QED
    BY <1>1, <2>1, <2>2 DEF p, h
<1>5. CASE HandlerSends(c)
  <2>1. PICK e \in Packet : Sends(c, e)
    BY <1>5 DEF HandlerSends
  <2>2. net'[p] = Append(net[p], e) /\ (AnEnd(net'[p], c) <=> AnEnd(net[p], c) \/ e \in EndsOf(c))
    BY <1>0, <2>1, DueAppend DEF Sends, p
  <2>3. (e \in EndsOf(c) => ended'[h][c] # 0) /\ (e \notin EndsOf(c) => ended'[h][c] = ended[h][c])
    <3>1. ended[h][c] \in Nat /\ wrote[h][c] \in Nat
      BY <1>0, SessionAssumption DEF HistoryOK
    <3>2. SendsOther(c, e) => e \notin EndsOf(c)
      BY DEF SendsOther, EndsOf
    <3> QED
      BY <2>1, <3>1, <3>2, Apart DEF Sends, SendsData, SendsEnd, SendsOther, h
  <2>4. ended'[h][c] = 0 => ended[h][c] = 0
    BY <2>1 DEF Sends, SendsData, SendsEnd, SendsOther, h
  <2>5. (EndInHand(c)' <=> EndInHand(c)) /\ connClosed' = connClosed
    BY <1>5, HandRests DEF HandlerSends
  <2> QED
    BY <1>1, <1>2, <2>2, <2>3, <2>4, <2>5 DEF p, h
<1>6. CASE CallerServes(c)
  <2>0. ended'[h][c] = ended[h][c] /\ connClosed' = connClosed /\ ServeStep(p)
    BY <1>6 DEF CallerServes, h, p
  <2>1. CASE NextHeader(p)
    <3>1. /\ net[p] # << >> /\ net'[p] = Tail(net[p]) /\ ~EndInHand(c)
          /\ EndInHand(c)' <=> Head(net[p]) \in EndsOf(c)
      BY <2>1, HeadTaken DEF p
    <3>2. AnEnd(net[p], c) <=> Head(net[p]) \in EndsOf(c) \/ AnEnd(Tail(net[p]), c)
      BY <1>0, <3>1, DueTail
    <3> QED
      BY <1>1, <1>2, <2>0, <3>1, <3>2 DEF p, h
  <2>2. CASE ~NextHeader(p)
    <3>1. EndInHand(c)' => EndInHand(c)
      BY <2>0, <2>2, EndFromHeader DEF p
    <3>2. net'[p] = net[p] \/ (net'[p] = << >> /\ consume(p) /\ Broken(p))
      BY <1>0, <2>0, <2>2, LoopMove
    <3>3. ~AnEnd(<< >>, c)
      BY DEF AnEnd
    <3>4. ASSUME Listens(c)', ~connClosed'[h], ended'[h][c] # 0
          PROVE  AnEnd(net'[p], c) \/ EndInHand(c)'
      <4>1. Listens(c) /\ ~connClosed[h] /\ (AnEnd(net[p], c) \/ EndInHand(c))
        BY <1>1, <1>2, <2>0, <3>4
      <4>2. failed[p][c] = "nil" /\ failed'[p][c] = "nil" /\ spc'[p] # "exit"
        BY <3>4, <4>1 DEF Listens, p
      <4>3. CASE consume(p)
        <5>1. ~EndInHand(c)
          BY <4>2, <4>3, Consumes DEF p
        <5>2. ~Broken(p)
          BY <4>1 DEF Broken, Listens, HandlerOf, p, h
        <5> QED
          BY <3>2, <4>1, <5>1, <5>2
      <4>4. CASE closeStreamCancel(p)
        <5>1. net' = net /\ (cur[p].call = c => failed'[p][c] # "nil") /\ (cur[p].call # c => ~EndInHand(c))
          BY <4>4, Cancels DEF p
        <5> QED
          BY <4>1, <4>2, <5>1
      <4>5. CASE ~consume(p) /\ ~closeStreamCancel(p)
        <5>1. net'[p] = net[p] /\ (EndInHand(c)' <=> EndInHand(c))
          BY <2>0, <2>2, <4>2, <4>5, HandKept DEF p
        <5> QED
          BY <4>1, <5>1
      <4> QED
        BY <4>3, <4>4, <4>5
    <3> QED
      BY <1>1, <2>0, <3>1, <3>2, <3>3, <3>4 DEF p, h
  <2> QED
    BY <2>1, <2>2
<1> QED
  BY <1>2, <1>3, <1>4, <1>5, <1>6 DEF Event

(* The data promised to the caller is what it got, has in hand and will    *)
(* find in front of the end.                                               *)
Owed(c) == got[CallerOf[c]][c] + (IF DataInHand(c) THEN 1 ELSE 0) + Due(net[CallerOf[c]], c)

LEMMA DueStep ==
  ASSUME TypeInv, TablesInv, StrandInv, SentInv, KindInv, MarkInv, DueInv, Next
  PROVE  DueInv'
<1> SUFFICES ASSUME NEW c \in Calls
             PROVE  /\ /\ Listens(c)' /\ ~EndInHand(c)'
                       /\ ~connClosed'[HandlerOf(c)] \/ AnEnd(net'[CallerOf[c]], c)
                       => Promised(c)' = Owed(c)'
                    /\ failed'[CallerOf[c]][c] = "nil" /\ EndInHand(c)' =>
                         ended'[HandlerOf(c)][c] = 1 + got'[CallerOf[c]][c]
  BY DEF DueInv, Owed, HandlerOf, AnEnd, EndsOf
<1> DEFINE p == CallerOf[c]  h == HandlerOf(c)
<1>0. p \in Peers /\ h \in Peers /\ net[p] \in Seq(Packet) /\ StreamsOK
  BY Ends DEF TypeInv, TypeOK, ConnOK
<1>1. /\ Listens(c) /\ ~EndInHand(c) /\ (~connClosed[h] \/ AnEnd(net[p], c)) => Promised(c) = Owed(c)
      /\ failed[p][c] = "nil" /\ EndInHand(c) => ended[h][c] = 1 + got[p][c]
  BY DEF DueInv, Owed
<1>2. Event(c) /\ (Listens(c)' => Listens(c)) /\ (failed'[p][c] = "nil" => failed[p][c] = "nil")
  BY <1>0, EventStep, ListensBack, FailedStep
<1>3. got[p][c] \in Nat /\ ended[h][c] \in Nat /\ wrote[h][c] \in Nat /\ Due(net[p], c) \in Nat
  BY <1>0, DueType, SessionAssumption DEF TypeInv, TypeOK, HistoryOK
<1>4. /\ ended[h][c] = 0 => ~AnEnd(net[p], c) /\ ~EndInHand(c)
      /\ Listens(c) /\ ~connClosed[h] /\ ended[h][c] # 0 => AnEnd(net[p], c) \/ EndInHand(c)
  BY DEF MarkInv
<1>5. /\ Promised(c) = IF ended[h][c] = 0 THEN wrote[h][c] ELSE ended[h][c] - 1
      /\ Promised(c)' = IF ended'[h][c] = 0 THEN wrote'[h][c] ELSE ended'[h][c] - 1
  BY DEF Promised, HandlerOf, h
<1>6. /\ Owed(c) = got[p][c] + (IF DataInHand(c) THEN 1 ELSE 0) + Due(net[p], c)
      /\ Owed(c)' = got'[p][c] + (IF DataInHand(c)' THEN 1 ELSE 0) + Due(net'[p], c)
  BY DEF Owed, Due, Before, Data, EndsOf, p
<1> HIDE DEF p, h
<1>7. CASE Quiet(c)
  <2>1. /\ net'[p] = net[p] /\ ended'[h][c] = ended[h][c] /\ wrote'[h][c] = wrote[h][c]
        /\ got'[p][c] = got[p][c] /\ (connClosed[h] => connClosed'[h])
        /\ (EndInHand(c)' <=> EndInHand(c)) /\ (DataInHand(c)' <=> DataInHand(c))
    BY <1>0, <1>7, HandRests DEF Quiet, Still, StaysClosed, LoopRests, p, h
  <2> QED
    BY <1>1, <1>2, <1>5, <1>6, <2>1 DEF p, h
<1>8. CASE CallerDies(c)
  BY <1>8 DEF CallerDies, Listens, EndInHand
<1>9. CASE HandlerSends(c)
  <2>1. PICK e \in Packet : Sends(c, e)
    BY <1>9 DEF HandlerSends
  <2>2. /\ connClosed' = connClosed /\ got'[p][c] = got[p][c] /\ failed'[p][c] = failed[p][c]
        /\ (EndInHand(c)' <=> EndInHand(c)) /\ (DataInHand(c)' <=> DataInHand(c))
    BY <1>9, HandRests DEF HandlerSends, LoopRests, SourceRests, p
  <2>3. net'[p] = Append(net[p], e) /\ ~connClosed[h]
    BY <2>1 DEF Sends, p, h
  <2>4. Due(net'[p], c) = IF e = Data(c) /\ ~AnEnd(net[p], c) THEN Due(net[p], c) + 1 ELSE Due(net[p], c)
    BY <1>0, <2>3, DueAppend
  <2>5. ASSUME Listens(c)', ~EndInHand(c)' PROVE Promised(c)' = Owed(c)'
    <3>1. Promised(c) = Owed(c) /\ (ended[h][c] # 0 <=> AnEnd(net[p], c))
      BY <1>1, <1>2, <1>4, <2>2, <2>3, <2>5
    <3>2. CASE SendsData(c, e)
      BY <1>3, <1>5, <1>6, <2>2, <2>4, <3>1, <3>2 DEF SendsData, p, h
    <3>3. CASE SendsEnd(c, e)
      <4>1. e # Data(c)
        BY <3>3, Apart DEF SendsEnd
      <4> QED
        BY <1>3, <1>5, <1>6, <2>2, <2>4, <3>1, <3>3, <4>1 DEF SendsEnd, p, h
    <3>4. CASE SendsOther(c, e)
      <4>1. e # Data(c)
        BY <3>4 DEF SendsOther, Data
      <4> QED
        BY <1>3, <1>5, <1>6, <2>2, <2>4, <3>1, <3>4, <4>1 DEF SendsOther, p, h
    <3> QED
      BY <2>1, <3>2, <3>3, <3>4 DEF Sends
  <2>6. ASSUME failed'[p][c] = "nil", EndInHand(c)' PROVE ended'[h][c] = 1 + got'[p][c]
    <3>1. ended[h][c] = 1 + got[p][c] /\ ended[h][c] # 0
      BY <1>1, <1>4, <2>2, <2>6
    <3> QED
      BY <2>1, <2>2, <3>1 DEF Sends, SendsData, SendsEnd, SendsOther, h
  <2> QED
    BY <2>5, <2>6 DEF p, h
<1>10. CASE CallerServes(c)
  <2>0. /\ ended'[h][c] = ended[h][c] /\ wrote'[h][c] = wrote[h][c]
        /\ connClosed' = connClosed /\ ServeStep(p) /\ Promised(c)' = Promised(c)
    BY <1>5, <1>10 DEF CallerServes, h, p
  <2>1. CASE NextHeader(p)
    <3>1. /\ net[p] # << >> /\ net'[p] = Tail(net[p]) /\ ~EndInHand(c) /\ ~DataInHand(c)
          /\ (EndInHand(c)' <=> Head(net[p]) \in EndsOf(c))
          /\ (DataInHand(c)' <=> Head(net[p]) = Data(c))
          /\ failed' = failed /\ got' = got /\ ~connClosed[p]
      BY <2>1, HeadTaken DEF p
    <3>2. /\ AnEnd(net[p], c) <=> Head(net[p]) \in EndsOf(c) \/ AnEnd(Tail(net[p]), c)
          /\ Head(net[p]) \in EndsOf(c) => Due(net[p], c) = 0
          /\ Head(net[p]) \notin EndsOf(c) =>
               Due(net[p], c) = IF Head(net[p]) = Data(c) THEN Due(Tail(net[p]), c) + 1
                                ELSE Due(Tail(net[p]), c)
      BY <1>0, <3>1, DueTail
    <3>3. Due(Tail(net[p]), c) \in Nat
      <4>1. Tail(net[p]) \in Seq(Packet)
        BY <1>0, <3>1
      <4> QED
        BY <4>1, DueType
    <3>4. ASSUME failed'[p][c] = "nil", EndInHand(c)' PROVE ended'[h][c] = 1 + got'[p][c]
      <4>1. spc[p] = "read"
        BY <2>1 DEF NextHeader
      <4>2. Listens(c) /\ AnEnd(net[p], c)
        BY <3>1, <3>2, <3>4, <4>1 DEF Listens, p
      <4>3. Promised(c) = Owed(c) /\ ended[h][c] # 0
        BY <1>1, <1>4, <3>1, <4>2
      <4> QED
        BY <1>3, <1>5, <1>6, <2>0, <3>1, <3>2, <3>4, <4>3
    <3>5. ASSUME Listens(c)', ~EndInHand(c)', ~connClosed'[h] \/ AnEnd(net'[p], c)
          PROVE  Promised(c)' = Owed(c)'
      <4>1. Promised(c) = Owed(c)
        BY <1>1, <1>2, <2>0, <3>1, <3>2, <3>5
      <4> QED
        BY <1>3, <1>6, <2>0, <3>1, <3>2, <3>3, <3>5, <4>1
    <3> QED
      BY <3>4, <3>5 DEF p, h
  <2>2. CASE ~NextHeader(p)
    <3>1. EndInHand(c)' => EndInHand(c)
      BY <2>0, <2>2, EndFromHeader DEF p
    <3>2. CASE failed[p][c] = "nil" /\ consume(p)
      <4>1. /\ ~EndInHand(c) /\ ~DataInHand(c)'
            /\ \/ DataInHand(c) /\ got'[p][c] = got[p][c] + 1 /\ net' = net
               \/ ~DataInHand(c) /\ got'[p][c] = got[p][c] /\ net' = net
               \/ net'[p] = << >> /\ Broken(p)
        BY <3>2, Consumes DEF p
      <4>2. ASSUME Listens(c)', ~connClosed'[h] \/ AnEnd(net'[p], c) PROVE Promised(c)' = Owed(c)'
        <5>1. ~(net'[p] = << >> /\ Broken(p))
          BY <1>2, <2>0, <4>2 DEF Listens, Broken, AnEnd, HandlerOf, p, h
        <5>2. Promised(c) = Owed(c)
          BY <1>1, <1>2, <2>0, <4>1, <4>2, <5>1
        <5> QED
          BY <1>3, <1>6, <2>0, <4>1, <5>1, <5>2
      <4> QED
        BY <3>1, <4>1, <4>2 DEF p, h
    <3>3. CASE closeStreamCancel(p)
      <4>1. /\ net' = net /\ got' = got /\ ~EndInHand(c)' /\ ~DataInHand(c) /\ ~DataInHand(c)'
            /\ cur[p].call = c => failed'[p][c] # "nil"
            /\ cur[p].call # c => ~EndInHand(c) /\ failed'[p][c] = failed[p][c]
        BY <3>3, Cancels DEF p
      <4>2. Listens(c)' => failed'[p][c] = "nil"
        BY DEF Listens, p
      <4> QED
        BY <1>1, <1>2, <1>6, <2>0, <4>1, <4>2 DEF p, h
    <3>4. CASE failed[p][c] = "nil" /\ ~consume(p) /\ ~closeStreamCancel(p)
      <4>1. /\ net'[p] = net[p] /\ got' = got
            /\ spc'[p] # "exit" => (EndInHand(c)' <=> EndInHand(c)) /\ (DataInHand(c)' <=> DataInHand(c))
        BY <2>0, <2>2, <3>4, HandKept DEF p
      <4>2. Listens(c)' => spc'[p] # "exit"
        BY DEF Listens, p
      <4> QED
        BY <1>1, <1>2, <1>6, <2>0, <3>1, <4>1, <4>2 DEF p, h
    <3>5. CASE failed[p][c] # "nil"
      <4>1. failed'[p][c] # "nil"
        BY <1>2, <3>5
      <4> QED
        BY <4>1 DEF Listens, p
    <3> QED
      BY <3>2, <3>3, <3>4, <3>5
  <2> QED
    BY <2>1, <2>2
<1> QED
  BY <1>2, <1>7, <1>8, <1>9, <1>10 DEF Event

LEMMA CleanStep ==
  ASSUME TypeInv, TablesInv, StrandInv, SentInv, KindInv, DueInv, CleanEndIsComplete, Next
  PROVE  CleanEndIsComplete'
<1> SUFFICES ASSUME NEW c \in Calls, failed'[CallerOf[c]][c] = "EOF"
             PROVE  ended'[HandlerOf(c)][c] = 1 + got'[CallerOf[c]][c]
  BY DEF CleanEndIsComplete, HandlerOf
<1> DEFINE p == CallerOf[c]  h == HandlerOf(c)
<1>0. p \in Peers /\ CurInv /\ StreamsOK /\ HistoryOK
  BY Ends DEF TypeInv, TypeOK
<1>1. got[p][c] \in Nat /\ ended[h][c] \in Nat
  BY <1>0, Ends, SessionAssumption DEF HistoryOK
<1>2. Event(c)
  BY EventStep
<1> HIDE DEF p, h
<1>3. ended[h][c] # 0 => ended'[h][c] = ended[h][c]
  BY <1>2 DEF Event, Quiet, CallerServes, CallerDies, HandlerSends, Still, Sends, SendsData, SendsEnd,
     SendsOther, h
<1>4. CASE ~CallerServes(c)
  <2>1. failed[p][c] = "EOF" /\ got'[p][c] = got[p][c]
    BY <1>2, <1>4 DEF Event, Quiet, CallerDies, HandlerSends, LoopRests, SourceRests, SourceFails, p
  <2>2. ended[h][c] = 1 + got[p][c]
    BY <2>1 DEF CleanEndIsComplete, p, h
  <2> QED
    BY <1>1, <1>3, <2>1, <2>2 DEF p, h
<1>5. CASE CallerServes(c)
  <2>0. ServeStep(p)
    BY <1>5 DEF CallerServes, p
  <2>1. failed[p][c] = "nil" => closeStreamCancel(p)
    BY <2>0, HeadTaken, Consumes, HandKept DEF p
  <2>2. CASE failed[p][c] = "nil"
    <3>1. /\ got' = got /\ (cur[p].call # c => failed'[p][c] = failed[p][c])
          /\ serr[p] = "nil"
      BY <2>1, <2>2, Cancels DEF p
    <3>2. spc[p] = "cancel" /\ cur[p].call = c /\ cur[p] \in Packet
      BY <1>0, <2>1, <2>2, <3>1 DEF closeStreamCancel, CurInv, InWork, p
    <3>3. cur[p].kind = "ok"
      BY <1>0, <3>1, <3>2 DEF KindInv
    <3>4. EndInHand(c)
      BY <3>2, <3>3, PacketIs DEF EndInHand, EndsOf, p
    <3>5. ended[h][c] = 1 + got[p][c]
      BY <2>2, <3>4 DEF DueInv, p, h
    <3> QED
      BY <1>1, <1>3, <3>1, <3>5 DEF p, h
  <2>3. CASE failed[p][c] # "nil"
    <3>1. failed[p][c] = "EOF"
      <4>1. CASE closeStreamCancel(p)
        <5>1. cur[p].call \in Calls
          BY <1>0, <4>1 DEF closeStreamCancel, CurInv, InWork, Packet
        <5> QED
          BY <1>0, <2>3, <4>1, <5>1 DEF closeStreamCancel, sourceCancel, StreamsOK, p
      <4>2. CASE ~closeStreamCancel(p)
        BY <2>0, <4>2 DEF ServeStep, NextHeader, NextHeaderGarbage, ServeGarbage, NextHeaderEOF,
           NextHeaderFails, serveEnd, serveEndBody, closeStreamSink, closeStream, maybeDiscardPacket,
           fetchRequest, parseNewRequestFails, consume, noSuchMethod, acceptRequest, streamVars, p
      <4> QED
        BY <4>1, <4>2
    <3>2. got'[p][c] = got[p][c]
      <4>1. CASE consume(p)
        <5>1. cur[p].call \in Calls
          BY <1>0, <4>1 DEF consume, CurInv, InWork, Packet
        <5>2. \/ got' = got
              \/ failed[p][cur[p].call] = "nil" /\ got' = [got EXCEPT ![p][cur[p].call] = @ + 1]
          BY <4>1 DEF consume
        <5> QED
          BY <1>0, <2>3, <5>1, <5>2 DEF HistoryOK
      <4>2. CASE ~consume(p)
        BY <2>0, <4>2 DEF ServeStep, NextHeader, NextHeaderGarbage, ServeGarbage, NextHeaderEOF,
           NextHeaderFails, serveEnd, serveEndBody, closeStreamCancel, closeStreamSink, closeStream,
           maybeDiscardPacket, fetchRequest, parseNewRequestFails, noSuchMethod, acceptRequest, history
      <4> QED
        BY <4>1, <4>2
    <3>3. ended[h][c] = 1 + got[p][c]
      BY <3>1 DEF CleanEndIsComplete, p, h
    <3> QED
      BY <1>1, <1>3, <3>2, <3>3 DEF p, h
  <2> QED
    BY <2>2, <2>3
<1> QED
  BY <1>4, <1>5

FlowInv == SentInv /\ KindInv /\ MarkInv /\ DueInv /\ CleanEndIsComplete

LEMMA InitFlow == Init => FlowInv
<1> SUFFICES ASSUME Init PROVE FlowInv
  OBVIOUS
<1>1. ASSUME NEW c \in Calls
      PROVE  /\ net[CallerOf[c]] = << >> /\ spc[CallerOf[c]] = "read"
             /\ got[CallerOf[c]][c] = 0 /\ wrote[HandlerOf(c)][c] = 0 /\ ended[HandlerOf(c)][c] = 0
             /\ failed[CallerOf[c]][c] = "nil"
  BY Ends DEF Init, PerCall
<1>2. SentInv
  BY <1>1 DEF SentInv, About, At, InWork
<1>3. KindInv
  BY DEF Init, KindInv
<1>4. MarkInv
  BY <1>1 DEF MarkInv, AnEnd, EndInHand
<1>5. DueInv
  <2>1. ASSUME NEW c \in Calls PROVE Due(<< >>, c) = 0
    <3>1. Before(<< >>, c) = {}
      BY DEF Before
    <3> QED
      BY <3>1, FS_EmptySet DEF Due
  <2> QED
    BY <1>1, <2>1 DEF DueInv, EndInHand, DataInHand, Promised
<1>6. CleanEndIsComplete
  BY <1>1 DEF CleanEndIsComplete
<1> QED
  BY <1>2, <1>3, <1>4, <1>5, <1>6 DEF FlowInv

LEMMA FlowStutter ==
  ASSUME FlowInv, UNCHANGED vars
  PROVE  FlowInv'
<1>1. UNCHANGED <<net, connClosed, spc, cur, serr, failed, cpc, wrote, got, ended>>
  BY DEF vars, netVars, serveVars, streamVars, appVars, history
<1>2. ASSUME NEW c \in Calls
      PROVE  /\ (EndInHand(c)' <=> EndInHand(c)) /\ (DataInHand(c)' <=> DataInHand(c))
             /\ (Listens(c)' <=> Listens(c)) /\ Promised(c)' = Promised(c)
             /\ (Unsent(c)' <=> Unsent(c))
  BY <1>1 DEF EndInHand, DataInHand, Listens, Promised, Unsent, EndsOf, Data, HandlerOf
<1>4. SentInv'
  BY <1>1, <1>2 DEF FlowInv, SentInv, About, At, First
<1>5. KindInv'
  BY <1>1 DEF FlowInv, KindInv
<1>6. MarkInv'
  BY <1>1, <1>2 DEF FlowInv, MarkInv, AnEnd, EndsOf, HandlerOf
<1>7. DueInv'
  BY <1>1, <1>2 DEF FlowInv, DueInv, AnEnd, EndsOf, Due, Before, Data, HandlerOf
<1>8. CleanEndIsComplete'
  BY <1>1 DEF FlowInv, CleanEndIsComplete, HandlerOf
<1> QED
  BY <1>4, <1>5, <1>6, <1>7, <1>8 DEF FlowInv

(* A caller whose source ends with EOF has all the data the handler wrote  *)
(* before its end packet, and there was one: whatever callers, handlers,   *)
(* Terminates and crashes do, none of them passes for a clean end.         *)
THEOREM CleanEnds == Spec => []CleanEndIsComplete
<1>1. /\ TypeInv /\ TablesInv /\ StrandInv /\ FlowInv /\ [Next]_vars
      => TypeInv' /\ TablesInv' /\ StrandInv' /\ FlowInv'
  <2> SUFFICES ASSUME TypeInv, TablesInv, StrandInv, FlowInv, [Next]_vars
               PROVE  TypeInv' /\ TablesInv' /\ StrandInv' /\ FlowInv'
    OBVIOUS
  <2>1. CASE Next
    <3>1. SentInv /\ KindInv /\ MarkInv /\ DueInv /\ CleanEndIsComplete
      BY DEF FlowInv
    <3>2. SentInv' /\ KindInv'
      BY <2>1, <3>1, SentStep, KindStep
    <3>3. MarkInv' /\ DueInv'
      BY <2>1, <3>1, MarkStep, DueStep
    <3>4. CleanEndIsComplete'
      BY <2>1, <3>1, CleanStep
    <3> QED
      BY <2>1, <3>2, <3>3, <3>4, NextType, TablesStep, StrandStep DEF FlowInv
  <2>2. CASE UNCHANGED vars
    BY <2>2, NextType, TablesStutter, StrandStutter, FlowStutter
  <2> QED
    BY <2>1, <2>2
<1>2. FlowInv => CleanEndIsComplete
  BY DEF FlowInv
<1> QED
  BY <1>1, <1>2, InitType, InitTables, InitStrand, InitFlow, PTL DEF Spec

-------------------------------------------------------------------------------
(*****************************************************************************)
(* When streams end by packets and by Terminate only, the serve loops stay   *)
(* at packet boundaries and every packet finds its request.                  *)
(*****************************************************************************)

(* Callers neither cancel a source nor end the context of a call, and      *)
(* handlers do not use Request.CloseWithError: each of the three makes a   *)
(* source refuse data that is still under way.                             *)
StreamsEndByPacket ==
  "cancel" \notin CallerMay /\ "ctx" \notin CallerMay /\ "request" \notin HandlerMay

-------------------------------------------------------------------------------
Tabled(p, c) == c \in reqs[p] \cup reqsClosed[p]
OneTerminated(p) == terminated[p] \/ terminated[Other(p)]

(* The receiver of c reads no further packet.                              *)
Deaf(c) == spc[HandlerOf(c)] \in {"exit", "crashed"} \/ connClosed[HandlerOf(c)]

(* The receiver has come across the first packet of c, or never will.      *)
Known(c) == InHand(c) \/ Tabled(HandlerOf(c), c) \/ Deaf(c)

(* A packet of c in a queue with no first packet of c in front of it.      *)
Orphan(s, c) ==
  \E i \in 1 .. Len(s) :
    s[i].call = c /\ s[i].kind # "call" /\ \A j \in 1 .. i - 1 : s[j] # First(c)

(* The endpoint has the first packet of a call of the other in hand.       *)
NewInHand(p) == cur[p].kind = "call" /\ p = HandlerOf(cur[p].call)

(* No handler is on its way through Request.CloseWithError, and a          *)
(* Terminate that sweeps has marked the session.                           *)
PlainInv == \A c \in Calls : hpc[c] \in {"none", "run", "done"}
SweepInv == \A p \in Peers, w \in Terminating : term[p][w] \in {"sweep", "done"} => terminated[p]

(* A call that was made is in a table of its caller; one that was sent is  *)
(* known to the receiver, or on its way there.                             *)
MadeInv == \A c \in Calls : cpc[c] # "new" => Tabled(CallerOf[c], c)
PathInv == \A c \in Calls : ~Unsent(c) => InNet(c) \/ Known(c) \/ connClosed[CallerOf[c]]

(* The first packet of a call arrives before the others.                   *)
OrphanInv ==
  \A c \in Calls : Orphan(net[HandlerOf(c)], c) => Known(c) \/ terminated[CallerOf[c]]
KnownInv ==
  \A c \in Calls :
    LET h == HandlerOf(c) IN
    spc[h] \in InWork /\ cur[h].call = c /\ cur[h].kind # "call" =>
      Tabled(h, c) \/ terminated[CallerOf[c]]

(* A data packet that is looked up finds its request.                      *)
FetchInv ==
  \A p \in Peers :
    /\ spc[p] = "fetch" => NewInHand(p) \/ OneTerminated(p) \/ cur[p].call \in reqs[p]
    /\ spc[p] = "parse" => NewInHand(p) \/ OneTerminated(p)
    /\ spc[p] = "consume" => OneTerminated(p) \/ cur[p].call \in reqs[p]

(* A request in the table takes data, unless the loop is closing it or the *)
(* session has ended.                                                      *)
OpenInv ==
  \A p \in Peers, c \in Calls :
    /\ c \in reqs[p] => ~reqDone[p][c]
    /\ c \in reqs[p] /\ failed[p][c] # "nil" =>
         ctxDone[p] \/ spc[p] = "crashed" \/ (spc[p] \in {"sink", "forget"} /\ cur[p].call = c)
    /\ Fresh(p, c) => failed[p][c] = "nil" /\ ~reqDone[p][c]

(* The loop leaves a body unread only when the session has ended.          *)
FrameInv ==
  \A p \in Peers :
    unread[p] /\ spc[p] \in {"cancel", "sink", "forget", "read"} => ctxDone[p] \/ OneTerminated(p)

-------------------------------------------------------------------------------
(* What never goes back.                                                   *)

LEMMA FlagsStep ==
  ASSUME TypeInv, Next, NEW p \in Peers
  PROVE  /\ terminated[p] => terminated'[p]
         /\ ctxDone[p] => ctxDone'[p]
         /\ connClosed[p] => connClosed'[p]
         /\ spc[p] \in {"exit", "crashed"} => spc'[p] \in {"exit", "crashed"}
<1>0. TermOK /\ ConnOK /\ ServeOK
  BY DEF TypeInv, TypeOK
<1>1. (terminated[p] => terminated'[p]) /\ (ctxDone[p] => ctxDone'[p])
  <2>1. ASSUME NEW q \in Peers, ServeStep(q) \/ Crash(q) PROVE terminated' = terminated /\ ctxDone' = ctxDone
    BY <2>1 DEF Crash, ServeStep, NextHeader, NextHeaderGarbage, ServeGarbage, NextHeaderEOF, NextHeaderFails,
       serveEnd, serveEndBody, closeStreamCancel, closeStreamSink, closeStream, maybeDiscardPacket,
       fetchRequest, parseNewRequestFails, consume, noSuchMethod, acceptRequest, termVars
  <2>2. ASSUME NEW q \in Peers, NEW w \in Terminating, Terminate(q, w) \/ TerminateStep(q, w)
        PROVE  (terminated[p] => terminated'[p]) /\ (ctxDone[p] => ctxDone'[p])
    BY <1>0, <2>2 DEF TermOK, Terminate, TerminateStep, TerminateLock, TerminateClose, TerminateSweep, termVars
  <2>3. ASSUME NEW d \in Calls, CallerStep(d) \/ HandlerStep(d) PROVE terminated' = terminated /\ ctxDone' = ctxDone
    BY <2>3 DEF CallerStep, start, startWrite, Async, callerWrite, sinkWrite, callerClose,
       callerCancel, callerCtx, NextCtxDone, HandlerStep, HandlerCloses, handlerWrite, Return,
       handlerClose, CloseWithError, CloseWithErrorSink, CloseWithErrorForget, termVars
  <2> QED
    BY <2>1, <2>2, <2>3 DEF Next
<1>2. connClosed[p] => connClosed'[p]
  <2>1. ASSUME NEW q \in Peers, ServeStep(q) PROVE connClosed' = connClosed
    BY <2>1 DEF ServeStep, NextHeader, NextHeaderGarbage, ServeGarbage, NextHeaderEOF, NextHeaderFails,
       serveEnd, serveEndBody, closeStreamCancel, closeStreamSink, closeStream, maybeDiscardPacket,
       fetchRequest, parseNewRequestFails, consume, noSuchMethod, acceptRequest, netVars
  <2>2. ASSUME NEW q \in Peers, NEW w \in Terminating, Terminate(q, w) \/ TerminateStep(q, w) \/ Crash(q)
        PROVE  connClosed[p] => connClosed'[p]
    BY <1>0, <2>2 DEF ConnOK, Crash, Terminate, TerminateStep, TerminateLock, TerminateClose, TerminateSweep, netVars
  <2>3. ASSUME NEW d \in Calls, CallerStep(d) \/ HandlerStep(d) PROVE connClosed' = connClosed
    BY <2>3 DEF CallerStep, start, startWrite, Async, callerWrite, sinkWrite, callerClose,
       callerCancel, callerCtx, NextCtxDone, HandlerStep, HandlerCloses, handlerWrite, Return,
       handlerClose, CloseWithError, CloseWithErrorSink, CloseWithErrorForget, netVars
  <2>4. "user" \in Terminating
    BY DEF Terminating
  <2> QED
    BY <2>1, <2>2, <2>3, <2>4 DEF Next
<1>3. ServeStep(p) => spc[p] \notin {"exit", "crashed"}
  BY DEF ServeStep, NextHeader, NextHeaderGarbage, ServeGarbage, NextHeaderEOF, NextHeaderFails,
     serveEnd, serveEndBody, closeStreamCancel, closeStreamSink, closeStream, maybeDiscardPacket,
     fetchRequest, parseNewRequestFails, consume, noSuchMethod, acceptRequest, NewRequest
<1> QED
  BY <1>1, <1>2, <1>3, LoopOwner

(* A call stays in the tables, and leaves reqs in three places.            *)
LEMMA LosesStep ==
  ASSUME TypeInv, Next, NEW p \in Peers, NEW c \in Calls
  PROVE  /\ Tabled(p, c) => Tabled(p, c)'
         /\ c \in reqs[p] /\ c \notin reqs'[p] =>
              \/ closeStream(p) /\ cur[p].call = c
              \/ \E w \in Terminating : TerminateSweep(p, w, c)
              \/ hpc[c] = "forget"
<1> DEFINE Goal == /\ Tabled(p, c) => Tabled(p, c)'
                   /\ c \in reqs[p] /\ c \notin reqs'[p] =>
                        \/ closeStream(p) /\ cur[p].call = c
                        \/ \E w \in Terminating : TerminateSweep(p, w, c)
                        \/ hpc[c] = "forget"
<1>0. TablesOK
  BY DEF TypeInv, TypeOK
<1>1. ASSUME UNCHANGED tableVars PROVE Goal
  BY <1>1 DEF tableVars, Tabled
<1>2. ASSUME NEW q \in Peers, ServeStep(q) PROVE Goal
  <2>1. CASE closeStream(q)
    BY <1>0, <2>1 DEF closeStream, closeStreamForget, TablesOK, Tabled
  <2>2. ASSUME NEW d \in Calls, noSuchMethod(q, d) PROVE Goal
    <3>1. reqs' = reqs /\ (reqsClosed' = reqsClosed \/ reqsClosed' = [reqsClosed EXCEPT ![q] = @ \cup {d}])
      BY <2>2 DEF noSuchMethod
    <3> QED
      BY <1>0, <3>1 DEF TablesOK, Tabled
  <2>3. ASSUME NEW d \in Calls, acceptRequest(q, d) PROVE Goal
    <3>1. reqsClosed' = reqsClosed /\ reqs' = [reqs EXCEPT ![q] = @ \cup {d}]
      BY <2>3 DEF acceptRequest
    <3> QED
      BY <1>0, <3>1 DEF TablesOK, Tabled
  <2>4. CASE ~closeStream(q) /\ ~\E d \in Calls : noSuchMethod(q, d) \/ acceptRequest(q, d)
    BY <1>1, <1>2, <2>4 DEF ServeStep, NextHeader, NextHeaderGarbage, ServeGarbage, NextHeaderEOF,
       NextHeaderFails, serveEnd, serveEndBody, closeStreamCancel, closeStreamSink,
       maybeDiscardPacket, fetchRequest, parseNewRequestFails, consume
  <2> QED
    BY <2>1, <2>2, <2>3, <2>4
<1>3. ASSUME NEW q \in Peers, NEW w \in Terminating, Terminate(q, w) \/ TerminateStep(q, w) \/ Crash(q)
      PROVE  Goal
  <2>1. ASSUME NEW d \in Calls, TerminateSweep(q, w, d) PROVE Goal
    <3>1. /\ reqs' = [reqs EXCEPT ![q] = @ \ {d}]
          /\ reqsClosed' = [reqsClosed EXCEPT ![q] = @ \cup {d}]
      BY <2>1 DEF TerminateSweep
    <3> QED
      BY <1>0, <2>1, <3>1 DEF TablesOK, Tabled
  <2> QED
    BY <1>1, <1>3, <2>1 DEF Terminate, TerminateStep, TerminateLock, TerminateClose, Crash
<1>4. ASSUME NEW d \in Calls, CallerStep(d) PROVE Goal
  <2>1. CASE start(d)
    <3>1. reqsClosed' = reqsClosed /\ reqs' = [reqs EXCEPT ![CallerOf[d]] = @ \cup {d}]
      BY <2>1 DEF start
    <3> QED
      BY <1>0, <3>1 DEF TablesOK, Tabled
  <2>2. CASE ~start(d)
    BY <1>1, <1>4, <2>2 DEF CallerStep, startWrite, Async, callerWrite, sinkWrite, callerClose,
       callerCancel, callerCtx, NextCtxDone, tableVars
  <2> QED
    BY <2>1, <2>2
<1>5. ASSUME NEW d \in Calls, HandlerStep(d) PROVE Goal
  <2>1. CASE CloseWithErrorForget(d)
    BY <1>0, <2>1 DEF CloseWithErrorForget, closeStreamForget, TablesOK, Tabled
  <2>2. CASE ~CloseWithErrorForget(d)
    BY <1>1, <1>5, <2>2 DEF HandlerStep, HandlerCloses, handlerWrite, Return, sinkWrite, handlerClose,
       CloseWithError, CloseWithErrorSink, NextCtxDone, tableVars
  <2> QED
    BY <2>1, <2>2
<1>6. "user" \in Terminating
  BY DEF Terminating
<1> QED
  BY <1>2, <1>3, <1>4, <1>5, <1>6 DEF Next

(* A source fails in four places, and a request's context ends in three.   *)
LEMMA FailStep ==
  ASSUME TypeInv, Next, NEW p \in Peers, NEW c \in Calls, failed[p][c] = "nil", failed'[p][c] # "nil"
  PROVE  \/ closeStreamCancel(p) /\ cur[p].call = c
         \/ \E w \in Terminating : TerminateSweep(p, w, c)
         \/ callerCancel(c) \/ CloseWithError(c)
         \/ NextCtxDone(p, c)
<1> DEFINE Goal == \/ closeStreamCancel(p) /\ cur[p].call = c
                   \/ \E w \in Terminating : TerminateSweep(p, w, c)
                   \/ callerCancel(c) \/ CloseWithError(c)
                   \/ NextCtxDone(p, c)
<1>0. StreamsOK
  BY DEF TypeInv, TypeOK
<1>1. ~UNCHANGED failed
  OBVIOUS
<1>2. ASSUME NEW q \in Peers, NEW d, NEW err, sourceCancel(q, d, err) PROVE q = p /\ d = c
  <2>1. failed' = failed \/ failed' = [failed EXCEPT ![q][d] = IF err = "nil" THEN "EOF" ELSE err]
    BY <1>2 DEF sourceCancel
  <2> QED
    BY <1>0, <2>1 DEF StreamsOK
<1>3. ASSUME NEW q \in Peers, ServeStep(q) PROVE Goal
  <2>1. closeStreamCancel(q)
    BY <1>1, <1>3 DEF ServeStep, NextHeader, NextHeaderGarbage, ServeGarbage, NextHeaderEOF,
       NextHeaderFails, serveEnd, serveEndBody, closeStreamSink, closeStream, maybeDiscardPacket,
       fetchRequest, parseNewRequestFails, consume, noSuchMethod, acceptRequest, streamVars
  <2> QED
    BY <1>2, <2>1 DEF closeStreamCancel
<1>4. ASSUME NEW q \in Peers, NEW w \in Terminating, Terminate(q, w) \/ TerminateStep(q, w) \/ Crash(q)
      PROVE  Goal
  <2>1. PICK d \in Calls : TerminateSweep(q, w, d)
    BY <1>1, <1>4 DEF Terminate, TerminateStep, TerminateLock, TerminateClose, Crash, streamVars
  <2>2. q = p /\ d = c
    BY <1>2, <2>1 DEF TerminateSweep
  <2> QED
    BY <2>1, <2>2
<1>5. ASSUME NEW q \in Peers, NEW d \in Calls, NextCtxDone(q, d) PROVE Goal
  <2>1. q = p /\ d = c
    BY <1>0, <1>5 DEF NextCtxDone, StreamsOK
  <2> QED
    BY <1>5, <2>1
<1>6. ASSUME NEW d \in Calls, CallerStep(d) PROVE Goal
  <2>1. callerCancel(d) \/ NextCtxDone(CallerOf[d], d)
    BY <1>1, <1>6 DEF CallerStep, start, startWrite, Async, callerWrite, sinkWrite,
       callerClose, callerCtx, streamVars
  <2>2. callerCancel(d) => d = c
    BY <1>2, Ends DEF callerCancel
  <2> QED
    BY <1>5, <2>1, <2>2, Ends
<1>7. ASSUME NEW d \in Calls, HandlerStep(d) PROVE Goal
  <2>1. CloseWithError(d) \/ NextCtxDone(HandlerOf(d), d)
    BY <1>1, <1>7 DEF HandlerStep, HandlerCloses, handlerWrite, Return, sinkWrite,
       handlerClose, CloseWithErrorSink, CloseWithErrorForget, streamVars
  <2>2. CloseWithError(d) => d = c
    BY <1>2, Ends DEF CloseWithError
  <2> QED
    BY <1>5, <2>1, <2>2, Ends
<1>8. "user" \in Terminating
  BY DEF Terminating
<1> QED
  BY <1>3, <1>4, <1>6, <1>7, <1>8 DEF Next

LEMMA DoneStep ==
  ASSUME TypeInv, Next, NEW p \in Peers, NEW c \in Calls, ~reqDone[p][c], reqDone'[p][c]
  PROVE  \/ closeStream(p) /\ cur[p].call = c
         \/ callerCtx(c)
         \/ hpc[c] = "forget"
<1> DEFINE Goal == (closeStream(p) /\ cur[p].call = c) \/ callerCtx(c) \/ hpc[c] = "forget"
<1>0. StreamsOK
  BY DEF TypeInv, TypeOK
<1>1. ~UNCHANGED reqDone
  OBVIOUS
<1>2. ASSUME NEW q \in Peers, NEW d, reqDone' = [reqDone EXCEPT ![q][d] = TRUE] PROVE q = p /\ d = c
  BY <1>0, <1>2 DEF StreamsOK
<1>3. ASSUME NEW q \in Peers, ServeStep(q) PROVE Goal
  <2>1. closeStream(q)
    BY <1>1, <1>3 DEF ServeStep, NextHeader, NextHeaderGarbage, ServeGarbage, NextHeaderEOF,
       NextHeaderFails, serveEnd, serveEndBody, closeStreamCancel, closeStreamSink, maybeDiscardPacket,
       fetchRequest, parseNewRequestFails, consume, noSuchMethod, acceptRequest, streamVars
  <2>2. reqDone' = [reqDone EXCEPT ![q][cur[q].call] = TRUE]
    BY <2>1 DEF closeStream, closeStreamForget
  <2>3. q = p /\ cur[q].call = c
    BY <1>2, <2>2
  <2> QED
    BY <2>1, <2>3
<1>4. ASSUME NEW q \in Peers, NEW w \in Terminating, Terminate(q, w) \/ TerminateStep(q, w) \/ Crash(q)
      PROVE  FALSE
  BY <1>1, <1>4 DEF Terminate, TerminateStep, TerminateLock, TerminateClose, TerminateSweep, Crash, streamVars
<1>5. ASSUME NEW d \in Calls, CallerStep(d) PROVE Goal
  <2>1. callerCtx(d)
    BY <1>1, <1>5 DEF CallerStep, start, startWrite, Async, callerWrite, sinkWrite,
       callerClose, callerCancel, NextCtxDone, streamVars
  <2>2. reqDone' = [reqDone EXCEPT ![CallerOf[d]][d] = TRUE]
    BY <2>1 DEF callerCtx
  <2>3. d = c
    BY <1>2, <2>2, Ends
  <2> QED
    BY <2>1, <2>3
<1>6. ASSUME NEW d \in Calls, HandlerStep(d) PROVE Goal
  <2>1. CloseWithErrorForget(d)
    BY <1>1, <1>6 DEF HandlerStep, HandlerCloses, handlerWrite, Return, sinkWrite,
       handlerClose, CloseWithError, CloseWithErrorSink, NextCtxDone, streamVars
  <2>2. d = c
    BY <1>2, <2>1, Ends DEF CloseWithErrorForget, closeStreamForget
  <2> QED
    BY <2>1, <2>2 DEF CloseWithErrorForget
<1>7. "user" \in Terminating
  BY DEF Terminating
<1> QED
  BY <1>3, <1>4, <1>5, <1>6, <1>7 DEF Next

LEMMA PlainStep ==
  ASSUME TypeInv, StreamsEndByPacket, PlainInv, Next
  PROVE  PlainInv'
<1> SUFFICES ASSUME NEW c \in Calls PROVE hpc'[c] \in {"none", "run", "done"}
  BY DEF PlainInv
<1>0. AppsOK /\ hpc[c] \in {"none", "run", "done"}
  BY DEF TypeInv, TypeOK, PlainInv
<1>1. CASE hpc' = hpc
  BY <1>0, <1>1
<1>2. ASSUME NEW q \in Peers, NEW d \in Calls, acceptRequest(q, d) PROVE hpc'[c] \in {"none", "run", "done"}
  BY <1>0, <1>2 DEF acceptRequest, AppsOK
<1>3. ASSUME NEW q \in Peers, ServeStep(q), ~\E d \in Calls : acceptRequest(q, d) PROVE hpc' = hpc
  BY <1>3 DEF ServeStep, NextHeader, NextHeaderGarbage, ServeGarbage, NextHeaderEOF,
     NextHeaderFails, serveEnd, serveEndBody, closeStreamCancel, closeStreamSink, closeStream,
     maybeDiscardPacket, fetchRequest, parseNewRequestFails, consume, noSuchMethod, appVars
<1>4. ASSUME NEW q \in Peers, NEW w \in Terminating, Terminate(q, w) \/ TerminateStep(q, w) \/ Crash(q)
      PROVE  hpc' = hpc
  BY <1>4 DEF Terminate, TerminateStep, TerminateLock, TerminateClose, TerminateSweep, Crash, appVars
<1>5. ASSUME NEW d \in Calls, CallerStep(d) PROVE hpc' = hpc
  BY <1>5 DEF CallerStep, start, startWrite, Async, callerWrite, callerClose, callerCancel, callerCtx,
     NextCtxDone, appVars
<1>6. ASSUME NEW d \in Calls, HandlerStep(d) PROVE hpc'[c] \in {"none", "run", "done"}
  <2>1. ~CloseWithError(d) /\ hpc[d] \in {"none", "run", "done"}
    BY DEF StreamsEndByPacket, CloseWithError, PlainInv
  <2> QED
    BY <1>0, <1>6, <2>1 DEF HandlerStep, HandlerCloses, handlerWrite, Return, handlerClose,
       CloseWithErrorSink, CloseWithErrorForget, NextCtxDone, appVars, AppsOK
<1>7. "user" \in Terminating
  BY DEF Terminating
<1> QED
  BY <1>1, <1>2, <1>3, <1>4, <1>5, <1>6, <1>7 DEF Next

LEMMA SweepStep ==
  ASSUME TypeInv, SweepInv, Next
  PROVE  SweepInv'
<1> SUFFICES ASSUME NEW p \in Peers, NEW w \in Terminating, term'[p][w] \in {"sweep", "done"}
             PROVE  terminated'[p]
  BY DEF SweepInv
<1>0. TermOK
  BY DEF TypeInv, TypeOK
<1>1. term[p][w] \in {"sweep", "done"} => terminated'[p]
  BY FlagsStep DEF SweepInv
<1>2. ASSUME NEW q \in Peers, NEW v \in Terminating, TerminateLock(q, v) PROVE terminated'[p]
  BY <1>0, <1>1, <1>2 DEF TerminateLock, TermOK
<1>3. ASSUME NEW q \in Peers, NEW v \in Terminating, Terminate(q, v) \/ TerminateClose(q, v)
      PROVE  term[p][w] \in {"sweep", "done"}
  BY <1>0, <1>3 DEF Terminate, TerminateClose, TermOK
<1>4. ASSUME NEW q \in Peers, NEW v \in Terminating, NEW d \in Calls, TerminateSweep(q, v, d)
      PROVE  term' = term
  BY <1>4 DEF TerminateSweep, termVars
<1>5. ASSUME NEW q \in Peers, ServeStep(q) \/ Crash(q) PROVE term' = term
  BY <1>5 DEF Crash, ServeStep, NextHeader, NextHeaderGarbage, ServeGarbage, NextHeaderEOF, NextHeaderFails,
     serveEnd, serveEndBody, closeStreamCancel, closeStreamSink, closeStream, maybeDiscardPacket,
     fetchRequest, parseNewRequestFails, consume, noSuchMethod, acceptRequest, termVars
<1>6. ASSUME NEW d \in Calls, CallerStep(d) \/ HandlerStep(d) PROVE term' = term
  BY <1>6 DEF CallerStep, start, startWrite, Async, callerWrite, sinkWrite, callerClose,
     callerCancel, callerCtx, NextCtxDone, HandlerStep, HandlerCloses, handlerWrite, Return,
     handlerClose, CloseWithError, CloseWithErrorSink, CloseWithErrorForget, termVars
<1> QED
  BY <1>1, <1>2, <1>3, <1>4, <1>5, <1>6 DEF Next, TerminateStep

LEMMA MadeStep ==
  ASSUME TypeInv, MadeInv, Next
  PROVE  MadeInv'
<1> SUFFICES ASSUME NEW c \in Calls, cpc'[c] # "new" PROVE Tabled(CallerOf[c], c)'
  BY DEF MadeInv, Tabled
<1>1. CASE cpc[c] # "new"
  BY <1>1, LosesStep, Ends DEF MadeInv
<1>2. CASE cpc[c] = "new"
  BY <1>2, OpenStep DEF Tabled
<1> QED
  BY <1>1, <1>2

-------------------------------------------------------------------------------
(* The way of a call to its receiver.                                      *)

LEMMA KnownStep ==
  ASSUME TypeInv, Next, NEW c \in Calls, Known(c)
  PROVE  Known(c)'
<1> DEFINE h == HandlerOf(c)
<1>0. h \in Peers /\ ServeOK /\ TablesOK
  BY Ends DEF TypeInv, TypeOK
<1>1. Tabled(h, c) => Known(c)'
  BY <1>0, LosesStep DEF Known, Tabled, HandlerOf
<1>2. Deaf(c) => Known(c)'
  BY <1>0, FlagsStep DEF Known, Deaf, HandlerOf
<1>3. ASSUME InHand(c), ~Tabled(h, c) PROVE Known(c)'
  <2>0. spc[h] \in {"data", "fetch", "parse"} /\ cur[h] = First(c)
    BY <1>3 DEF InHand
  <2>1. CASE spc'[h] = spc[h] /\ cur'[h] = cur[h]
    BY <2>0, <2>1 DEF Known, InHand, HandlerOf, First
  <2>2. CASE spc'[h] = "crashed"
    BY <2>2 DEF Known, Deaf, HandlerOf
  <2>3. CASE ServeStep(h)
    <3>1. ~NextHeader(h)
      BY <2>0 DEF NextHeader
    <3>2. cur' = cur
      BY <1>0, <2>3, <3>1, LoopMove
    <3>3. cur[h].call = c /\ c \notin reqs[h] /\ c \notin reqsClosed[h]
      BY <1>3, <2>0 DEF First, Tabled
    <3>4. spc[h] \in {"data", "fetch"} => spc'[h] \in {"fetch", "parse", "exit"}
      BY <1>0, <2>3, <3>3 DEF ServeOK, ServeStep, NextHeader, NextHeaderGarbage, ServeGarbage,
         NextHeaderEOF, NextHeaderFails, serveEnd, serveEndBody, closeStreamCancel, closeStreamSink,
         closeStream, maybeDiscardPacket, fetchRequest, parseNewRequestFails, consume, noSuchMethod,
         acceptRequest, NewRequest, ServeGoto, ServeExit
    <3>5. ASSUME spc[h] = "parse" PROVE spc'[h] = "exit" \/ Tabled(h, c)'
      <4>1. CASE parseNewRequestFails(h)
        BY <1>0, <4>1 DEF parseNewRequestFails, ServeExit, ServeOK
      <4>2. ASSUME NEW d \in Calls, noSuchMethod(h, d) PROVE spc'[h] = "exit" \/ Tabled(h, c)'
        <5>1. d = c
          BY <2>0, <4>2 DEF noSuchMethod, NewRequest, First
        <5>2. \/ reqsClosed' = [reqsClosed EXCEPT ![h] = @ \cup {c}]
              \/ spc' = [spc EXCEPT ![h] = "exit"]
          BY <4>2, <5>1 DEF noSuchMethod, ServeExit
        <5> QED
          BY <1>0, <5>2 DEF ServeOK, TablesOK, Tabled
      <4>3. ASSUME NEW d \in Calls, acceptRequest(h, d) PROVE Tabled(h, c)'
        <5>1. d = c
          BY <2>0, <4>3 DEF acceptRequest, NewRequest, First
        <5>2. reqs' = [reqs EXCEPT ![h] = @ \cup {c}]
          BY <4>3, <5>1 DEF acceptRequest
        <5> QED
          BY <1>0, <5>2 DEF TablesOK, Tabled
      <4> QED
        BY <2>3, <3>5, <4>1, <4>2, <4>3 DEF ServeStep, NextHeader, NextHeaderGarbage, ServeGarbage,
           NextHeaderEOF, NextHeaderFails, serveEnd, serveEndBody, closeStreamCancel, closeStreamSink,
           closeStream, maybeDiscardPacket, fetchRequest, consume
    <3>6. CASE spc'[h] = "exit" \/ Tabled(h, c)'
      BY <3>6 DEF Known, Deaf, Tabled, HandlerOf
    <3>7. CASE spc'[h] \in {"fetch", "parse"}
      BY <2>0, <3>2, <3>7 DEF Known, InHand, HandlerOf, First
    <3> QED
      BY <2>0, <3>4, <3>5, <3>6, <3>7
  <2> QED
    BY <1>0, <2>1, <2>2, <2>3, LoopOwner
<1> QED
  BY <1>1, <1>2, <1>3 DEF Known
(* What may happen to the queue of the receiver of c.                      *)
QueueShape(c) ==
  LET h == HandlerOf(c) p == CallerOf[c] IN
  \/ net'[h] = net[h]
  \/ net'[h] = << >> /\ Broken(h)
  \/ NextHeader(h) /\ net'[h] = Tail(net[h])
  \/ \E e \in Packet :
       /\ ~connClosed[p] /\ net'[h] = Append(net[h], e)
       /\ e.call = c /\ e.kind # "call" => ~Unsent(c) \/ terminated[p]

LEMMA PacketWritten ==
  ASSUME ConnOK, NEW q \in Peers, NEW d \in Calls, NEW kind \in {"call", "data", "ok", "err"},
         NEW ok \in BOOLEAN, WritePacket(q, kind, d, ok), NEW c \in Calls,
         q = CallerOf[c] /\ d = c /\ kind # "call" => ~Unsent(c) \/ terminated[CallerOf[c]]
  PROVE  QueueShape(c)
<1> DEFINE e == [kind |-> kind, call |-> d]
           h == HandlerOf(c)
<1>1. e \in Packet /\ e.kind = kind /\ e.call = d
  BY DEF Packet
<1>2. h \in Peers /\ CallerOf[c] \in Peers
  BY Ends
<1>3. net'[h] # net[h] => ok /\ h = Other(q) /\ net'[h] = Append(net[h], e)
  BY <1>2, WriteShape, Zenon
<1>4. h = Other(q) => q = CallerOf[c]
  BY <1>2, OtherPeer DEF HandlerOf
<1>5. ok => ~connClosed[q]
  BY Zenon DEF WritePacket
<1> HIDE DEF e, h
<1>6. CASE net'[h] # net[h]
  <2>1. ~connClosed[CallerOf[c]] /\ net'[h] = Append(net[h], e) /\ q = CallerOf[c]
    BY <1>3, <1>4, <1>5, <1>6
  <2>2. e.call = c /\ e.kind # "call" => ~Unsent(c) \/ terminated[CallerOf[c]]
    BY <1>1, <2>1
  <2> QED
    BY <1>1, <2>1, <2>2 DEF QueueShape, h
<1>7. CASE net'[h] = net[h]
  BY <1>7 DEF QueueShape, h
<1> QED
  BY <1>6, <1>7

LEMMA CloseWritten ==
  ASSUME ConnOK, NEW q \in Peers, NEW d \in Calls, NEW err, sinkCloseWithError(q, d, err), NEW c \in Calls,
         q = CallerOf[c] /\ d = c => ~Unsent(c) \/ terminated[CallerOf[c]]
  PROVE  QueueShape(c)
<1>1. CASE net' = net
  BY <1>1 DEF QueueShape
<1>2. CASE net' # net
  <2>1. PICK ok \in BOOLEAN : WritePacket(q, IF err = "nil" THEN "ok" ELSE "err", d, ok)
    BY <1>2 DEF sinkCloseWithError
  <2> QED
    BY <2>1, PacketWritten
<1> QED
  BY <1>1, <1>2

LEMMA DataWritten ==
  ASSUME ConnOK, NEW q \in Peers, NEW d \in Calls, sinkWrite(q, d), NEW c \in Calls,
         q = CallerOf[c] /\ d = c => ~Unsent(c)
  PROVE  QueueShape(c)
<1>1. CASE net' = net
  BY <1>1 DEF QueueShape
<1>2. CASE net' # net
  <2>1. PICK ok \in BOOLEAN : WritePacket(q, "data", d, ok)
    BY <1>2 DEF sinkWrite
  <2> QED
    BY <2>1, PacketWritten
<1> QED
  BY <1>1, <1>2

LEMMA QueueStep ==
  ASSUME TypeInv, TablesInv, SentInv, SweepInv, Next, NEW c \in Calls
  PROVE  QueueShape(c)
<1>0. ConnOK /\ ServeOK /\ CurInv /\ CallerOf[c] \in Peers /\ HandlerOf(c) \in Peers /\ HandlerOf(c) # CallerOf[c]
  BY Ends DEF TypeInv, TypeOK
<1>1. CASE net' = net
  BY <1>1 DEF QueueShape
<1>2. ASSUME NEW q \in Peers, ServeStep(q), net' # net PROVE QueueShape(c)
  <2>1. CASE NextHeader(q)
    <3>1. net' = [net EXCEPT ![q] = Tail(net[q])]
      BY <2>1 DEF NextHeader
    <3> QED
      BY <1>0, <2>1, <3>1 DEF QueueShape, ConnOK
  <2>2. CASE consume(q)
    <3>1. net' = [net EXCEPT ![q] = << >>] /\ Broken(q)
      BY <1>2, <2>2 DEF consume
    <3> QED
      BY <1>0, <3>1 DEF QueueShape, ConnOK
  <2>3. CASE closeStreamSink(q)
    <3>1. spc[q] \in InWork /\ cur[q].call \in Calls
      BY <1>0, <2>3 DEF CurInv, closeStreamSink, InWork, Packet
    <3>2. q = CallerOf[c] /\ cur[q].call = c => ~Unsent(c)
      BY <3>1 DEF SentInv
    <3> QED
      BY <1>0, <2>3, <3>1, <3>2, CloseWritten DEF closeStreamSink
  <2>4. ASSUME NEW d \in Calls, noSuchMethod(q, d) PROVE QueueShape(c)
    <3>1. q # CallerOf[d]
      BY <2>4 DEF noSuchMethod, NewRequest
    <3>2. WritePacket(q, "err", d, TRUE) \/ WritePacket(q, "err", d, FALSE)
      BY <2>4, Zenon DEF noSuchMethod
    <3> QED
      BY <1>0, <3>1, <3>2, PacketWritten
  <2> QED
    BY <1>2, <2>1, <2>2, <2>3, <2>4, LoopMove
<1>3. ASSUME NEW q \in Peers, NEW w \in Terminating, Terminate(q, w) \/ TerminateStep(q, w) \/ Crash(q), net' # net
      PROVE  QueueShape(c)
  <2>1. PICK d \in Calls : TerminateSweep(q, w, d)
    BY <1>3 DEF Terminate, TerminateStep, TerminateLock, TerminateClose, Crash, netVars
  <2>2. terminated[q] /\ sinkCloseWithError(q, d, "session")
    BY <2>1 DEF TerminateSweep, SweepInv
  <2> QED
    BY <1>0, <2>2, CloseWritten
<1>4. ASSUME NEW d \in Calls, CallerStep(d), net' # net PROVE QueueShape(c)
  <2>0. CallerOf[d] \in Peers
    BY Ends
  <2>1. CASE startWrite(d)
    <3>1. PICK ok \in BOOLEAN : WritePacket(CallerOf[d], "call", d, ok)
      BY <2>1 DEF startWrite
    <3> QED
      BY <1>0, <2>0, <3>1, PacketWritten
  <2>2. CASE callerWrite(d)
    <3>1. sinkWrite(CallerOf[d], d) /\ ~Unsent(d)
      BY <2>2 DEF callerWrite, Unsent
    <3> QED
      BY <1>0, <2>0, <3>1, DataWritten
  <2>3. CASE callerClose(d)
    <3>1. PICK err : sinkCloseWithError(CallerOf[d], d, err)
      BY <2>3 DEF callerClose
    <3>2. ~Unsent(d)
      BY <2>3 DEF callerClose, Unsent
    <3> QED
      BY <1>0, <2>0, <3>1, <3>2, CloseWritten
  <2> QED
    BY <1>4, <2>1, <2>2, <2>3 DEF CallerStep, start, Async, callerCancel, callerCtx, NextCtxDone, netVars
<1>5. ASSUME NEW d \in Calls, HandlerStep(d), net' # net PROVE QueueShape(c)
  <2>0. HandlerOf(d) \in Peers /\ HandlerOf(d) # CallerOf[d]
    BY Ends
  <2>1. CASE sinkWrite(HandlerOf(d), d)
    BY <1>0, <2>0, <2>1, DataWritten
  <2>2. ASSUME NEW err, sinkCloseWithError(HandlerOf(d), d, err) PROVE QueueShape(c)
    BY <1>0, <2>0, <2>2, CloseWritten
  <2>3. ~sinkWrite(HandlerOf(d), d) => ~handlerWrite(d) /\ ~Return(d)
    BY DEF handlerWrite, Return
  <2> QED
    BY <1>5, <2>1, <2>2, <2>3 DEF HandlerStep, HandlerCloses, handlerClose, CloseWithError,
       CloseWithErrorSink, CloseWithErrorForget, NextCtxDone, netVars
<1>6. "user" \in Terminating
  BY DEF Terminating
<1> QED
  BY <1>1, <1>2, <1>3, <1>4, <1>5, <1>6 DEF Next

(* A call that is sent is on its way.                                      *)
LEMMA SendStep ==
  ASSUME TypeInv, Next, NEW c \in Calls, Unsent(c), ~Unsent(c)'
  PROVE  InNet(c)'
<1> DEFINE h == HandlerOf(c)
<1>0. ConnOK /\ AppsOK /\ CallerOf[c] \in Peers /\ h \in Peers /\ h = Other(CallerOf[c])
  BY Ends DEF TypeInv, TypeOK, HandlerOf
<1>1. cpc'[c] # cpc[c] /\ cpc'[c] \notin {"registered", "failed"}
  BY <1>0 DEF Unsent
<1>2. ASSUME NEW q \in Peers, ServeStep(q) PROVE cpc' = cpc
  BY <1>2 DEF ServeStep, NextHeader, NextHeaderGarbage, ServeGarbage, NextHeaderEOF, NextHeaderFails,
     serveEnd, serveEndBody, closeStreamCancel, closeStreamSink, closeStream, maybeDiscardPacket,
     fetchRequest, parseNewRequestFails, consume, noSuchMethod, acceptRequest, appVars
<1>3. ASSUME NEW q \in Peers, NEW w \in Terminating, Terminate(q, w) \/ TerminateStep(q, w) \/ Crash(q)
      PROVE  cpc' = cpc
  BY <1>3 DEF Terminate, TerminateStep, TerminateLock, TerminateClose, TerminateSweep, Crash, appVars
<1>4. ASSUME NEW d \in Calls, HandlerStep(d) PROVE cpc' = cpc
  BY <1>4 DEF HandlerStep, HandlerCloses, handlerWrite, Return, handlerClose, CloseWithError,
     CloseWithErrorSink, CloseWithErrorForget, NextCtxDone, appVars
<1>5. ASSUME NEW d \in Calls, CallerStep(d) PROVE startWrite(c) /\ cpc'[c] = "open"
  BY <1>0, <1>1, <1>5 DEF CallerStep, start, startWrite, Async, callerWrite, callerClose, callerCancel,
     callerCtx, NextCtxDone, appVars, AppsOK, Unsent
<1>6. "user" \in Terminating
  BY DEF Terminating
<1>7. startWrite(c) /\ cpc'[c] = "open"
  BY <1>1, <1>2, <1>3, <1>4, <1>5, <1>6 DEF Next
<1>8. WritePacket(CallerOf[c], "call", c, TRUE)
  BY <1>0, <1>7, Zenon DEF startWrite, AppsOK
<1>9. net' = [net EXCEPT ![h] = Append(net[h], First(c))]
  BY <1>0, <1>8, Zenon DEF WritePacket, First
<1>10. net[h] \in Seq(Packet) /\ First(c) \in Packet
  BY <1>0 DEF ConnOK, First, Packet
<1> HIDE DEF h
<1>11. net'[h] = Append(net[h], First(c))
  BY <1>0, <1>9 DEF ConnOK
<1>12. At(Append(net[h], First(c)), First(c))
  <2>1. Len(Append(net[h], First(c))) = Len(net[h]) + 1 /\ Len(net[h]) \in Nat
    BY <1>10
  <2>2. Append(net[h], First(c))[Len(net[h]) + 1] = First(c)
    BY <1>10
  <2>3. Len(net[h]) + 1 \in 1 .. Len(Append(net[h], First(c)))
    BY <2>1
  <2> QED
    BY <2>2, <2>3, Zenon DEF At
<1> QED
  BY <1>11, <1>12 DEF InNet, h, HandlerOf, First
LEMMA AtKeeps ==
  ASSUME NEW s \in Seq(Packet), NEW x, At(s, x)
  PROVE  /\ \A e \in Packet : At(Append(s, e), x)
         /\ s # << >> => Head(s) = x \/ At(Tail(s), x)
<1>1. PICK i \in 1 .. Len(s) : s[i] = x
  BY DEF At
<1>2. ASSUME NEW e \in Packet PROVE At(Append(s, e), x)
  <2>1. i \in 1 .. Len(Append(s, e)) /\ Append(s, e)[i] = s[i]
    OBVIOUS
  <2> QED
    BY <1>1, <2>1 DEF At
<1>3. ASSUME s # << >>, Head(s) # x PROVE At(Tail(s), x)
  <2>1. Head(s) = s[1] /\ Len(Tail(s)) = Len(s) - 1 /\ Len(s) \in Nat
    BY <1>3
  <2>2. i # 1
    BY <1>1, <1>3, <2>1
  <2>3. i - 1 \in 1 .. Len(Tail(s))
    BY <2>1, <2>2
  <2>4. Tail(s)[i - 1] = s[i]
    BY <1>3, <2>1, <2>3
  <2> QED
    BY <1>1, <2>3, <2>4 DEF At
<1> QED
  BY <1>2, <1>3

LEMMA OrphanSeq ==
  ASSUME NEW s \in Seq(Packet), NEW c
  PROVE  /\ \A e \in Packet : Orphan(Append(s, e), c) =>
              Orphan(s, c) \/ (e.call = c /\ e.kind # "call" /\ ~At(s, First(c)))
         /\ s # << >> =>
              /\ Orphan(Tail(s), c) => Orphan(s, c) \/ Head(s) = First(c)
              /\ Head(s).call = c /\ Head(s).kind # "call" => Orphan(s, c)
<1>1. ASSUME NEW e \in Packet, Orphan(Append(s, e), c), ~Orphan(s, c)
      PROVE  e.call = c /\ e.kind # "call" /\ ~At(s, First(c))
  <2>1. Len(Append(s, e)) = Len(s) + 1 /\ Len(s) \in Nat
    OBVIOUS
  <2>2. \A i \in 1 .. Len(s) + 1 : Append(s, e)[i] = IF i = Len(s) + 1 THEN e ELSE s[i]
    OBVIOUS
  <2>3. PICK i \in 1 .. Len(s) + 1 :
          /\ Append(s, e)[i].call = c /\ Append(s, e)[i].kind # "call"
          /\ \A j \in 1 .. i - 1 : Append(s, e)[j] # First(c)
    BY <1>1, <2>1 DEF Orphan
  <2>4. \A j \in 1 .. i - 1 : j \in 1 .. Len(s) /\ Append(s, e)[j] = s[j]
    BY <2>1, <2>2
  <2>5. i = Len(s) + 1
    <3>1. SUFFICES ASSUME i \in 1 .. Len(s) PROVE FALSE
      BY <2>1
    <3>2. s[i].call = c /\ s[i].kind # "call" /\ \A j \in 1 .. i - 1 : s[j] # First(c)
      BY <2>1, <2>2, <2>3, <2>4, <3>1
    <3> QED
      BY <1>1, <3>1, <3>2, Zenon DEF Orphan
  <2>6. \A j \in 1 .. Len(s) : s[j] # First(c)
    BY <2>1, <2>3, <2>4, <2>5
  <2> QED
    BY <2>1, <2>2, <2>3, <2>5, <2>6 DEF At
<1>2. ASSUME s # << >>, Orphan(Tail(s), c), Head(s) # First(c) PROVE Orphan(s, c)
  <2>1. Len(Tail(s)) = Len(s) - 1 /\ Len(s) \in Nat /\ Head(s) = s[1]
    BY <1>2
  <2>2. \A i \in 1 .. Len(s) - 1 : Tail(s)[i] = s[i + 1]
    BY <1>2
  <2>3. PICK i \in 1 .. Len(s) - 1 :
          /\ Tail(s)[i].call = c /\ Tail(s)[i].kind # "call"
          /\ \A j \in 1 .. i - 1 : Tail(s)[j] # First(c)
    BY <1>2, <2>1 DEF Orphan
  <2>4. i + 1 \in 1 .. Len(s) /\ s[i + 1].call = c /\ s[i + 1].kind # "call"
    BY <2>1, <2>2, <2>3
  <2>5. ASSUME NEW j \in 1 .. (i + 1) - 1 PROVE s[j] # First(c)
    <3>1. CASE j = 1
      BY <1>2, <2>1, <3>1
    <3>2. CASE j # 1
      <4>1. j - 1 \in 1 .. i - 1 /\ j - 1 \in 1 .. Len(s) - 1
        BY <2>1, <3>2
      <4>2. Tail(s)[j - 1] = s[(j - 1) + 1]
        BY <2>2, <4>1
      <4>3. Tail(s)[j - 1] # First(c)
        BY <2>3, <4>1
      <4>4. (j - 1) + 1 = j
        OBVIOUS
      <4> QED
        BY <4>2, <4>3, <4>4
    <3> QED
      BY <3>1, <3>2
  <2> QED
    BY <2>4, <2>5 DEF Orphan
<1>3. ASSUME s # << >>, Head(s).call = c, Head(s).kind # "call" PROVE Orphan(s, c)
  <2>1. Head(s) = s[1] /\ 1 \in 1 .. Len(s) /\ 1 .. 1 - 1 = {}
    BY <1>3
  <2> QED
    BY <1>3, <2>1, Zenon DEF Orphan
<1> QED
  BY <1>1, <1>2, <1>3

(* The receiver takes the first packet of c in hand.                       *)
LEMMA FirstTaken ==
  ASSUME TypeInv, NEW c \in Calls, NextHeader(HandlerOf(c)), Head(net[HandlerOf(c)]) = First(c)
  PROVE  Known(c)'
<1>1. ServeOK /\ HandlerOf(c) \in Peers
  BY Ends DEF TypeInv, TypeOK
<1>2. spc'[HandlerOf(c)] = "data" /\ cur'[HandlerOf(c)] = First(c)
  BY <1>1 DEF NextHeader, ServeOK, First
<1> QED
  BY <1>2 DEF Known, InHand, HandlerOf, First

LEMMA PathStep ==
  ASSUME TypeInv, TablesInv, SentInv, SweepInv, PathInv, Next
  PROVE  PathInv'
<1> SUFFICES ASSUME NEW c \in Calls, ~Unsent(c)'
             PROVE  InNet(c)' \/ Known(c)' \/ connClosed'[CallerOf[c]]
  BY DEF PathInv, Unsent
<1> DEFINE h == HandlerOf(c)  p == CallerOf[c]
<1>0. h \in Peers /\ p \in Peers /\ net[h] \in Seq(Packet) /\ Other(h) = p
  BY Ends, OtherPeer DEF TypeInv, TypeOK, ConnOK, HandlerOf
<1>1. CASE Unsent(c)
  BY <1>1, SendStep
<1>2. CASE Known(c)
  BY <1>2, KnownStep
<1>3. CASE connClosed[p]
  BY <1>0, <1>3, FlagsStep
<1>4. CASE InNet(c)
  <2>0. At(net[h], First(c)) /\ (InNet(c)' <=> At(net'[h], First(c)))
    BY <1>4 DEF InNet, HandlerOf, First
  <2>1. CASE net'[h] = net[h]
    BY <2>0, <2>1
  <2>2. CASE Broken(h)
    <3>1. connClosed[h] => Known(c)
      BY DEF Known, Deaf
    <3> QED
      BY <1>0, <1>2, <1>3, <2>2, <3>1 DEF Broken
  <2>3. CASE NextHeader(h) /\ net'[h] = Tail(net[h])
    <3>1. net[h] # << >>
      BY <2>3 DEF NextHeader
    <3> HIDE DEF h
    <3>2. Head(net[h]) = First(c) \/ At(Tail(net[h]), First(c))
      BY <1>0, <2>0, <3>1, AtKeeps
    <3> QED
      BY <2>0, <2>3, <3>2, FirstTaken DEF h
  <2>4. ASSUME NEW e \in Packet, net'[h] = Append(net[h], e) PROVE At(net'[h], First(c))
    <3> HIDE DEF h
    <3> QED
      BY <1>0, <2>0, <2>4, AtKeeps
  <2> QED
    BY <2>0, <2>1, <2>2, <2>3, <2>4, QueueStep DEF QueueShape
<1> QED
  BY <1>1, <1>2, <1>3, <1>4 DEF PathInv

LEMMA OrphanStep ==
  ASSUME TypeInv, TablesInv, SentInv, SweepInv, PathInv, OrphanInv, Next
  PROVE  OrphanInv'
<1> SUFFICES ASSUME NEW c \in Calls, Orphan(net'[HandlerOf(c)], c)
             PROVE  Known(c)' \/ terminated'[CallerOf[c]]
  BY DEF OrphanInv, Orphan, HandlerOf, Other, First
<1> DEFINE h == HandlerOf(c)  p == CallerOf[c]
<1>0. h \in Peers /\ p \in Peers /\ net[h] \in Seq(Packet)
  BY Ends DEF TypeInv, TypeOK, ConnOK
<1>1. CASE Known(c) \/ terminated[p]
  BY <1>0, <1>1, KnownStep, FlagsStep
<1>2. Orphan(net[h], c) => Known(c) \/ terminated[p]
  BY DEF OrphanInv
<1>3. CASE net'[h] = net[h]
  BY <1>1, <1>2, <1>3
<1>4. CASE net'[h] = << >>
  BY <1>4 DEF Orphan
<1>5. CASE NextHeader(h) /\ net'[h] = Tail(net[h])
  <2>1. net[h] # << >>
    BY <1>5 DEF NextHeader
  <2> HIDE DEF h
  <2>2. Orphan(net[h], c) \/ Head(net[h]) = First(c)
    BY <1>0, <1>5, <2>1, OrphanSeq DEF h
  <2> QED
    BY <1>1, <1>2, <1>5, <2>2, FirstTaken DEF h
<1>6. ASSUME NEW e \in Packet, ~connClosed[p], net'[h] = Append(net[h], e),
             e.call = c /\ e.kind # "call" => ~Unsent(c) \/ terminated[p]
      PROVE  Known(c) \/ terminated[p]
  <2>1. Orphan(Append(net[h], e), c)
    BY <1>6
  <2>2. ~At(net[h], First(c)) => ~InNet(c)
    BY DEF InNet
  <2> HIDE DEF h
  <2>3. Orphan(net[h], c) \/ (e.call = c /\ e.kind # "call" /\ ~At(net[h], First(c)))
    BY <1>0, <2>1, OrphanSeq
  <2> QED
    BY <1>2, <1>6, <2>2, <2>3 DEF PathInv
<1> QED
  BY <1>1, <1>3, <1>4, <1>5, <1>6, QueueStep DEF QueueShape

LEMMA KnownInvStep ==
  ASSUME TypeInv, OrphanInv, KnownInv, Next
  PROVE  KnownInv'
<1> SUFFICES ASSUME NEW c \in Calls, spc'[HandlerOf(c)] \in InWork,
                    cur'[HandlerOf(c)].call = c, cur'[HandlerOf(c)].kind # "call"
             PROVE  Tabled(HandlerOf(c), c)' \/ terminated'[CallerOf[c]]
  BY DEF KnownInv, Tabled, HandlerOf, Other
<1> DEFINE h == HandlerOf(c)  p == CallerOf[c]
<1>0. h \in Peers /\ p \in Peers /\ net[h] \in Seq(Packet) /\ ServeOK
  BY Ends DEF TypeInv, TypeOK, ConnOK
<1>1. CASE Tabled(h, c) \/ terminated[p]
  BY <1>0, <1>1, LosesStep, FlagsStep
<1>2. CASE cur'[h] = cur[h] /\ spc[h] \in InWork
  BY <1>1, <1>2 DEF KnownInv
<1>3. CASE NextHeader(h)
  <2>1. net[h] # << >> /\ cur'[h] = Head(net[h]) /\ spc[h] = "read" /\ ~connClosed[h]
    BY <1>0, <1>3 DEF NextHeader, ServeOK
  <2> HIDE DEF h
  <2>2. Orphan(net[h], c)
    BY <1>0, <2>1, OrphanSeq DEF h
  <2>3. ~InHand(c) /\ ~Deaf(c)
    BY <2>1 DEF InHand, Deaf, h
  <2> QED
    BY <1>1, <2>2, <2>3 DEF OrphanInv, Known, h
<1>4. "crashed" \notin InWork
  BY DEF InWork
<1> QED
  BY <1>0, <1>2, <1>3, <1>4, LoopOwner, LoopMove
-------------------------------------------------------------------------------
(* What the loop finds for the packet in hand.                             *)

LEMMA TerminatedStep ==
  ASSUME TypeInv, Next, NEW p \in Peers, OneTerminated(p)
  PROVE  OneTerminated(p)'
<1>1. Other(p) \in Peers
  BY OtherPeer
<1> QED
  BY <1>1, FlagsStep DEF OneTerminated, Other

(* A packet that is not the first of a call is of a call in a table.       *)
LEMMA FoundInTable ==
  ASSUME TypeInv, SentInv, MadeInv, KnownInv, NEW p \in Peers, spc[p] \in InWork
  PROVE  NewInHand(p) \/ OneTerminated(p) \/ Tabled(p, cur[p].call)
<1>1. PICK c \in Calls : c = cur[p].call
  BY DEF TypeInv, CurInv, Packet
<1>2. CASE p = CallerOf[c]
  <2>1. ~Unsent(c)
    BY <1>1, <1>2 DEF SentInv
  <2> QED
    BY <1>1, <1>2, <2>1 DEF MadeInv, Unsent
<1>3. CASE p # CallerOf[c]
  <2>1. p = HandlerOf(c) /\ CallerOf[c] = Other(p)
    BY <1>3, TwoEnds, Ends, OtherPeer DEF HandlerOf
  <2>2. CASE cur[p].kind = "call"
    BY <1>1, <2>1, <2>2 DEF NewInHand
  <2>3. CASE cur[p].kind # "call"
    <3>1. Tabled(p, c) \/ terminated[CallerOf[c]]
      BY <1>1, <2>1, <2>3 DEF KnownInv
    <3> QED
      BY <1>1, <2>1, <3>1 DEF OneTerminated
  <2> QED
    BY <2>2, <2>3
<1> QED
  BY <1>2, <1>3

LEMMA FetchStep ==
  ASSUME TypeInv, SentInv, KindInv, PlainInv, SweepInv, MadeInv, KnownInv, FetchInv, Next
  PROVE  FetchInv'
<1> SUFFICES ASSUME NEW p \in Peers, ~OneTerminated(p)'
             PROVE  /\ spc'[p] = "fetch" => NewInHand(p)' \/ cur'[p].call \in reqs'[p]
                    /\ spc'[p] = "parse" => NewInHand(p)'
                    /\ spc'[p] = "consume" => cur'[p].call \in reqs'[p]
  BY DEF FetchInv, NewInHand, OneTerminated, Other
<1>0. ServeOK /\ CurInv /\ ~OneTerminated(p)
  BY TerminatedStep DEF TypeInv, TypeOK
<1>1. /\ spc[p] = "fetch" => NewInHand(p) \/ cur[p].call \in reqs[p]
      /\ spc[p] = "parse" => NewInHand(p)
      /\ spc[p] = "consume" => cur[p].call \in reqs[p]
  BY <1>0 DEF FetchInv
<1>2. cur'[p] = cur[p] => (NewInHand(p)' <=> NewInHand(p))
  BY DEF NewInHand, HandlerOf, Other
<1>3. CASE spc'[p] = spc[p] /\ cur'[p] = cur[p]
  <2>1. ASSUME spc[p] \in {"fetch", "consume"}, cur[p].call \in reqs[p] PROVE cur[p].call \in reqs'[p]
    <3>1. PICK c \in Calls : c = cur[p].call
      BY <1>0, <2>1 DEF CurInv, InWork, Packet
    <3>2. ~closeStream(p)
      BY <2>1 DEF closeStream
    <3>3. ~\E w \in Terminating : TerminateSweep(p, w, c)
      BY <1>0 DEF SweepInv, TerminateSweep, OneTerminated
    <3>4. hpc[c] # "forget"
      BY DEF PlainInv
    <3> QED
      BY <2>1, <3>1, <3>2, <3>3, <3>4, LosesStep
  <2> QED
    BY <1>1, <1>2, <1>3, <2>1
<1>4. CASE ServeStep(p)
  <2>1. CASE maybeDiscardPacket(p)
    <3>1. reqs' = reqs /\ reqsClosed' = reqsClosed /\ cur' = cur
      BY <2>1 DEF maybeDiscardPacket, tableVars, ServeGoto, ServeContinue, ServeExit
    <3>2. spc'[p] \in {"fetch", "read", "exit"} /\ (spc'[p] = "fetch" => cur[p].call \notin reqsClosed[p])
      BY <1>0, <2>1 DEF maybeDiscardPacket, ServeGoto, ServeContinue, ServeExit, ServeOK
    <3>3. NewInHand(p) \/ Tabled(p, cur[p].call)
      BY <1>0, <2>1, FoundInTable DEF maybeDiscardPacket, InWork
    <3> QED
      BY <1>2, <3>1, <3>2, <3>3 DEF Tabled
  <2>2. CASE fetchRequest(p)
    <3>1. reqs' = reqs /\ cur' = cur
      BY <2>2 DEF fetchRequest, tableVars, ServeGoto
    <3>2. spc[p] = "fetch" /\ spc'[p] = IF cur[p].call \in reqs[p] THEN "consume" ELSE "parse"
      BY <1>0, <2>2 DEF fetchRequest, ServeGoto, ServeOK
    <3> QED
      BY <1>1, <1>2, <3>1, <3>2
  <2>3. CASE ~maybeDiscardPacket(p) /\ ~fetchRequest(p)
    <3>1. spc'[p] \notin {"fetch", "parse", "consume"}
      BY <1>0, <1>4, <2>3 DEF ServeOK, ServeStep, NextHeader, NextHeaderGarbage, ServeGarbage, NextHeaderEOF,
         NextHeaderFails, serveEnd, serveEndBody, closeStreamCancel, closeStreamSink, closeStream,
         parseNewRequestFails, consume, noSuchMethod, acceptRequest, ServeGoto, ServeExit, ServeContinue
    <3> QED
      BY <3>1
  <2> QED
    BY <2>1, <2>2, <2>3
<1> QED
  BY <1>3, <1>4, LoopOwner

-------------------------------------------------------------------------------
(* Requests in the table take data.                                        *)

(* A call that is still to be registered is untouched.                     *)
LEMMA FreshOpen ==
  ASSUME TypeInv, TablesInv, StreamsEndByPacket, PlainInv, OpenInv, Next,
         NEW p \in Peers, NEW c \in Calls, Fresh(p, c)
  PROVE  failed'[p][c] = "nil" /\ ~reqDone'[p][c]
<1>1. failed[p][c] = "nil" /\ ~reqDone[p][c] /\ c \notin reqs[p] /\ ~Works(p, c)
  BY DEF OpenInv, TablesInv, FreshInv
<1>2. ~NextCtxDone(p, c)
  <2>1. p = CallerOf[c] => cpc[c] = "new"
    BY DEF Fresh
  <2>2. p # CallerOf[c] => hpc[c] = "none"
    BY TwoEnds DEF TablesInv, RunsInv
  <2> QED
    BY <2>1, <2>2 DEF NextCtxDone, Reads
<1>3. ~callerCancel(c) /\ ~CloseWithError(c) /\ ~callerCtx(c) /\ hpc[c] # "forget"
  BY DEF StreamsEndByPacket, PlainInv, callerCancel, CloseWithError, callerCtx
<1>4. ~(closeStreamCancel(p) /\ cur[p].call = c) /\ ~(closeStream(p) /\ cur[p].call = c)
  BY <1>1 DEF Works, closeStreamCancel, closeStream
<1>5. ~\E w \in Terminating : TerminateSweep(p, w, c)
  BY <1>1 DEF TerminateSweep
<1> QED
  BY <1>1, <1>2, <1>3, <1>4, <1>5, FailStep, DoneStep

(* A request joins a table when it is fresh.                               *)
LEMMA JoinsFresh ==
  ASSUME TypeInv, TablesInv, Next, NEW p \in Peers, NEW c \in Calls, c \notin reqs[p], c \in reqs'[p]
  PROVE  Fresh(p, c)
<1>1. CASE start(c) /\ p = CallerOf[c]
  BY <1>1 DEF start, Fresh
<1>2. CASE acceptRequest(p, c)
  BY <1>2, ReceiveStep DEF TablesInv
<1> QED
  BY <1>1, <1>2, TableStep DEF TableShape, Kept

LEMMA OpenInvStep ==
  ASSUME TypeInv, TablesInv, StreamsEndByPacket, PlainInv, OpenInv, Next
  PROVE  OpenInv'
<1> SUFFICES ASSUME NEW p \in Peers, NEW c \in Calls
             PROVE  /\ c \in reqs'[p] => ~reqDone'[p][c]
                    /\ c \in reqs'[p] /\ failed'[p][c] # "nil" =>
                         ctxDone'[p] \/ spc'[p] = "crashed" \/ (spc'[p] \in {"sink", "forget"} /\ cur'[p].call = c)
                    /\ Fresh(p, c)' => failed'[p][c] = "nil" /\ ~reqDone'[p][c]
  BY DEF OpenInv
<1>0. ServeOK /\ TablesOK
  BY DEF TypeInv, TypeOK
<1>1. Fresh(p, c)' => failed'[p][c] = "nil" /\ ~reqDone'[p][c]
  BY FreshStep, FreshOpen DEF TablesInv
<1>2. CASE c \notin reqs[p]
  BY <1>1, <1>2, JoinsFresh, FreshOpen
<1>3. ASSUME c \in reqs[p], c \in reqs'[p] PROVE ~reqDone'[p][c]
  <2>1. ~reqDone[p][c]
    BY <1>3 DEF OpenInv
  <2>2. ~(closeStream(p) /\ cur[p].call = c)
    BY <1>0, <1>3 DEF closeStream, closeStreamForget, TablesOK
  <2>3. ~callerCtx(c) /\ hpc[c] # "forget"
    BY DEF StreamsEndByPacket, PlainInv, callerCtx
  <2> QED
    BY <2>1, <2>2, <2>3, DoneStep
<1>4. ASSUME c \in reqs[p], c \in reqs'[p], failed'[p][c] # "nil"
      PROVE  ctxDone'[p] \/ spc'[p] = "crashed" \/ (spc'[p] \in {"sink", "forget"} /\ cur'[p].call = c)
  <2>1. CASE ctxDone[p]
    BY <2>1, FlagsStep
  <2>2. CASE spc[p] = "crashed"
    BY <1>0, <2>2, CancelStep DEF Alive
  <2>3. CASE spc[p] \in {"sink", "forget"} /\ cur[p].call = c
    <3>1. ~closeStream(p)
      BY <1>0, <1>4, <2>3 DEF closeStream, closeStreamForget, TablesOK
    <3>2. CASE ServeStep(p)
      <4>1. closeStreamSink(p)
        BY <2>3, <3>1, <3>2 DEF ServeStep, NextHeader, NextHeaderGarbage, ServeGarbage, NextHeaderEOF,
           NextHeaderFails, serveEnd, serveEndBody, closeStreamCancel, maybeDiscardPacket, fetchRequest,
           parseNewRequestFails, consume, noSuchMethod, acceptRequest, NewRequest
      <4> QED
        BY <1>0, <2>3, <4>1 DEF closeStreamSink, ServeGoto, ServeOK
    <3> QED
      BY <2>3, <3>2, LoopOwner
  <2>4. CASE failed[p][c] = "nil"
    <3>1. CASE closeStreamCancel(p) /\ cur[p].call = c
      BY <1>0, <3>1 DEF closeStreamCancel, ServeGoto, ServeOK
    <3>2. ~\E w \in Terminating : TerminateSweep(p, w, c)
      BY <1>0, <1>4 DEF TerminateSweep, TablesOK
    <3>3. ~callerCancel(c) /\ ~CloseWithError(c)
      BY DEF StreamsEndByPacket, callerCancel, CloseWithError
    <3>4. CASE NextCtxDone(p, c)
      BY <1>4, <2>1, <3>4 DEF NextCtxDone, StreamCtxDone, OpenInv
    <3> QED
      BY <1>4, <2>4, <3>1, <3>2, <3>3, <3>4, FailStep
  <2> QED
    BY <1>4, <2>1, <2>2, <2>3, <2>4 DEF OpenInv
<1> QED
  BY <1>1, <1>2, <1>3, <1>4

LEMMA FrameStep ==
  ASSUME TypeInv, SentInv, KindInv, MadeInv, KnownInv, FetchInv, OpenInv, FrameInv, Next
  PROVE  FrameInv'
<1> SUFFICES ASSUME NEW p \in Peers, unread'[p], spc'[p] \in {"cancel", "sink", "forget", "read"}
             PROVE  ctxDone'[p] \/ OneTerminated(p)'
  BY DEF FrameInv, OneTerminated, Other
<1>0. ServeOK /\ CurInv
  BY DEF TypeInv, TypeOK
<1>1. CASE ctxDone[p] \/ OneTerminated(p)
  BY <1>1, FlagsStep, TerminatedStep
<1>2. CASE unread[p] /\ spc[p] \in {"cancel", "sink", "forget", "read"}
  BY <1>1, <1>2 DEF FrameInv
<1>3. CASE ServeStep(p) /\ ~(unread[p] /\ spc[p] \in {"cancel", "sink", "forget", "read"})
  <2>1. CASE serveEnd(p)
    <3>1. spc[p] = "end" /\ ~Tabled(p, cur[p].call)
      BY <1>0, <2>1 DEF serveEnd, ServeGoto, ServeContinue, ServeOK, Tabled
    <3>2. ~NewInHand(p)
      BY <3>1 DEF KindInv, NewInHand
    <3> QED
      BY <1>1, <3>1, <3>2, FoundInTable DEF InWork
  <2>2. CASE consume(p)
    <3>1. spc[p] = "consume" /\ failed[p][cur[p].call] # "nil"
      BY <1>0, <2>2 DEF consume, ServeContinue, ServeOK
    <3>2. cur[p].call \in Calls
      BY <1>0, <3>1 DEF CurInv, InWork, Packet
    <3>3. cur[p].call \in reqs[p] \/ OneTerminated(p)
      BY <3>1 DEF FetchInv
    <3> QED
      BY <1>1, <3>1, <3>2, <3>3 DEF OpenInv
  <2>3. CASE ~serveEnd(p) /\ ~consume(p)
    BY <1>0, <1>3, <2>3 DEF ServeOK, ServeStep, NextHeader, NextHeaderGarbage, ServeGarbage, NextHeaderEOF,
       NextHeaderFails, serveEndBody, closeStreamCancel, closeStreamSink, closeStream, maybeDiscardPacket,
       fetchRequest, parseNewRequestFails, noSuchMethod, acceptRequest, ServeGoto, ServeExit, ServeContinue
  <2> QED
    BY <2>1, <2>2, <2>3
<1> QED
  BY <1>2, <1>3, LoopOwner
-------------------------------------------------------------------------------
(* The theorems.                                                           *)

LEMMA InSyncStep ==
  ASSUME TypeInv, FrameInv, InSync, Next
  PROVE  InSync'
<1> SUFFICES ASSUME NEW p \in Peers, spc'[p] = "garbled" PROVE OneTerminated(p)'
  BY DEF InSync, OneTerminated, Other
<1>0. ServeOK
  BY DEF TypeInv, TypeOK
<1>1. CASE spc[p] = "garbled"
  BY <1>1, TerminatedStep DEF InSync, OneTerminated
<1>2. CASE ServeStep(p) /\ spc[p] # "garbled"
  <2>1. NextHeaderGarbage(p)
    BY <1>0, <1>2 DEF ServeOK, ServeStep, NextHeader, ServeGarbage, NextHeaderEOF, NextHeaderFails,
       serveEnd, serveEndBody, closeStreamCancel, closeStreamSink, closeStream, maybeDiscardPacket,
       fetchRequest, parseNewRequestFails, consume, noSuchMethod, acceptRequest, ServeGoto, ServeExit,
       ServeContinue
  <2>2. OneTerminated(p)
    BY <2>1 DEF NextHeaderGarbage, FrameInv
  <2> QED
    BY <2>2, TerminatedStep
<1> QED
  BY <1>1, <1>2, LoopOwner

LEMMA NoProtocolStep ==
  ASSUME TypeInv, FetchInv, InSync, NoProtocolError, Next
  PROVE  NoProtocolError'
<1> SUFFICES ASSUME NEW p \in Peers, serveRet'[p] = "protocol" PROVE OneTerminated(p)'
  BY DEF NoProtocolError, OneTerminated, Other
<1>0. ServeOK /\ CurInv
  BY DEF TypeInv, TypeOK
<1>1. CASE serveRet[p] = "protocol"
  BY <1>1, TerminatedStep DEF NoProtocolError, OneTerminated
<1>2. CASE ServeStep(p) /\ serveRet[p] # "protocol"
  <2>1. ServeGarbage(p) \/ parseNewRequestFails(p)
    BY <1>0, <1>2 DEF ServeOK, ServeStep, NextHeader, NextHeaderGarbage, NextHeaderEOF, NextHeaderFails,
       serveEnd, serveEndBody, closeStreamCancel, closeStreamSink, closeStream, maybeDiscardPacket,
       fetchRequest, consume, noSuchMethod, acceptRequest, ServeGoto, ServeExit, ServeContinue
  <2>2. CASE ServeGarbage(p)
    BY <2>2, TerminatedStep DEF ServeGarbage, InSync, OneTerminated
  <2>3. CASE parseNewRequestFails(p)
    <3>1. spc[p] = "parse" /\ (CallerOf[cur[p].call] = p \/ cur[p].kind # "call")
      BY <1>0, <1>2, <2>3 DEF parseNewRequestFails, ServeExit, ServeOK
    <3>2. cur[p].call \in Calls
      BY <1>0, <3>1 DEF CurInv, InWork, Packet
    <3>3. ~NewInHand(p)
      BY <3>1, <3>2, Ends DEF NewInHand
    <3> QED
      BY <3>1, <3>3, TerminatedStep DEF FetchInv
  <2> QED
    BY <2>1, <2>2, <2>3
<1> QED
  BY <1>1, <1>2, LoopOwner

(* The way of the packets, then what the loop makes of them.               *)
WayInv == SentInv /\ KindInv /\ PlainInv /\ SweepInv /\ MadeInv /\ PathInv /\ OrphanInv /\ KnownInv
SyncInv == WayInv /\ FetchInv /\ OpenInv /\ FrameInv /\ InSync /\ NoProtocolError

LEMMA InitSync == Init => SyncInv
<1> SUFFICES ASSUME Init PROVE SyncInv
  OBVIOUS
<1>1. ASSUME NEW p \in Peers
      PROVE  /\ net[p] = << >> /\ spc[p] = "read" /\ ~unread[p] /\ serveRet[p] = "running"
             /\ reqs[p] = {} /\ ~terminated[p]
             /\ \A w \in Terminating : term[p][w] = "idle"
             /\ \A c \in Calls : failed[p][c] = "nil" /\ ~reqDone[p][c]
  BY DEF Init, PerCall
<1>2. \A c \in Calls : cpc[c] = "new" /\ hpc[c] = "none"
  BY DEF Init
<1>3. \A c : ~About(<< >>, c) /\ ~Orphan(<< >>, c) /\ ~At(<< >>, First(c))
  BY DEF About, Orphan, At
<1>4. SentInv /\ OrphanInv /\ KnownInv
  BY <1>1, <1>3, Ends DEF SentInv, OrphanInv, KnownInv, InWork
<1>5. KindInv /\ PlainInv /\ SweepInv /\ MadeInv /\ PathInv
  BY <1>1, <1>2 DEF KindInv, PlainInv, SweepInv, MadeInv, PathInv, Unsent
<1>6. FetchInv /\ OpenInv /\ FrameInv /\ InSync /\ NoProtocolError
  BY <1>1 DEF FetchInv, OpenInv, FrameInv, InSync, NoProtocolError
<1> QED
  BY <1>4, <1>5, <1>6 DEF SyncInv, WayInv

LEMMA SyncStutter ==
  ASSUME SyncInv, UNCHANGED vars
  PROVE  SyncInv'
<1>0. UNCHANGED <<net, connClosed, spc, cur, unread, serveRet, reqs, reqsClosed, ctxDone, terminated, term>>
  BY DEF vars, netVars, serveVars, tableVars, termVars
<1>1. UNCHANGED <<serr, failed, reqDone, cpc, hpc>>
  BY DEF vars, serveVars, streamVars, appVars
<1>2. (SentInv /\ KindInv /\ PlainInv /\ SweepInv)'
  BY <1>0, <1>1 DEF SyncInv, WayInv, SentInv, About, At, First, Unsent, KindInv, PlainInv, SweepInv
<1>3. \A c \in Calls :
        /\ Known(c)' <=> Known(c)
        /\ InNet(c)' <=> InNet(c)
        /\ Unsent(c)' <=> Unsent(c)
        /\ \A p \in Peers : Tabled(p, c)' <=> Tabled(p, c)
  BY <1>0, <1>1 DEF Known, InHand, InNet, At, First, Unsent, Tabled, Deaf, HandlerOf, Other
<1>4. (MadeInv /\ PathInv)'
  BY <1>0, <1>1, <1>3, Ends DEF SyncInv, WayInv, MadeInv, PathInv
<1>5. (OrphanInv /\ KnownInv)'
  BY <1>0, <1>3, Ends DEF SyncInv, WayInv, OrphanInv, KnownInv, Orphan, First, HandlerOf, Other
<1>6. (FetchInv /\ FrameInv /\ InSync /\ NoProtocolError)'
  BY <1>0 DEF SyncInv, FetchInv, FrameInv, InSync, NoProtocolError, NewInHand, OneTerminated, HandlerOf, Other
<1>7. OpenInv'
  <2>1. \A p \in Peers, c \in Calls : Fresh(p, c)' <=> Fresh(p, c)
    BY <1>0, <1>1 DEF Fresh, InHand, InNet, At, First, Unsent, HandlerOf, Other
  <2> QED
    BY <1>0, <1>1, <2>1 DEF SyncInv, OpenInv
<1> QED
  BY <1>2, <1>4, <1>5, <1>6, <1>7 DEF SyncInv, WayInv

LEMMA SyncStep ==
  ASSUME TypeInv, TablesInv, StreamsEndByPacket, SyncInv, Next
  PROVE  SyncInv'
<1>1. SentInv' /\ KindInv' /\ PlainInv' /\ SweepInv' /\ MadeInv'
  BY SentStep, KindStep, PlainStep, SweepStep, MadeStep DEF SyncInv, WayInv
<1>2. PathInv' /\ OrphanInv' /\ KnownInv'
  BY PathStep, OrphanStep, KnownInvStep DEF SyncInv, WayInv
<1>3. FetchInv' /\ OpenInv' /\ FrameInv'
  BY FetchStep, OpenInvStep, FrameStep DEF SyncInv, WayInv
<1>4. InSync' /\ NoProtocolError'
  BY InSyncStep, NoProtocolStep DEF SyncInv
<1> QED
  BY <1>1, <1>2, <1>3, <1>4 DEF SyncInv, WayInv

LEMMA AlwaysSync ==
  ASSUME StreamsEndByPacket
  PROVE  Spec => [](InSync /\ NoProtocolError)
<1>1. Init => TypeInv /\ TablesInv /\ SyncInv
  BY InitType, InitTables, InitSync
<1>2. TypeInv /\ TablesInv /\ SyncInv /\ [Next]_vars => (TypeInv /\ TablesInv /\ SyncInv)'
  BY NextType, TablesStep, TablesStutter, SyncStep, SyncStutter
<1>3. SyncInv => InSync /\ NoProtocolError
  BY DEF SyncInv
<1> QED
  BY <1>1, <1>2, <1>3, PTL DEF Spec

(* Framing (rpc_server.go, the loop of serve): when streams end by packets *)
(* and by Terminate only, every path through the loop leaves the reader at *)
(* the start of a packet, until one side has terminated the session.       *)
THEOREM HeadersOnly == ASSUME StreamsEndByPacket PROVE Spec => []InSync
BY AlwaysSync, PTL

(* Demultiplexing (fetchRequest, maybeDiscardPacket and reqsClosed): under *)
(* the same condition no packet of a known call, however late, is taken    *)
(* for a new request, so no call ends the session of the others.           *)
THEOREM CallsDoNotClash == ASSUME StreamsEndByPacket PROVE Spec => []NoProtocolError
BY AlwaysSync, PTL
===============================================================================
