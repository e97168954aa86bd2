----------------------------- MODULE LegacyStream -----------------------------
(***************************************************************************)
(* The types of what travels on a stream: SetEncoding and the flags of a   *)
(* ByteSink (stream2_sink.go, request.go, codec/packet.go), the luigi      *)
(* adapters that set and read them (stream2_legacy.go, stream.go), and the *)
(* answer to an async call, which its caller decodes by the encoding it    *)
(* asked for (rpc_client.go).  A packet goes one way, from one sink of a    *)
(* call to the source at the other side; Session has both ways and the     *)
(* packets of other calls.                                                 *)
(***************************************************************************)
EXTENDS Naturals, Sequences

CONSTANTS
  Encodings, \* the encodings calls are made with
  Pours,     \* what applications send: a subset of DOMAIN Sends
  Mixed,     \* may a stream carry values of other encodings than its call's?
  MaxPours,  \* bound: values an application sends
  MaxEnds    \* bound: ends a sink sends

ASSUME LegacyStreamAssumption ==
  /\ Encodings \subseteq {"binary", "string", "json"} /\ Mixed \in BOOLEAN
  /\ MaxPours \in Nat /\ MaxEnds \in Nat

VARIABLES
  kind,     \* the type of the call
  by,       \* whose sink it is
  re,       \* the encoding the call was made with
  flag,     \* bs.pkt.Flag of the sink
  closed,   \* is bs.closed set?
  ends,     \* ends sent
  wire,     \* packets on their way
  hdrFlag,  \* bs.hdrFlag of the source
  store,    \* bodies in the store of the source
  failed,   \* is the source at its end?
  branch,   \* what Next has decided to decode as, "none" outside Next
  poured,   \* history: the encodings of the values sent
  decoded   \* history: what the receiver made of them

callVars == <<kind, by, re>>
sinkVars == <<callVars, flag, closed, ends, poured>>
sourceVars == <<hdrFlag, store, failed, branch, decoded>>
vars == <<sinkVars, wire, sourceVars>>

(* How an application sends a value: Pour of a []byte, a string, a         *)
(* json.RawMessage, another value, one that json cannot encode; Write on   *)
(* the sink after SetEncoding; Return of a string, a value or a []byte,    *)
(* which Return gives to json.  native is the encoding the value is meant  *)
(* to have, enc the one its body is in, sets what SetEncoding is told.     *)
Sent(native, enc, sets) == [native |-> native, enc |-> enc, sets |-> sets]
Sends ==
  [pourBytes   |-> Sent("binary", "binary", "none"),  pourString  |-> Sent("string", "string", "string"),
   pourRaw     |-> Sent("json", "json", "json"),      pourValue   |-> Sent("json", "json", "json"),
   pourBad     |-> Sent("json", "none", "json"),
   writeBinary |-> Sent("binary", "binary", "binary"), writeString |-> Sent("string", "string", "string"),
   writeJSON   |-> Sent("json", "json", "json"),
   returnString |-> Sent("string", "string", "string"), returnValue |-> Sent("json", "json", "json"),
   returnBytes |-> Sent("binary", "json", "json")]
Returns == {"returnString", "returnValue", "returnBytes"}

asCodecFlag(e) == {e} \cap {"string", "json"}

async == kind = "async"

(* A caller's sink begins with the encoding of the call, and the stream    *)
(* bit of a sink or duplex call; a handler's with the stream bit of the    *)
(* packet that made the call.                                              *)
Init ==
  /\ kind \in {"async", "source", "sink", "duplex"} /\ by \in {"caller", "handler"}
  /\ re \in Encodings
  /\ flag = IF by = "caller"
            THEN asCodecFlag(re) \cup (IF kind \in {"sink", "duplex"} THEN {"stream"} ELSE {})
            ELSE IF async THEN {} ELSE {"stream"}
  /\ closed = FALSE /\ ends = 0 /\ wire = << >>
  /\ hdrFlag = {} /\ store = << >> /\ failed = FALSE /\ branch = "none"
  /\ poured = << >> /\ decoded = << >>

-------------------------------------------------------------------------------
(* The sink.  SetEncoding only ever clears the JSON bit.                   *)

SetEncoding_Assigns(e) == IF e = "none" THEN flag ELSE asCodecFlag(e)

SetEncoding(e) ==
  IF e = "none" THEN flag
  ELSE (IF e = "binary" THEN flag \ {"json"} ELSE flag) \cup asCodecFlag(e)

(* Whether an application has the sink: the other sinks of a call are only *)
(* there to end it.                                                        *)
Speaks == kind \in IF by = "caller" THEN {"sink", "duplex"} ELSE {"async", "source", "duplex"}

(* What it sends: a stream's values are of the encoding of the call unless *)
(* Mixed; an async call is answered once.                                  *)
MaySend(k) ==
  /\ Speaks /\ k \in Pours /\ Len(poured) < (IF async THEN 1 ELSE MaxPours)
  /\ k \in Returns => async
  /\ Mixed \/ Sends[k].native = re

(* A sink that was closed without an error can still be written to.        *)
Pour(k) ==
  LET s == Sends[k] IN
  /\ MaySend(k) /\ ~closed
  /\ flag' = SetEncoding(s.sets)
  /\ IF s.enc = "none" THEN UNCHANGED <<wire, poured>>
     ELSE /\ wire' = Append(wire, [flag |-> SetEncoding(s.sets), native |-> s.native, enc |-> s.enc])
          /\ poured' = Append(poured, s.native)
  /\ UNCHANGED <<callVars, closed, ends, sourceVars>>

EndPacket ==
  [flag |-> {"json", "enderr"} \cup (flag \cap {"stream"}), native |-> "none", enc |-> "none"]

(* By the application, closeStream or Terminate.  Only an error sets       *)
(* bs.closed, since the select returns before the assignment at the end of *)
(* the function: after a clean close the next one sends another end.       *)
CloseWithError(err) ==
  /\ ~closed /\ ends < MaxEnds
  /\ closed' = (err # "nil")
  /\ ends' = ends + 1
  /\ wire' = Append(wire, EndPacket)
  /\ UNCHANGED <<callVars, flag, poured, sourceVars>>

-------------------------------------------------------------------------------
(* The serve loop of the receiver: a frame, or the end.                    *)

consume_ForgetsFlag ==
  /\ wire # << >> /\ "enderr" \notin Head(wire).flag
  /\ wire' = Tail(wire)
  /\ store' = IF failed THEN store ELSE Append(store, Head(wire))
  /\ UNCHANGED <<sinkVars, hdrFlag, failed, branch, decoded>>

consume ==
  /\ wire # << >> /\ "enderr" \notin Head(wire).flag
  /\ wire' = Tail(wire)
  /\ IF failed THEN UNCHANGED <<hdrFlag, store>>
     ELSE hdrFlag' = Head(wire).flag /\ store' = Append(store, Head(wire))
  /\ UNCHANGED <<sinkVars, failed, branch, decoded>>

closeStream ==
  /\ wire # << >> /\ "enderr" \in Head(wire).flag
  /\ wire' = Tail(wire) /\ failed' = TRUE
  /\ UNCHANGED <<sinkVars, hdrFlag, store, branch, decoded>>

-------------------------------------------------------------------------------
(* The receiver: streamSource.Next tests hdrFlag, without bs.mu, and reads *)
(* a frame in a second step; Async goes by the encoding it was given.      *)

TypeOf(f) ==
  IF "json" \in f THEN "json" ELSE IF "string" \in f THEN "string" ELSE "binary"

Next_Decides ==
  /\ branch = "none" /\ store # << >>
  /\ branch' = IF async THEN re ELSE TypeOf(hdrFlag)
  /\ UNCHANGED <<sinkVars, wire, hdrFlag, store, failed, decoded>>

(* The json decoder refuses what is not json; text and bytes are taken as  *)
(* they are, whatever they were.                                           *)
Decoded(b, body) ==
  IF b = "json" /\ body.enc # "json" THEN "error"
  ELSE IF b = body.enc /\ b = body.native THEN b ELSE "garbled"

Next_Reads ==
  /\ branch # "none"
  /\ decoded' = Append(decoded, Decoded(branch, Head(store)))
  /\ store' = Tail(store) /\ branch' = "none"
  /\ UNCHANGED <<sinkVars, wire, hdrFlag, failed>>

Next ==
  \/ \E k \in DOMAIN Sends : Pour(k)
  \/ \E err \in {"nil", "err"} : CloseWithError(err)
  \/ consume \/ closeStream
  \/ Next_Decides \/ Next_Reads

Spec == Init /\ [][Next]_vars

-------------------------------------------------------------------------------
(* Properties.                                                             *)

(* A value of a stream of one encoding comes out as what went in, though   *)
(* the flag that tells its type is that of the latest frame, not its own.  *)
DecodedAsSent ==
  \A i \in 1 .. Len(decoded) : decoded[i] = poured[i]

(* "each write into a muxrpc packet for that stream with the correct flags *)
(* set" (stream2_sink.go): the type bits of a packet tell its encoding,    *)
(* and the stream bit is on every packet of a stream and none of an async  *)
(* call, for which a peer takes one without it.  One sink is outside this: *)
(* that of the caller of a source has no stream bit, and so the end it     *)
(* answers with has none.                                                  *)
FlagsTellType ==
  \A i \in 1 .. Len(wire) :
    /\ wire[i].enc # "none" => wire[i].flag \cap {"string", "json"} = {wire[i].enc} \ {"binary"}
    /\ "stream" \in wire[i].flag <=> ~async /\ ~(kind = "source" /\ by = "caller")

(* "flag is known at creation tyme and doesnt change other then end"       *)
(* (stream2_legacy.go): a frame is decoded by the flag it came with.       *)
DecodedByItsFlag ==
  branch # "none" /\ ~async => branch = TypeOf(Head(store).flag)
===============================================================================
