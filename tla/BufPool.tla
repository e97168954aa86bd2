------------------------------- MODULE BufPool --------------------------------
(***************************************************************************)
(* The buffer pool of a session (rpc.bpool) and who uses its buffers: the  *)
(* store of every ByteSource, taken in newByteSource and given back by a   *)
(* Next that is false, and the buffer into which serve reads the body of   *)
(* an end packet, which it gives back before it parses the body.  Next and *)
(* Bytes of a reader are one step each; ByteSource has their insides.      *)
(***************************************************************************)
EXTENDS Naturals, Sequences

CONSTANTS
  Streams,   \* the streams of the session, each with one reader
  MaxFrames, \* bound: frames that arrive on a stream
  MaxPuts    \* bound: how often the Next of one reader gives its store back

ASSUME BufPoolAssumption == MaxFrames \in Nat /\ MaxPuts \in Nat

VARIABLES
  pool,      \* buffers that are free, in the order they came back
  nbuf,      \* buffers allocated; they are 1 .. nbuf
  content,   \* content[b]: what was written to buffer b and not read
  array,     \* array[b]: what its memory begins with, read or not
  store,     \* store[s]: bs.buf.store, 0 before newByteSource
  sent,      \* sent[s]: frames consumed; they are <<s, 1>>, <<s, 2>> ...
  frames,    \* frames[s]: bs.buf.frames
  failed,    \* failed[s]: bs.failed is set
  puts,      \* puts[s]: how often the reader's Next has given store[s] back
  serve,     \* [at, stream, buf]: the end packet that serve works on
  delivered, \* history: delivered[s], what Bytes returned
  parsed     \* history: parsed[s], the end bodies parsed for s

poolVars == <<pool, nbuf, content, array>>
streamVars == <<store, sent, frames, failed>>
readerVars == <<puts, delivered>>
vars == <<poolVars, streamVars, readerVars, serve, parsed>>

Loop == [at |-> "loop", stream |-> "none", buf |-> 0]
EndBody(s) == <<s, 0>>

Init ==
  /\ pool = << >> /\ nbuf = 0 /\ content = << >> /\ array = << >>
  /\ store = [s \in Streams |-> 0] /\ sent = [s \in Streams |-> 0]
  /\ frames = [s \in Streams |-> 0] /\ failed = [s \in Streams |-> FALSE]
  /\ puts = [s \in Streams |-> 0]
  /\ serve = Loop
  /\ delivered = [s \in Streams |-> << >>] /\ parsed = [s \in Streams |-> {}]

-------------------------------------------------------------------------------
(* bufpool: Get takes the buffer at the head or makes one; Put empties the *)
(* buffer and keeps it, with its memory as it is.                          *)

Got == IF pool = << >> THEN nbuf + 1 ELSE Head(pool)

Get ==
  \/ pool # << >> /\ pool' = Tail(pool) /\ UNCHANGED <<nbuf, content, array>>
  \/ /\ pool = << >> /\ UNCHANGED pool
     /\ nbuf' = nbuf + 1
     /\ content' = Append(content, << >>) /\ array' = Append(array, << >>)

Put(b) ==
  /\ pool' = Append(pool, b)
  /\ content' = [content EXCEPT ![b] = << >>]
  /\ UNCHANGED <<nbuf, array>>

Write(b, item) ==
  /\ content' = [content EXCEPT ![b] = Append(@, item)]
  /\ array' = IF content[b] = << >> THEN [array EXCEPT ![b] = item] ELSE array
  /\ UNCHANGED <<pool, nbuf>>

-------------------------------------------------------------------------------
(* A call is started, here or by the remote.                               *)
newByteSource(s) ==
  /\ store[s] = 0
  /\ store' = [store EXCEPT ![s] = Got]
  /\ Get
  /\ UNCHANGED <<sent, frames, failed, readerVars, serve, parsed>>

(* The serve loop.                                                         *)
consume(s) ==
  /\ serve.at = "loop" /\ store[s] # 0 /\ ~failed[s] /\ sent[s] < MaxFrames
  /\ Write(store[s], <<s, sent[s] + 1>>)
  /\ sent' = [sent EXCEPT ![s] = @ + 1] /\ frames' = [frames EXCEPT ![s] = @ + 1]
  /\ UNCHANGED <<store, failed, readerVars, serve, parsed>>

ServeEnd_PutsFirst(s) ==
  /\ serve.at = "loop" /\ store[s] # 0 /\ parsed[s] = {}
  /\ pool' = IF pool = << >> THEN <<Got>> ELSE Append(Tail(pool), Got)
  /\ nbuf' = IF pool = << >> THEN nbuf + 1 ELSE nbuf
  /\ content' = IF pool = << >> THEN Append(content, << >>) ELSE content
  /\ array' = IF pool = << >> THEN Append(array, << >>) ELSE array
  /\ serve' = [at |-> "read", stream |-> s, buf |-> Got]
  /\ UNCHANGED <<streamVars, readerVars, parsed>>

ServeEnd(s) ==
  /\ serve.at = "loop" /\ store[s] # 0 /\ parsed[s] = {}
  /\ Get
  /\ serve' = [at |-> "read", stream |-> s, buf |-> Got]
  /\ UNCHANGED <<streamVars, readerVars, parsed>>

ReadBodyInto ==
  /\ serve.at = "read"
  /\ Write(serve.buf, EndBody(serve.stream))
  /\ serve' = [serve EXCEPT !.at = "put"]
  /\ UNCHANGED <<streamVars, readerVars, parsed>>

ServePut ==
  /\ serve.at = "put"
  /\ Put(serve.buf)
  /\ serve' = [serve EXCEPT !.at = "parse"]
  /\ UNCHANGED <<streamVars, readerVars, parsed>>

(* isTrue or parseError on the memory of the buffer, then closeStream.     *)
ServeParse_Puts ==
  /\ serve.at = "parse" /\ store[serve.stream] # 0
  /\ parsed' = [parsed EXCEPT ![serve.stream] = @ \cup {array[serve.buf]}]
  /\ failed' = [failed EXCEPT ![serve.stream] = TRUE]
  /\ Put(store[serve.stream])
  /\ serve' = Loop
  /\ UNCHANGED <<store, sent, frames, readerVars>>

ServeParse ==
  /\ serve.at = "parse"
  /\ parsed' = [parsed EXCEPT ![serve.stream] = @ \cup {array[serve.buf]}]
  /\ failed' = [failed EXCEPT ![serve.stream] = TRUE]
  /\ serve' = Loop
  /\ UNCHANGED <<poolVars, store, sent, frames, readerVars>>

-------------------------------------------------------------------------------
(* Terminate or a user cancels; the reader iterates.  A Next that is false *)
(* after its select leaves all of this as it is.                           *)
Cancel(s) ==
  /\ store[s] # 0 /\ ~failed[s]
  /\ failed' = [failed EXCEPT ![s] = TRUE]
  /\ UNCHANGED <<poolVars, store, sent, frames, readerVars, serve, parsed>>

Bytes(s) ==
  /\ store[s] # 0 /\ frames[s] > 0 /\ content[store[s]] # << >>
  /\ delivered' = [delivered EXCEPT ![s] = Append(@, Head(content[store[s]]))]
  /\ content' = [content EXCEPT ![store[s]] = Tail(@)]
  /\ frames' = [frames EXCEPT ![s] = @ - 1]
  /\ UNCHANGED <<pool, nbuf, array, store, sent, failed, puts, serve, parsed>>

(* Next is false at its first check: the store goes back, each time.       *)
NextPuts(s) ==
  /\ store[s] # 0 /\ failed[s] /\ frames[s] = 0 /\ puts[s] < MaxPuts
  /\ Put(store[s])
  /\ puts' = [puts EXCEPT ![s] = @ + 1]
  /\ UNCHANGED <<streamVars, delivered, serve, parsed>>

Next ==
  \/ \E s \in Streams :
       \/ newByteSource(s) \/ consume(s) \/ ServeEnd(s)
       \/ Cancel(s) \/ Bytes(s) \/ NextPuts(s)
  \/ ReadBodyInto \/ ServePut \/ ServeParse

Spec == Init /\ [][Next]_vars

-------------------------------------------------------------------------------
(* Properties.                                                             *)

InUse(s) == store[s] # 0 /\ puts[s] = 0

(* A buffer has one owner: the store of a stream that did not give it back *)
(* is nobody else's, neither free, nor another store, nor serve's, and no  *)
(* buffer is free twice.  It takes readers that do not ask again once Next *)
(* has given their store back (MaxPuts = 1).                               *)
OneOwner ==
  /\ \A s \in Streams : InUse(s) =>
       /\ \A i \in 1 .. Len(pool) : pool[i] # store[s]
       /\ \A t \in Streams \ {s} : InUse(t) => store[t] # store[s]
       /\ serve.at \in {"read", "put"} => serve.buf # store[s]
  /\ \A i, j \in 1 .. Len(pool) : pool[i] = pool[j] => i = j

(* A reader gets the frames of its own stream, in order: "it just reads    *)
(* plain []bytes, one per muxrpc packet" (stream2_source.go).  And the end *)
(* body that serve parses, in a buffer it has already given back, is that  *)
(* of the stream it ends, since only serve writes to buffers.              *)
OwnFrames ==
  \A s \in Streams :
    /\ \A i \in 1 .. Len(delivered[s]) : delivered[s][i] = <<s, i>>
    /\ parsed[s] \subseteq {EndBody(s)}
===============================================================================
