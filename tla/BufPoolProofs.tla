---------------------------- MODULE BufPoolProofs -----------------------------
(***************************************************************************)
(* Theorems about BufPool, for any streams and any number of frames, when  *)
(* no reader asks again after its store went back (MaxPuts = 1): every     *)
(* buffer has one owner, and readers and serve find in their buffers what  *)
(* was written there for them.                                             *)
(***************************************************************************)
EXTENDS BufPool, Integers, SequenceTheorems, TLAPS

-------------------------------------------------------------------------------
(* The inductive invariant.                                                *)

Items == (Streams \X Nat) \cup {<< >>}

Buffers == 1 .. nbuf

Types ==
  /\ nbuf \in Nat
  /\ pool \in Seq(Nat)
  /\ content \in Seq(Seq(Items)) /\ Len(content) = nbuf
  /\ array \in Seq(Items) /\ Len(array) = nbuf
  /\ store \in [Streams -> Nat]
  /\ sent \in [Streams -> Nat]
  /\ frames \in [Streams -> Nat]
  /\ puts \in [Streams -> Nat]
  /\ serve \in [at : {"loop", "read", "put", "parse"}, stream : Streams \cup {"none"}, buf : Nat]
  /\ delivered \in [Streams -> Seq(Items)]
  /\ failed \in [Streams -> BOOLEAN]
  /\ parsed \in [Streams -> SUBSET Items]

Free(b) == \E i \in 1 .. Len(pool) : pool[i] = b

(* Free buffers are empty, and none is free twice.                         *)
PoolInv ==
  /\ \A i \in 1 .. Len(pool) : pool[i] \in Buffers /\ content[pool[i]] = << >>
  /\ \A i, j \in 1 .. Len(pool) : pool[i] = pool[j] => i = j

(* Only a failed stream has given its store back, so consume never writes  *)
(* to a store that was given back.                                         *)
StoreInv ==
  \A s \in Streams :
    /\ store[s] \in 0 .. nbuf
    /\ puts[s] # 0 => failed[s] /\ frames[s] = 0
    /\ store[s] = 0 => sent[s] = 0 /\ delivered[s] = << >>
    /\ InUse(s) =>
         /\ ~Free(store[s])
         /\ \A t \in Streams \ {s} : InUse(t) => store[t] # store[s]

(* The buffer that serve holds is nobody else's until serve gives it back, *)
(* and from the read to the parse its memory is the end body.              *)
ServeInv ==
  /\ serve.at # "loop" => serve.stream \in Streams /\ serve.buf \in Buffers
  /\ serve.at \in {"read", "put"} =>
       ~Free(serve.buf) /\ \A s \in Streams : InUse(s) => store[s] # serve.buf
  /\ serve.at = "read" => content[serve.buf] = << >>
  /\ serve.at \in {"put", "parse"} => array[serve.buf] = EndBody(serve.stream)

(* A store holds the frames of its stream that were not delivered.         *)
Holds(s, b) ==
  /\ Len(delivered[s]) + Len(content[b]) = sent[s]
  /\ \A i \in 1 .. Len(content[b]) : content[b][i] = <<s, Len(delivered[s]) + i>>

ContentInv == \A s \in Streams : InUse(s) => Holds(s, store[s])

IInv == Types /\ PoolInv /\ StoreInv /\ ServeInv /\ ContentInv /\ OwnFrames

-------------------------------------------------------------------------------
(* The three operations on buffers.                                        *)

LEMMA EmptyIsSeq == ASSUME NEW S PROVE << >> \in Seq(S)
OBVIOUS

(* Get hands out an empty buffer that is new or was free, and that is free *)
(* no longer; all other buffers are as before.                             *)
LEMMA GetFacts ==
  ASSUME Types, PoolInv, Get
  PROVE  /\ nbuf' \in Nat /\ nbuf <= nbuf' /\ Got \in 1 .. nbuf' /\ pool' \in Seq(Nat)
         /\ content' \in Seq(Seq(Items)) /\ Len(content') = nbuf'
         /\ array' \in Seq(Items) /\ Len(array') = nbuf'
         /\ \A b \in Buffers : content'[b] = content[b] /\ array'[b] = array[b]
         /\ content'[Got] = << >>
         /\ PoolInv'
         /\ \A b : Free(b)' => Free(b)
         /\ \A i \in 1 .. Len(pool') : pool'[i] # Got
         /\ Got \in Buffers => Free(Got)
<1>1. CASE pool # << >>
  <2>1. /\ pool' = Tail(pool) /\ Got = Head(pool)
        /\ nbuf' = nbuf /\ content' = content /\ array' = array
    BY <1>1 DEF Get, Got
  <2>2. pool \in Seq(Nat) /\ Len(pool) \in Nat /\ Len(pool) > 0 /\ Head(pool) = pool[1]
    BY <1>1 DEF Types
  <2>3. /\ pool' \in Seq(Nat) /\ Len(pool') = Len(pool) - 1
        /\ \A i \in 1 .. Len(pool') : pool'[i] = pool[i + 1]
    BY <1>1, <2>1, <2>2, HeadTailProperties
  <2>4. \A i \in 1 .. Len(pool') : i + 1 \in 1 .. Len(pool) /\ i + 1 # 1
    BY <2>2, <2>3
  <2>5. Got \in Buffers /\ content[Got] = << >> /\ Free(Got)
    BY <2>1, <2>2 DEF PoolInv, Free
  <2>6. PoolInv'
    BY <2>1, <2>2, <2>3, <2>4 DEF PoolInv, Buffers
  <2>7. (\A b : Free(b)' => Free(b)) /\ \A i \in 1 .. Len(pool') : pool'[i] # Got
    BY <2>1, <2>2, <2>3, <2>4 DEF PoolInv, Free
  <2> QED
    BY <2>1, <2>3, <2>5, <2>6, <2>7 DEF Types, Buffers
<1>2. CASE pool = << >>
  <2>1. /\ pool' = pool /\ Got = nbuf + 1 /\ nbuf' = nbuf + 1
        /\ content' = Append(content, << >>) /\ array' = Append(array, << >>)
    BY <1>2 DEF Get, Got
  <2>2. /\ nbuf \in Nat
        /\ content \in Seq(Seq(Items)) /\ Len(content) = nbuf
        /\ array \in Seq(Items) /\ Len(array) = nbuf
    BY DEF Types
  <2>3. << >> \in Seq(Items) /\ << >> \in Items
    BY EmptyIsSeq DEF Items
  <2>4. /\ content' \in Seq(Seq(Items)) /\ Len(content') = nbuf'
        /\ (\A b \in Buffers : content'[b] = content[b]) /\ content'[nbuf + 1] = << >>
    BY <2>1, <2>2, <2>3, AppendProperties DEF Buffers
  <2>5. /\ array' \in Seq(Items) /\ Len(array') = nbuf'
        /\ \A b \in Buffers : array'[b] = array[b]
    BY <2>1, <2>2, <2>3, AppendProperties DEF Buffers
  <2>6. (\A b : ~Free(b)') /\ \A i \in 1 .. Len(pool') : pool'[i] # Got
    BY <1>2, <2>1 DEF Free
  <2>7. PoolInv'
    BY <1>2, <2>1 DEF PoolInv
  <2>8. nbuf + 1 \in Nat /\ nbuf <= nbuf + 1 /\ nbuf + 1 \in 1 .. nbuf + 1 /\ nbuf + 1 \notin 1 .. nbuf
    BY <2>2
  <2> QED
    BY <2>1, <2>4, <2>5, <2>6, <2>7, <2>8 DEF Types, Buffers
<1> QED
  BY <1>1, <1>2

(* Put empties a buffer and makes it free; all others are as before.       *)
LEMMA PutFacts ==
  ASSUME Types, PoolInv, NEW b \in Buffers, ~Free(b), Put(b)
  PROVE  /\ nbuf' = nbuf /\ array' = array /\ pool' \in Seq(Nat)
         /\ content' \in Seq(Seq(Items)) /\ Len(content') = nbuf'
         /\ \A c \in Buffers : content'[c] = IF c = b THEN << >> ELSE content[c]
         /\ PoolInv'
         /\ \A c : Free(c)' => Free(c) \/ c = b
<1>1. pool' = Append(pool, b) /\ nbuf' = nbuf /\ array' = array
  BY DEF Put
<1>2. content' = [content EXCEPT ![b] = << >>]
  BY DEF Put
<1>3. << >> \in Seq(Items)
  BY EmptyIsSeq
<1>4. /\ content' \in Seq(Seq(Items)) /\ Len(content') = nbuf
      /\ \A c \in Buffers : content'[c] = IF c = b THEN << >> ELSE content[c]
  BY <1>2, <1>3, ExceptSeq DEF Types, Buffers
<1>5. b \in Nat /\ pool \in Seq(Nat) /\ Len(pool) \in Nat
  BY DEF Types, Buffers
<1>6. /\ pool' \in Seq(Nat) /\ Len(pool') = Len(pool) + 1
      /\ \A i \in 1 .. Len(pool) : pool'[i] = pool[i]
      /\ pool'[Len(pool) + 1] = b
  BY <1>1, <1>5, AppendProperties
<1>7. \A i \in 1 .. Len(pool') : i \in 1 .. Len(pool) \/ i = Len(pool) + 1
  BY <1>5, <1>6
<1>8. \A i \in 1 .. Len(pool') : pool'[i] \in Buffers /\ content'[pool'[i]] = << >>
  BY <1>4, <1>6, <1>7 DEF PoolInv
<1>9. \A i, j \in 1 .. Len(pool') : pool'[i] = pool'[j] => i = j
  BY <1>6, <1>7 DEF PoolInv, Free
<1>10. PoolInv'
  BY <1>1, <1>8, <1>9 DEF PoolInv, Buffers
<1>11. \A c : Free(c)' => Free(c) \/ c = b
  BY <1>6, <1>7 DEF Free
<1> QED
  BY <1>1, <1>4, <1>6, <1>10, <1>11

(* Write changes one buffer, and its memory if the buffer was empty.       *)
LEMMA WriteFacts ==
  ASSUME Types, NEW b \in Buffers, NEW item \in Items, Write(b, item)
  PROVE  /\ nbuf' = nbuf /\ pool' = pool
         /\ content' \in Seq(Seq(Items)) /\ Len(content') = nbuf'
         /\ array' \in Seq(Items) /\ Len(array') = nbuf'
         /\ content'[b] = Append(content[b], item)
         /\ \A c \in Buffers \ {b} : content'[c] = content[c] /\ array'[c] = array[c]
         /\ content[b] = << >> => array'[b] = item
<1>1. /\ nbuf' = nbuf /\ pool' = pool
      /\ content' = [content EXCEPT ![b] = Append(content[b], item)]
      /\ array' = IF content[b] = << >> THEN [array EXCEPT ![b] = item] ELSE array
  BY DEF Write
<1>2. /\ content \in Seq(Seq(Items)) /\ b \in 1 .. Len(content)
      /\ array \in Seq(Items) /\ b \in 1 .. Len(array)
      /\ Len(content) = nbuf /\ Len(array) = nbuf
  BY DEF Types, Buffers
<1>3. content[b] \in Seq(Items)
  BY <1>2
<1>4. Append(content[b], item) \in Seq(Items)
  BY <1>3, AppendProperties
<1>5. /\ content' \in Seq(Seq(Items)) /\ Len(content') = nbuf
      /\ \A c \in Buffers : content'[c] = IF c = b THEN Append(content[b], item) ELSE content[c]
  BY <1>1, <1>2, <1>4, ExceptSeq DEF Buffers
<1>6. CASE content[b] = << >>
  <2>1. /\ array' \in Seq(Items) /\ Len(array') = nbuf
        /\ \A c \in Buffers : array'[c] = IF c = b THEN item ELSE array[c]
    BY <1>1, <1>2, <1>6, ExceptSeq DEF Buffers
  <2> QED
    BY <1>1, <1>5, <2>1
<1>7. CASE content[b] # << >>
  BY <1>1, <1>2, <1>5, <1>7
<1> QED
  BY <1>6, <1>7

(* What Get hands out is no store in use and not the buffer of serve.      *)
LEMMA GotUnused ==
  ASSUME Types, PoolInv, StoreInv, ServeInv, Get
  PROVE  /\ \A s \in Streams : InUse(s) => store[s] # Got
         /\ serve.at \in {"read", "put"} => serve.buf # Got
<1>1. Got \in Buffers => Free(Got)
  BY GetFacts
<1>2. CASE Got \in Buffers
  BY <1>1, <1>2 DEF StoreInv, ServeInv
<1>3. CASE Got \notin Buffers
  <2>1. \A s \in Streams : InUse(s) => store[s] \in Buffers
    BY DEF Types, StoreInv, InUse, Buffers
  <2> QED
    BY <1>3, <2>1 DEF ServeInv
<1> QED
  BY <1>2, <1>3

(* A store in use is a buffer, and so is a store that is written to; what  *)
(* consume writes to is in use.                                            *)
LEMMA StoreFacts ==
  ASSUME Types, StoreInv, NEW s \in Streams, store[s] # 0
  PROVE  store[s] \in Buffers /\ (~failed[s] \/ puts[s] = 0 \/ frames[s] > 0 => InUse(s))
<1>1. store[s] \in 0 .. nbuf /\ nbuf \in Nat /\ (puts[s] # 0 => failed[s] /\ frames[s] = 0)
  BY DEF Types, StoreInv
<1>2. store[s] \in Buffers
  BY <1>1 DEF Buffers
<1>3. ~failed[s] \/ puts[s] = 0 \/ frames[s] > 0 => puts[s] = 0
  BY <1>1
<1> QED
  BY <1>2, <1>3 DEF InUse

-------------------------------------------------------------------------------
(* Bytes on its store: it takes the oldest frame.                          *)
LEMMA BytesFacts ==
  ASSUME Types, StoreInv, NEW s \in Streams, Bytes(s)
  PROVE  /\ InUse(s) /\ store[s] \in Buffers
         /\ content[store[s]] \in Seq(Items) /\ content[store[s]] # << >>
         /\ Head(content[store[s]]) \in Items
         /\ content' \in Seq(Seq(Items)) /\ Len(content') = nbuf
         /\ content'[store[s]] = Tail(content[store[s]])
         /\ \A c \in Buffers \ {store[s]} : content'[c] = content[c]
         /\ delivered' \in [Streams -> Seq(Items)]
         /\ delivered'[s] = Append(delivered[s], Head(content[store[s]]))
         /\ \A t \in Streams \ {s} : delivered'[t] = delivered[t]
<1>1. store[s] # 0 /\ frames[s] > 0 /\ content[store[s]] # << >>
  BY DEF Bytes
<1>2. InUse(s) /\ store[s] \in Buffers
  BY <1>1, StoreFacts
<1>3. content[store[s]] \in Seq(Items)
  BY <1>2 DEF Types, Buffers
<1>4. Head(content[store[s]]) \in Items /\ Tail(content[store[s]]) \in Seq(Items)
  BY <1>1, <1>3, HeadTailProperties
<1>5. content' = [content EXCEPT ![store[s]] = Tail(content[store[s]])]
  BY DEF Bytes
<1>6. /\ content' \in Seq(Seq(Items)) /\ Len(content') = nbuf
      /\ \A c \in Buffers : content'[c] = IF c = store[s] THEN Tail(content[store[s]]) ELSE content[c]
  BY <1>2, <1>4, <1>5, ExceptSeq DEF Types, Buffers
<1>7. delivered' = [delivered EXCEPT ![s] = Append(delivered[s], Head(content[store[s]]))]
  BY DEF Bytes
<1>8. Append(delivered[s], Head(content[store[s]])) \in Seq(Items)
  BY <1>4, AppendProperties DEF Types
<1> QED
  BY <1>1, <1>2, <1>3, <1>4, <1>6, <1>7, <1>8 DEF Types

-------------------------------------------------------------------------------
(* The steps: types and the pool.                                          *)

LEMMA PoolStep ==
  ASSUME Types, PoolInv, StoreInv, ServeInv, ContentInv, OwnFrames, MaxPuts = 1, [Next]_vars
  PROVE  Types' /\ PoolInv'
<1>1. ASSUME NEW s \in Streams, newByteSource(s) PROVE Types' /\ PoolInv'
  <2>1. Get /\ store' = [store EXCEPT ![s] = Got]
        /\ UNCHANGED <<sent, failed, puts, frames, delivered, serve, parsed>>
    BY <1>1 DEF newByteSource, readerVars
  <2>2. /\ nbuf' \in Nat /\ Got \in 1 .. nbuf' /\ pool' \in Seq(Nat)
        /\ content' \in Seq(Seq(Items)) /\ Len(content') = nbuf'
        /\ array' \in Seq(Items) /\ Len(array') = nbuf'
        /\ PoolInv'
    BY <2>1, GetFacts
  <2>3. store' \in [Streams -> Nat]
    BY <2>1, <2>2 DEF Types
  <2> QED
    BY <2>1, <2>2, <2>3 DEF Types
<1>2. ASSUME NEW s \in Streams, consume(s) PROVE Types' /\ PoolInv'
  <2>1. /\ store[s] # 0 /\ ~failed[s] /\ Write(store[s], <<s, sent[s] + 1>>)
        /\ sent' = [sent EXCEPT ![s] = @ + 1] /\ frames' = [frames EXCEPT ![s] = @ + 1]
        /\ UNCHANGED <<store, failed, puts, delivered, serve, parsed>>
    BY <1>2 DEF consume, readerVars
  <2>2. store[s] \in Buffers /\ ~Free(store[s])
    BY <2>1, StoreFacts DEF StoreInv
  <2>3. /\ sent' \in [Streams -> Nat] /\ frames' \in [Streams -> Nat]
        /\ <<s, sent[s] + 1>> \in Items
    <3>1. sent[s] + 1 \in Nat /\ frames[s] + 1 \in Nat
      BY DEF Types
    <3>2. sent' \in [Streams -> Nat]
      BY <2>1, <3>1 DEF Types
    <3>3. frames' \in [Streams -> Nat]
      BY <2>1, <3>1 DEF Types
    <3> QED
      BY <3>1, <3>2, <3>3 DEF Items
  <2>4. /\ nbuf' = nbuf /\ pool' = pool
        /\ content' \in Seq(Seq(Items)) /\ Len(content') = nbuf'
        /\ array' \in Seq(Items) /\ Len(array') = nbuf'
        /\ \A c \in Buffers \ {store[s]} : content'[c] = content[c]
    BY <2>1, <2>2, <2>3, WriteFacts
  <2>5. Types'
    BY <2>1, <2>3, <2>4 DEF Types
  <2>6. PoolInv'
    BY <2>2, <2>4 DEF PoolInv, Buffers, Free
  <2> QED
    BY <2>5, <2>6
<1>3. ASSUME NEW s \in Streams, ServeEnd(s) PROVE Types' /\ PoolInv'
  <2>1. Get /\ serve' = [at |-> "read", stream |-> s, buf |-> Got]
        /\ UNCHANGED <<store, sent, failed, puts, frames, delivered, parsed>>
    BY <1>3 DEF ServeEnd, readerVars, streamVars
  <2>2. /\ nbuf' \in Nat /\ Got \in 1 .. nbuf' /\ pool' \in Seq(Nat)
        /\ content' \in Seq(Seq(Items)) /\ Len(content') = nbuf'
        /\ array' \in Seq(Items) /\ Len(array') = nbuf'
        /\ PoolInv'
    BY <2>1, GetFacts
  <2>3. serve' \in [at : {"loop", "read", "put", "parse"}, stream : Streams \cup {"none"}, buf : Nat]
    BY <2>1, <2>2
  <2> QED
    BY <2>1, <2>2, <2>3 DEF Types
<1>4. ASSUME NEW s \in Streams, Cancel(s) PROVE Types' /\ PoolInv'
  <2>1. failed' = [failed EXCEPT ![s] = TRUE]
        /\ UNCHANGED <<nbuf, pool, content, array, store, sent, puts, frames, delivered, serve, parsed>>
    BY <1>4 DEF Cancel, poolVars, readerVars
  <2> QED
    BY <2>1 DEF Types, PoolInv, Buffers
<1>5. ASSUME NEW s \in Streams, Bytes(s) PROVE Types' /\ PoolInv'
  <2>1. /\ UNCHANGED <<nbuf, pool, array, store, sent, failed, puts, serve, parsed>>
        /\ frames' \in [Streams -> Nat]
    BY <1>5 DEF Bytes, Types
  <2>2. /\ InUse(s)
        /\ content' \in Seq(Seq(Items)) /\ Len(content') = nbuf
        /\ \A c \in Buffers \ {store[s]} : content'[c] = content[c]
        /\ delivered' \in [Streams -> Seq(Items)]
    BY <1>5, BytesFacts
  <2>3. Types'
    BY <2>1, <2>2 DEF Types
  <2>4. PoolInv'
    BY <2>1, <2>2 DEF PoolInv, StoreInv, Buffers, Free
  <2> QED
    BY <2>3, <2>4
<1>6. ASSUME NEW s \in Streams, NextPuts(s) PROVE Types' /\ PoolInv'
  <2>1. /\ store[s] # 0 /\ puts[s] = 0 /\ Put(store[s])
        /\ puts' = [puts EXCEPT ![s] = @ + 1]
        /\ UNCHANGED <<frames, store, sent, failed, delivered, serve, parsed>>
    BY <1>6 DEF NextPuts, streamVars, Types
  <2>2. store[s] \in Buffers /\ ~Free(store[s])
    BY <2>1, StoreFacts DEF StoreInv
  <2>3. /\ nbuf' = nbuf /\ array' = array /\ pool' \in Seq(Nat)
        /\ content' \in Seq(Seq(Items)) /\ Len(content') = nbuf'
        /\ PoolInv'
    BY <2>1, <2>2, PutFacts
  <2>4. puts' \in [Streams -> Nat]
    BY <2>1 DEF Types
  <2> QED
    BY <2>1, <2>3, <2>4 DEF Types
<1>8. CASE ReadBodyInto
  <2>1. /\ serve.at = "read" /\ Write(serve.buf, EndBody(serve.stream))
        /\ serve' = [serve EXCEPT !.at = "put"]
        /\ UNCHANGED <<store, sent, failed, puts, frames, delivered, parsed>>
    BY <1>8 DEF ReadBodyInto, streamVars, readerVars
  <2>2. serve.buf \in Buffers /\ serve.stream \in Streams /\ ~Free(serve.buf)
    BY <2>1 DEF ServeInv
  <2>3. EndBody(serve.stream) \in Items
    BY <2>2 DEF Items, EndBody
  <2>4. /\ nbuf' = nbuf /\ pool' = pool
        /\ content' \in Seq(Seq(Items)) /\ Len(content') = nbuf'
        /\ array' \in Seq(Items) /\ Len(array') = nbuf'
        /\ \A c \in Buffers \ {serve.buf} : content'[c] = content[c]
    BY <2>1, <2>2, <2>3, WriteFacts
  <2>5. Types'
    BY <2>1, <2>4 DEF Types
  <2>6. PoolInv'
    BY <2>2, <2>4 DEF PoolInv, Buffers, Free
  <2> QED
    BY <2>5, <2>6
<1>9. CASE ServePut
  <2>1. /\ serve.at = "put" /\ Put(serve.buf)
        /\ serve' = [serve EXCEPT !.at = "parse"]
        /\ UNCHANGED <<store, sent, failed, puts, frames, delivered, parsed>>
    BY <1>9 DEF ServePut, streamVars, readerVars
  <2>2. serve.buf \in Buffers /\ ~Free(serve.buf)
    BY <2>1 DEF ServeInv
  <2>3. /\ nbuf' = nbuf /\ array' = array /\ pool' \in Seq(Nat)
        /\ content' \in Seq(Seq(Items)) /\ Len(content') = nbuf'
        /\ PoolInv'
    BY <2>1, <2>2, PutFacts
  <2> QED
    BY <2>1, <2>3 DEF Types
<1>10. CASE ServeParse
  <2>1. /\ serve.at = "parse" /\ serve' = Loop
        /\ parsed' = [parsed EXCEPT ![serve.stream] = @ \cup {array[serve.buf]}]
        /\ failed' = [failed EXCEPT ![serve.stream] = TRUE]
        /\ UNCHANGED <<nbuf, pool, content, array, store, sent, puts, frames, delivered>>
    BY <1>10 DEF ServeParse, poolVars, readerVars
  <2>2. serve.buf \in 1 .. Len(array) /\ array \in Seq(Items)
    BY <2>1 DEF ServeInv, Types, Buffers
  <2>3. array[serve.buf] \in Items
    BY <2>2
  <2>4. parsed' \in [Streams -> SUBSET Items] /\ failed' \in [Streams -> BOOLEAN]
    BY <2>1, <2>3 DEF Types
  <2>5. serve' \in [at : {"loop", "read", "put", "parse"}, stream : Streams \cup {"none"}, buf : Nat]
    BY <2>1 DEF Loop
  <2> QED
    BY <2>1, <2>4, <2>5 DEF Types, PoolInv, Buffers
<1>11. CASE UNCHANGED vars
  BY <1>11 DEF vars, poolVars, streamVars, readerVars, Types, PoolInv, Buffers
<1> QED
  BY <1>1, <1>2, <1>3, <1>4, <1>5, <1>6, <1>8, <1>9, <1>10, <1>11 DEF Next

-------------------------------------------------------------------------------
(* The steps: who uses which store.                                        *)

(* A step that frees nothing, gives nobody a store and lets no frame in    *)
(* where none may come leaves the owners as they are.                      *)
LEMMA OwnersKept ==
  ASSUME Types, StoreInv, nbuf' \in Nat, nbuf <= nbuf', UNCHANGED <<store, puts>>,
         \A b : Free(b)' => Free(b),
         \A s \in Streams : failed[s] => failed'[s],
         \A s \in Streams : puts[s] # 0 => frames'[s] = 0,
         \A s \in Streams : store[s] = 0 => sent'[s] = sent[s] /\ delivered'[s] = delivered[s]
  PROVE  StoreInv'
<1> SUFFICES ASSUME NEW s \in Streams
             PROVE  /\ store'[s] \in 0 .. nbuf'
                    /\ puts'[s] # 0 => failed'[s] /\ frames'[s] = 0
                    /\ store'[s] = 0 => sent'[s] = 0 /\ delivered'[s] = << >>
                    /\ InUse(s)' =>
                         /\ ~Free(store[s])'
                         /\ \A t \in Streams \ {s} : InUse(t)' => store'[t] # store'[s]
  BY DEF StoreInv
<1>1. store'[s] \in 0 .. nbuf' /\ (puts'[s] # 0 => failed'[s] /\ frames'[s] = 0)
  BY DEF StoreInv, Types
<1>2. store'[s] = 0 => sent'[s] = 0 /\ delivered'[s] = << >>
  BY DEF StoreInv
<1>3. \A t \in Streams : InUse(t)' <=> InUse(t)
  BY DEF InUse
<1>4. store[s]' = store[s]
  OBVIOUS
<1>5. ASSUME InUse(s) PROVE ~Free(store[s])'
  <2>1. ~Free(store[s])
    BY <1>5 DEF StoreInv
  <2>2. \A b : b = store[s] => ~Free(b)'
    BY <2>1
  <2> QED
    BY <1>4, <2>2 DEF Free
<1> QED
  BY <1>1, <1>2, <1>3, <1>5 DEF StoreInv

LEMMA StoreStep ==
  ASSUME Types, PoolInv, StoreInv, ServeInv, ContentInv, OwnFrames, MaxPuts = 1, [Next]_vars
  PROVE  StoreInv'
<1>1. ASSUME NEW s \in Streams, newByteSource(s) PROVE StoreInv'
  <2>1. Get /\ store[s] = 0 /\ store' = [store EXCEPT ![s] = Got]
        /\ UNCHANGED <<sent, failed, puts, frames, delivered>>
    BY <1>1 DEF newByteSource, readerVars
  <2>2. /\ nbuf \in Nat /\ nbuf' \in Nat /\ nbuf <= nbuf' /\ Got \in 1 .. nbuf'
        /\ \A b : Free(b)' => Free(b)
        /\ \A i \in 1 .. Len(pool') : pool'[i] # Got
    BY <2>1, GetFacts DEF Types
  <2>3. \A t \in Streams : InUse(t) => store[t] # Got
    BY <2>1, GotUnused
  <2>4. /\ store'[s] = Got /\ Got # 0
        /\ \A t \in Streams \ {s} : store'[t] = store[t] /\ (InUse(t)' <=> InUse(t))
    BY <2>1, <2>2 DEF Types, InUse
  <2> SUFFICES ASSUME NEW t \in Streams
               PROVE  /\ store'[t] \in 0 .. nbuf'
                      /\ puts'[t] # 0 => failed'[t] /\ frames'[t] = 0
                      /\ store'[t] = 0 => sent'[t] = 0 /\ delivered'[t] = << >>
                      /\ InUse(t)' =>
                           /\ \A i \in 1 .. Len(pool') : pool'[i] # store'[t]
                           /\ \A u \in Streams \ {t} : InUse(u)' => store'[u] # store'[t]
    BY DEF StoreInv, Free
  <2>5. puts'[t] # 0 => failed'[t] /\ frames'[t] = 0
    BY <2>1 DEF StoreInv
  <2>6. CASE t = s
    <3>1. \A u \in Streams \ {t} : InUse(u)' => store'[u] # store'[t]
      BY <2>3, <2>4, <2>6
    <3> QED
      BY <2>2, <2>4, <2>5, <2>6, <3>1
  <2>7. CASE t # s
    <3>1. store[t] \in 0 .. nbuf'
      BY <2>2 DEF StoreInv
    <3>2. store'[t] = 0 => sent'[t] = 0 /\ delivered'[t] = << >>
      BY <2>1, <2>4, <2>7 DEF StoreInv
    <3>3. ASSUME InUse(t) PROVE \A i \in 1 .. Len(pool') : pool'[i] # store[t]
      <4>1. ~Free(store[t])
        BY <3>3 DEF StoreInv
      <4>2. \A b : b = store[t] => ~Free(b)'
        BY <2>2, <4>1
      <4> QED
        BY <4>2 DEF Free
    <3>4. InUse(t) => \A u \in Streams \ {t} : InUse(u)' => store'[u] # store[t]
      BY <2>3, <2>4 DEF StoreInv
    <3> QED
      BY <2>4, <2>5, <2>7, <3>1, <3>2, <3>3, <3>4
  <2> QED
    BY <2>6, <2>7
<1>2. ASSUME NEW s \in Streams, consume(s) PROVE StoreInv'
  <2>1. /\ store[s] # 0 /\ UNCHANGED <<store, failed, puts, delivered, pool, nbuf>>
        /\ sent' = [sent EXCEPT ![s] = @ + 1] /\ frames' = [frames EXCEPT ![s] = @ + 1]
    BY <1>2 DEF consume, Write, readerVars
  <2>2. \A t \in Streams : puts[t] # 0 => frames'[t] = 0
    BY <1>2, <2>1 DEF consume, Types, StoreInv
  <2> QED
    BY <2>1, <2>2, OwnersKept DEF Types, Free
<1>3. ASSUME NEW s \in Streams, ServeEnd(s) PROVE StoreInv'
  <2>1. Get /\ UNCHANGED <<store, sent, failed, puts, frames, delivered>>
    BY <1>3 DEF ServeEnd, readerVars, streamVars
  <2>2. nbuf' \in Nat /\ nbuf <= nbuf' /\ \A b : Free(b)' => Free(b)
    BY <2>1, GetFacts
  <2> QED
    BY <2>1, <2>2, OwnersKept DEF StoreInv
<1>4. ASSUME NEW s \in Streams, Cancel(s) PROVE StoreInv'
  <2>1. failed' = [failed EXCEPT ![s] = TRUE]
        /\ UNCHANGED <<nbuf, pool, store, sent, puts, frames, delivered>>
    BY <1>4 DEF Cancel, poolVars, readerVars
  <2>2. /\ \A t \in Streams : puts[t] # 0 => frames'[t] = 0
        /\ \A t \in Streams : failed[t] => failed'[t]
    BY <2>1 DEF Types, StoreInv
  <2> QED
    BY <2>1, <2>2, OwnersKept DEF Types, Free
<1>5. ASSUME NEW s \in Streams, Bytes(s) PROVE StoreInv'
  <2>1. store[s] # 0 /\ UNCHANGED <<nbuf, pool, store, sent, failed, puts>>
    BY <1>5 DEF Bytes
  <2>2. \A t \in Streams \ {s} : delivered'[t] = delivered[t]
    BY <1>5, BytesFacts
  <2>3. \A t \in Streams : puts[t] # 0 => frames'[t] = 0
    BY <1>5 DEF Bytes, Types, StoreInv
  <2> QED
    BY <2>1, <2>2, <2>3, OwnersKept DEF Types, Free
<1>6. ASSUME NEW s \in Streams, NextPuts(s) PROVE StoreInv'
  <2>1. /\ store[s] # 0 /\ puts[s] = 0 /\ frames[s] = 0 /\ failed[s] /\ Put(store[s])
        /\ puts' = [puts EXCEPT ![s] = @ + 1]
        /\ UNCHANGED <<frames, store, sent, failed, delivered>>
    BY <1>6 DEF NextPuts, streamVars, Types
  <2>2. InUse(s) /\ store[s] \in Buffers /\ ~Free(store[s])
    BY <2>1, StoreFacts DEF StoreInv
  <2>3. nbuf' = nbuf /\ \A b : Free(b)' => Free(b) \/ b = store[s]
    BY <2>1, <2>2, PutFacts
  <2>4. \A t \in Streams : InUse(t)' => t # s /\ InUse(t)
    BY <2>1 DEF Types, InUse
  <2> SUFFICES ASSUME NEW t \in Streams
               PROVE  /\ store'[t] \in 0 .. nbuf'
                      /\ puts'[t] # 0 => failed'[t] /\ frames'[t] = 0
                      /\ store'[t] = 0 => sent'[t] = 0 /\ delivered'[t] = << >>
                      /\ InUse(t)' =>
                           /\ \A i \in 1 .. Len(pool') : pool'[i] # store'[t]
                           /\ \A u \in Streams \ {t} : InUse(u)' => store'[u] # store'[t]
    BY DEF StoreInv, Free
  <2>5. store'[t] \in 0 .. nbuf' /\ (store'[t] = 0 => sent'[t] = 0 /\ delivered'[t] = << >>)
    BY <2>1, <2>3 DEF StoreInv
  <2>6. puts'[t] # 0 => failed'[t] /\ frames'[t] = 0
    BY <2>1 DEF Types, StoreInv
  <2>7. ASSUME InUse(t)' PROVE \A i \in 1 .. Len(pool') : pool'[i] # store'[t]
    <3>1. ~Free(store[t]) /\ store[t] # store[s]
      BY <2>2, <2>4, <2>7 DEF StoreInv
    <3>2. \A b : b = store[t] => ~Free(b)'
      BY <2>3, <3>1
    <3> QED
      BY <2>1, <3>2 DEF Free
  <2>8. ASSUME InUse(t)' PROVE \A u \in Streams \ {t} : InUse(u)' => store'[u] # store'[t]
    BY <2>1, <2>4, <2>8 DEF StoreInv
  <2> QED
    BY <2>5, <2>6, <2>7, <2>8
<1>8. CASE ReadBodyInto
  <2>1. UNCHANGED <<nbuf, pool, store, sent, failed, puts, frames, delivered>>
    BY <1>8 DEF ReadBodyInto, Write, streamVars, readerVars
  <2> QED
    BY <2>1, OwnersKept DEF Types, Free, StoreInv
<1>9. CASE ServePut
  <2>1. serve.at = "put" /\ Put(serve.buf) /\ UNCHANGED <<store, sent, failed, puts, frames, delivered>>
    BY <1>9 DEF ServePut, streamVars, readerVars
  <2>2. /\ serve.buf \in Buffers /\ ~Free(serve.buf)
        /\ \A t \in Streams : InUse(t) => store[t] # serve.buf
    BY <2>1 DEF ServeInv
  <2>3. nbuf' = nbuf /\ \A b : Free(b)' => Free(b) \/ b = serve.buf
    BY <2>1, <2>2, PutFacts
  <2>4. ASSUME NEW t \in Streams, InUse(t) PROVE \A i \in 1 .. Len(pool') : pool'[i] # store'[t]
    <3>1. ~Free(store[t]) /\ store[t] # serve.buf
      BY <2>2, <2>4 DEF StoreInv
    <3>2. \A b : b = store[t] => ~Free(b)'
      BY <2>3, <3>1
    <3> QED
      BY <2>1, <3>2 DEF Free
  <2>5. \A t \in Streams : InUse(t)' <=> InUse(t)
    BY <2>1 DEF InUse
  <2> QED
    BY <2>1, <2>3, <2>4, <2>5 DEF StoreInv, Free
<1>10. CASE ServeParse
  <2>1. /\ failed' = [failed EXCEPT ![serve.stream] = TRUE]
        /\ UNCHANGED <<nbuf, pool, store, sent, puts, frames, delivered>>
    BY <1>10 DEF ServeParse, poolVars, readerVars
  <2> QED
    BY <2>1, OwnersKept DEF Types, Free, StoreInv
<1>11. CASE UNCHANGED vars
  BY <1>11, OwnersKept DEF vars, poolVars, streamVars, readerVars, Types, Free, StoreInv
<1> QED
  BY <1>1, <1>2, <1>3, <1>4, <1>5, <1>6, <1>8, <1>9, <1>10, <1>11 DEF Next

-------------------------------------------------------------------------------
(* The steps: the buffer of serve.                                         *)

(* A step that leaves the pool and the owners alone.                       *)
LEMMA ServeOwnsAlone ==
  ASSUME Types, ServeInv, UNCHANGED <<pool, nbuf, store>>,
         \A s \in Streams : InUse(s)' => InUse(s),
         serve.at \in {"read", "put"}
  PROVE  /\ serve.buf \in Buffers
         /\ \A i \in 1 .. Len(pool') : pool'[i] # serve.buf
         /\ \A s \in Streams : InUse(s)' => store'[s] # serve.buf
BY DEF ServeInv, Free

(* Steps of others between a read and the parse.                           *)
LEMMA ServeKept ==
  ASSUME Types, ServeInv, UNCHANGED serve, nbuf' \in Nat, nbuf <= nbuf',
         \A b \in Buffers : array'[b] = array[b],
         serve.at \in {"read", "put"} =>
           /\ \A i \in 1 .. Len(pool') : pool'[i] # serve.buf
           /\ \A s \in Streams : InUse(s)' => store'[s] # serve.buf
           /\ content'[serve.buf] = content[serve.buf]
  PROVE  ServeInv'
<1>1. serve'.at = serve.at /\ serve'.buf = serve.buf /\ serve'.stream = serve.stream
  OBVIOUS
<1>2. serve.at # "loop" => serve.stream \in Streams /\ serve.buf \in Buffers /\ serve.buf \in Buffers'
  BY DEF Types, ServeInv, Buffers
<1>3. serve.at \in {"put", "parse"} => array'[serve.buf] = EndBody(serve.stream)
  BY <1>2 DEF Types, ServeInv
<1> QED
  BY <1>1, <1>2, <1>3 DEF Types, ServeInv, Free, EndBody

LEMMA ServeStep ==
  ASSUME Types, PoolInv, StoreInv, ServeInv, ContentInv, OwnFrames, MaxPuts = 1, [Next]_vars
  PROVE  ServeInv'
<1>1. ASSUME NEW s \in Streams, newByteSource(s) PROVE ServeInv'
  <2>1. Get /\ store' = [store EXCEPT ![s] = Got] /\ UNCHANGED <<puts, frames, serve>>
    BY <1>1 DEF newByteSource, readerVars
  <2>2. /\ nbuf' \in Nat /\ nbuf <= nbuf'
        /\ \A b \in Buffers : content'[b] = content[b] /\ array'[b] = array[b]
        /\ \A b : Free(b)' => Free(b)
    BY <2>1, GetFacts
  <2>3. ASSUME serve.at \in {"read", "put"}
        PROVE  /\ \A i \in 1 .. Len(pool') : pool'[i] # serve.buf
               /\ \A t \in Streams : InUse(t)' => store'[t] # serve.buf
               /\ content'[serve.buf] = content[serve.buf]
    <3>1. serve.buf # Got
      BY <2>1, <2>3, GotUnused
    <3>2. serve.buf \in Buffers /\ ~Free(serve.buf) /\ \A t \in Streams : InUse(t) => store[t] # serve.buf
      BY <2>3 DEF ServeInv
    <3>3. \A b : b = serve.buf => ~Free(b)'
      BY <2>2, <3>2
    <3>4. \A i \in 1 .. Len(pool') : pool'[i] # serve.buf
      BY <3>3 DEF Free
    <3>5. \A t \in Streams : InUse(t)' => store'[t] # serve.buf
      BY <2>1, <3>1, <3>2 DEF Types, InUse
    <3> QED
      BY <2>2, <3>2, <3>4, <3>5
  <2> QED
    BY <2>1, <2>2, <2>3, ServeKept
<1>2. ASSUME NEW s \in Streams, consume(s) PROVE ServeInv'
  <2>1. serve.at = "loop" /\ serve' = serve
    BY <1>2 DEF consume
  <2> QED
    BY <2>1 DEF ServeInv
<1>3. ASSUME NEW s \in Streams, ServeEnd(s) PROVE ServeInv'
  <2>1. Get /\ serve' = [at |-> "read", stream |-> s, buf |-> Got] /\ UNCHANGED <<store, puts, frames>>
    BY <1>3 DEF ServeEnd, readerVars, streamVars
  <2>2. /\ Got \in 1 .. nbuf' /\ content'[Got] = << >>
        /\ \A i \in 1 .. Len(pool') : pool'[i] # Got
    BY <2>1, GetFacts
  <2>3. \A t \in Streams : InUse(t)' => store'[t] # Got
    BY <2>1, GotUnused DEF InUse
  <2>4. serve'.at = "read" /\ serve'.buf = Got /\ serve'.stream = s
    BY <2>1
  <2> QED
    BY <2>2, <2>3, <2>4 DEF ServeInv, Free, Buffers
<1>4. ASSUME NEW s \in Streams, Cancel(s) PROVE ServeInv'
  <2>1. UNCHANGED <<nbuf, pool, content, array, store, puts, frames, serve>>
    BY <1>4 DEF Cancel, poolVars, readerVars
  <2>2. \A t \in Streams : InUse(t)' => InUse(t)
    BY <2>1 DEF InUse
  <2>3. nbuf' \in Nat /\ nbuf <= nbuf'
    BY <2>1 DEF Types
  <2> QED
    BY <2>1, <2>2, <2>3, ServeOwnsAlone, ServeKept
<1>5. ASSUME NEW s \in Streams, Bytes(s) PROVE ServeInv'
  <2>1. UNCHANGED <<nbuf, pool, array, store, puts, serve>>
    BY <1>5 DEF Bytes
  <2>2. InUse(s) /\ \A c \in Buffers \ {store[s]} : content'[c] = content[c]
    BY <1>5, BytesFacts
  <2>3. \A t \in Streams : InUse(t)' => InUse(t)
    BY <2>1 DEF InUse
  <2>4. serve.at \in {"read", "put"} => content'[serve.buf] = content[serve.buf]
    BY <2>2 DEF ServeInv
  <2>5. nbuf' \in Nat /\ nbuf <= nbuf'
    BY <2>1 DEF Types
  <2> QED
    BY <2>1, <2>3, <2>4, <2>5, ServeOwnsAlone, ServeKept
<1>6. ASSUME NEW s \in Streams, NextPuts(s) PROVE ServeInv'
  <2>1. /\ store[s] # 0 /\ puts[s] = 0 /\ Put(store[s])
        /\ puts' = [puts EXCEPT ![s] = @ + 1]
        /\ UNCHANGED <<frames, store, serve>>
    BY <1>6 DEF NextPuts, streamVars, Types
  <2>2. InUse(s) /\ store[s] \in Buffers /\ ~Free(store[s])
    BY <2>1, StoreFacts DEF StoreInv
  <2>3. /\ nbuf' = nbuf /\ array' = array
        /\ \A c \in Buffers : content'[c] = IF c = store[s] THEN << >> ELSE content[c]
        /\ \A b : Free(b)' => Free(b) \/ b = store[s]
    BY <2>1, <2>2, PutFacts
  <2>4. ASSUME serve.at \in {"read", "put"}
        PROVE  /\ \A i \in 1 .. Len(pool') : pool'[i] # serve.buf
               /\ \A t \in Streams : InUse(t)' => store'[t] # serve.buf
               /\ content'[serve.buf] = content[serve.buf]
    <3>1. serve.buf \in Buffers /\ ~Free(serve.buf) /\ \A t \in Streams : InUse(t) => store[t] # serve.buf
      BY <2>4 DEF ServeInv
    <3>2. \A b : b = serve.buf => ~Free(b)'
      BY <2>2, <2>3, <3>1
    <3>3. \A t \in Streams : InUse(t)' => InUse(t)
      BY <2>1 DEF Types, InUse
    <3> QED
      BY <2>1, <2>2, <2>3, <3>1, <3>2, <3>3 DEF Free
  <2> QED
    BY <2>1, <2>3, <2>4, ServeKept DEF Types
<1>8. CASE ReadBodyInto
  <2>1. /\ serve.at = "read" /\ Write(serve.buf, EndBody(serve.stream))
        /\ serve' = [serve EXCEPT !.at = "put"]
        /\ UNCHANGED <<store, puts, frames>>
    BY <1>8 DEF ReadBodyInto, streamVars, readerVars
  <2>2. /\ serve.buf \in Buffers /\ serve.stream \in Streams /\ ~Free(serve.buf)
        /\ content[serve.buf] = << >> /\ \A t \in Streams : InUse(t) => store[t] # serve.buf
    BY <2>1 DEF ServeInv
  <2>3. EndBody(serve.stream) \in Items
    BY <2>2 DEF Items, EndBody
  <2>4. nbuf' = nbuf /\ pool' = pool /\ array'[serve.buf] = EndBody(serve.stream)
    BY <2>1, <2>2, <2>3, WriteFacts
  <2>5. serve'.at = "put" /\ serve'.buf = serve.buf /\ serve'.stream = serve.stream
    BY <2>1 DEF Types
  <2>6. \A t \in Streams : InUse(t)' => store'[t] # serve'.buf
    BY <2>1, <2>2, <2>5 DEF InUse
  <2> QED
    BY <2>2, <2>4, <2>5, <2>6 DEF ServeInv, Free, Buffers, EndBody
<1>9. CASE ServePut
  <2>1. serve.at = "put" /\ Put(serve.buf) /\ serve' = [serve EXCEPT !.at = "parse"]
    BY <1>9 DEF ServePut
  <2>2. /\ serve.buf \in Buffers /\ ~Free(serve.buf) /\ serve.stream \in Streams
        /\ array[serve.buf] = EndBody(serve.stream)
    BY <2>1 DEF ServeInv
  <2>3. nbuf' = nbuf /\ array' = array
    BY <2>1, <2>2, PutFacts
  <2>4. serve'.at = "parse" /\ serve'.buf = serve.buf /\ serve'.stream = serve.stream
    BY <2>1 DEF Types
  <2> QED
    BY <2>2, <2>3, <2>4 DEF ServeInv, Buffers, EndBody
<1>10. CASE ServeParse
  <2>1. serve'.at = "loop"
    BY <1>10 DEF ServeParse, Loop
  <2> QED
    BY <2>1 DEF ServeInv
<1>11. CASE UNCHANGED vars
  <2>1. UNCHANGED <<nbuf, pool, content, array, store, puts, frames, serve>>
    BY <1>11 DEF vars, poolVars, streamVars, readerVars
  <2>2. \A t \in Streams : InUse(t)' => InUse(t)
    BY <2>1 DEF InUse
  <2>3. nbuf' \in Nat /\ nbuf <= nbuf'
    BY <2>1 DEF Types
  <2> QED
    BY <2>1, <2>2, <2>3, ServeOwnsAlone, ServeKept
<1> QED
  BY <1>1, <1>2, <1>3, <1>4, <1>5, <1>6, <1>8, <1>9, <1>10, <1>11 DEF Next

-------------------------------------------------------------------------------
(* The steps: what the stores hold and what was read from them.            *)

LEMMA OneMore ==
  ASSUME NEW m \in Nat, NEW n \in Nat, NEW k \in Nat, m + n = k
  PROVE  m + (n + 1) = k + 1
OBVIOUS

LEMMA Shifted ==
  ASSUME NEW m \in Nat, NEW n \in Nat
  PROVE  \A i \in 1 .. n - 1 : i + 1 \in 1 .. n /\ m + (i + 1) = (m + 1) + i
OBVIOUS

(* A step that leaves a store and its stream alone.                        *)
LEMMA HoldsKept ==
  ASSUME Types, StoreInv, ContentInv, NEW s \in Streams, InUse(s),
         store'[s] = store[s], content'[store[s]] = content[store[s]],
         sent'[s] = sent[s], delivered'[s] = delivered[s]
  PROVE  Holds(s, store[s])'
<1>1. Holds(s, store[s])
  BY DEF ContentInv
<1> QED
  BY <1>1 DEF Holds

LEMMA ContentStep ==
  ASSUME Types, PoolInv, StoreInv, ServeInv, ContentInv, OwnFrames, MaxPuts = 1, [Next]_vars
  PROVE  ContentInv'
<1>0. \A t \in Streams : InUse(t) => store[t] \in Buffers
  BY StoreFacts DEF InUse
<1>1. ASSUME NEW s \in Streams, newByteSource(s) PROVE ContentInv'
  <2>1. /\ Get /\ store[s] = 0 /\ store' = [store EXCEPT ![s] = Got]
        /\ UNCHANGED <<sent, puts, frames, delivered>>
    BY <1>1 DEF newByteSource, readerVars
  <2>2. /\ content'[Got] = << >>
        /\ \A b \in Buffers : content'[b] = content[b]
    BY <2>1, GetFacts
  <2>3. Holds(s, store[s])'
    <3>1. store'[s] = Got /\ sent'[s] = 0 /\ delivered'[s] = << >>
      BY <2>1 DEF Types, StoreInv
    <3> QED
      BY <2>2, <3>1 DEF Holds
  <2>4. ASSUME NEW t \in Streams \ {s}, InUse(t)' PROVE Holds(t, store[t])'
    <3>1. store'[t] = store[t] /\ InUse(t)
      BY <2>1, <2>4 DEF Types, InUse
    <3> QED
      BY <1>0, <2>1, <2>2, <3>1, HoldsKept
  <2> QED
    BY <2>3, <2>4 DEF ContentInv
<1>2. ASSUME NEW s \in Streams, consume(s) PROVE ContentInv'
  <2>1. /\ store[s] # 0 /\ ~failed[s] /\ Write(store[s], <<s, sent[s] + 1>>)
        /\ sent' = [sent EXCEPT ![s] = @ + 1] /\ frames' = [frames EXCEPT ![s] = @ + 1]
        /\ UNCHANGED <<store, puts, delivered>>
    BY <1>2 DEF consume, readerVars
  <2>2. store[s] \in Buffers /\ InUse(s)
    BY <2>1, StoreFacts
  <2>3. sent[s] \in Nat /\ <<s, sent[s] + 1>> \in Items /\ sent'[s] = sent[s] + 1
    BY <2>1 DEF Types, Items
  <2>4. /\ content'[store[s]] = Append(content[store[s]], <<s, sent[s] + 1>>)
        /\ \A c \in Buffers \ {store[s]} : content'[c] = content[c]
    BY <2>1, <2>2, <2>3, WriteFacts
  <2>5. Holds(s, store[s])'
    <3> DEFINE c == content[store[s]]
    <3>1. c \in Seq(Items) /\ Len(c) \in Nat /\ Len(delivered[s]) \in Nat
      BY <2>2 DEF Types, Buffers
    <3>2. /\ Len(delivered[s]) + Len(c) = sent[s]
          /\ \A i \in 1 .. Len(c) : c[i] = <<s, Len(delivered[s]) + i>>
      BY <2>2 DEF ContentInv, Holds
    <3> HIDE DEF c
    <3>3. /\ Len(Append(c, <<s, sent[s] + 1>>)) = Len(c) + 1
          /\ \A i \in 1 .. Len(c) : Append(c, <<s, sent[s] + 1>>)[i] = c[i]
          /\ Append(c, <<s, sent[s] + 1>>)[Len(c) + 1] = <<s, sent[s] + 1>>
      BY <2>3, <3>1, AppendProperties
    <3>4. Len(delivered[s]) + (Len(c) + 1) = sent[s] + 1
      BY <2>3, <3>1, <3>2, OneMore
    <3>5. \A i \in 1 .. Len(c) + 1 : i \in 1 .. Len(c) \/ i = Len(c) + 1
      BY <3>1
    <3>6. \A i \in 1 .. Len(c) + 1 : Append(c, <<s, sent[s] + 1>>)[i] = <<s, Len(delivered[s]) + i>>
      BY <3>2, <3>3, <3>4, <3>5
    <3>7. content'[store'[s]] = Append(c, <<s, sent[s] + 1>>) /\ delivered'[s] = delivered[s]
      BY <2>1, <2>4 DEF c
    <3> QED
      BY <2>3, <3>3, <3>4, <3>6, <3>7 DEF Holds
  <2>6. ASSUME NEW t \in Streams \ {s}, InUse(t)' PROVE Holds(t, store[t])'
    <3>1. InUse(t) /\ store[t] # store[s]
      BY <2>1, <2>2, <2>6 DEF InUse, StoreInv
    <3> QED
      BY <1>0, <2>1, <2>4, <3>1, HoldsKept DEF Types
  <2> QED
    BY <2>5, <2>6 DEF ContentInv
<1>3. ASSUME NEW s \in Streams, ServeEnd(s) PROVE ContentInv'
  <2>1. Get /\ UNCHANGED <<store, sent, puts, frames, delivered>>
    BY <1>3 DEF ServeEnd, readerVars, streamVars
  <2>2. \A b \in Buffers : content'[b] = content[b]
    BY <2>1, GetFacts
  <2> QED
    BY <1>0, <2>1, <2>2, HoldsKept DEF ContentInv, InUse
<1>4. ASSUME NEW s \in Streams, Cancel(s) PROVE ContentInv'
  BY <1>4, HoldsKept DEF Cancel, poolVars, readerVars, ContentInv, InUse
<1>5. ASSUME NEW s \in Streams, Bytes(s) PROVE ContentInv'
  <2>1. UNCHANGED <<store, sent, puts>>
    BY <1>5 DEF Bytes
  <2>2. /\ InUse(s) /\ store[s] \in Buffers
        /\ content[store[s]] \in Seq(Items) /\ content[store[s]] # << >>
        /\ content'[store[s]] = Tail(content[store[s]])
        /\ \A c \in Buffers \ {store[s]} : content'[c] = content[c]
        /\ Head(content[store[s]]) \in Items
        /\ delivered'[s] = Append(delivered[s], Head(content[store[s]]))
        /\ \A t \in Streams \ {s} : delivered'[t] = delivered[t]
    BY <1>5, BytesFacts
  <2>3. Holds(s, store[s])'
    <3> DEFINE c == content[store[s]]
    <3>1. delivered[s] \in Seq(Items) /\ Len(delivered[s]) \in Nat /\ Len(c) \in Nat /\ sent[s] \in Nat
      BY <2>2 DEF Types
    <3>2. /\ Len(delivered[s]) + Len(c) = sent[s]
          /\ \A i \in 1 .. Len(c) : c[i] = <<s, Len(delivered[s]) + i>>
      BY <2>2 DEF ContentInv, Holds
    <3>3. /\ content'[store'[s]] = Tail(c) /\ c \in Seq(Items) /\ c # << >>
          /\ delivered'[s] = Append(delivered[s], Head(c)) /\ Head(c) \in Items
      BY <2>1, <2>2
    <3> HIDE DEF c
    <3>4. Len(Tail(c)) = Len(c) - 1 /\ \A i \in 1 .. Len(Tail(c)) : Tail(c)[i] = c[i + 1]
      BY <3>3, HeadTailProperties
    <3>5. Len(delivered'[s]) = Len(delivered[s]) + 1
      BY <3>1, <3>3, AppendProperties
    <3>6. \A i \in 1 .. Len(Tail(c)) :
            i + 1 \in 1 .. Len(c) /\ Len(delivered[s]) + (i + 1) = (Len(delivered[s]) + 1) + i
      BY <3>1, <3>4, Shifted
    <3>7. (Len(delivered[s]) + 1) + (Len(c) - 1) = sent[s]
      BY <3>1, <3>2
    <3>8. \A i \in 1 .. Len(Tail(c)) : Tail(c)[i] = <<s, Len(delivered'[s]) + i>>
      BY <3>2, <3>4, <3>5, <3>6
    <3> QED
      BY <2>1, <3>3, <3>4, <3>5, <3>7, <3>8 DEF Holds
  <2>4. ASSUME NEW t \in Streams \ {s}, InUse(t)' PROVE Holds(t, store[t])'
    <3>1. InUse(t) /\ store[t] # store[s]
      BY <2>1, <2>2, <2>4 DEF InUse, StoreInv
    <3> QED
      BY <1>0, <2>1, <2>2, <3>1, HoldsKept
  <2> QED
    BY <2>3, <2>4 DEF ContentInv
<1>6. ASSUME NEW s \in Streams, NextPuts(s) PROVE ContentInv'
  <2>1. /\ store[s] # 0 /\ puts[s] = 0 /\ Put(store[s])
        /\ puts' = [puts EXCEPT ![s] = @ + 1]
        /\ UNCHANGED <<frames, store, sent, delivered>>
    BY <1>6 DEF NextPuts, streamVars, Types
  <2>2. InUse(s) /\ store[s] \in Buffers /\ ~Free(store[s])
    BY <2>1, StoreFacts DEF StoreInv
  <2>3. \A c \in Buffers : content'[c] = IF c = store[s] THEN << >> ELSE content[c]
    BY <2>1, <2>2, PutFacts
  <2>4. ASSUME NEW t \in Streams, InUse(t)' PROVE Holds(t, store[t])'
    <3>1. t # s /\ InUse(t)
      BY <2>1, <2>4 DEF Types, InUse
    <3>2. store[t] # store[s]
      BY <2>2, <3>1 DEF StoreInv
    <3> QED
      BY <1>0, <2>1, <2>3, <3>1, <3>2, HoldsKept
  <2> QED
    BY <2>4 DEF ContentInv
<1>8. CASE ReadBodyInto
  <2>1. /\ serve.at = "read" /\ Write(serve.buf, EndBody(serve.stream))
        /\ UNCHANGED <<store, sent, puts, frames, delivered>>
    BY <1>8 DEF ReadBodyInto, streamVars, readerVars
  <2>2. /\ serve.buf \in Buffers /\ serve.stream \in Streams
        /\ \A t \in Streams : InUse(t) => store[t] # serve.buf
    BY <2>1 DEF ServeInv
  <2>3. EndBody(serve.stream) \in Items
    BY <2>2 DEF Items, EndBody
  <2>4. \A c \in Buffers \ {serve.buf} : content'[c] = content[c]
    BY <2>1, <2>2, <2>3, WriteFacts
  <2> QED
    BY <1>0, <2>1, <2>2, <2>4, HoldsKept DEF ContentInv, InUse
<1>9. CASE ServePut
  <2>1. serve.at = "put" /\ Put(serve.buf) /\ UNCHANGED <<store, sent, puts, frames, delivered>>
    BY <1>9 DEF ServePut, streamVars, readerVars
  <2>2. /\ serve.buf \in Buffers /\ ~Free(serve.buf)
        /\ \A t \in Streams : InUse(t) => store[t] # serve.buf
    BY <2>1 DEF ServeInv
  <2>3. \A c \in Buffers : content'[c] = IF c = serve.buf THEN << >> ELSE content[c]
    BY <2>1, <2>2, PutFacts
  <2> QED
    BY <1>0, <2>1, <2>2, <2>3, HoldsKept DEF ContentInv, InUse
<1>10. CASE ServeParse
  BY <1>10, HoldsKept DEF ServeParse, poolVars, readerVars, ContentInv, InUse
<1>11. CASE UNCHANGED vars
  BY <1>11, HoldsKept DEF vars, poolVars, streamVars, readerVars, ContentInv, InUse
<1> QED
  BY <1>1, <1>2, <1>3, <1>4, <1>5, <1>6, <1>8, <1>9, <1>10, <1>11 DEF Next

(* Only Bytes delivers and only ServeParse parses.                         *)
LEMMA FramesStep ==
  ASSUME Types, PoolInv, StoreInv, ServeInv, ContentInv, OwnFrames, MaxPuts = 1, [Next]_vars
  PROVE  OwnFrames'
<1>1. ASSUME NEW s \in Streams, Bytes(s) PROVE OwnFrames'
  <2>1. parsed' = parsed
    BY <1>1 DEF Bytes
  <2>2. /\ InUse(s) /\ content[store[s]] \in Seq(Items) /\ content[store[s]] # << >>
        /\ Head(content[store[s]]) \in Items
        /\ delivered'[s] = Append(delivered[s], Head(content[store[s]]))
        /\ \A t \in Streams \ {s} : delivered'[t] = delivered[t]
    BY <1>1, BytesFacts
  <2>3. Head(content[store[s]]) = <<s, Len(delivered[s]) + 1>>
    <3>1. /\ Head(content[store[s]]) = content[store[s]][1]
          /\ Len(content[store[s]]) \in Nat /\ Len(content[store[s]]) > 0
      BY <2>2
    <3>2. 1 \in 1 .. Len(content[store[s]])
      BY <3>1
    <3> QED
      BY <2>2, <3>1, <3>2 DEF ContentInv, Holds
  <2>4. delivered[s] \in Seq(Items) /\ Len(delivered[s]) \in Nat
    BY DEF Types
  <2>5. /\ Len(delivered'[s]) = Len(delivered[s]) + 1
        /\ \A i \in 1 .. Len(delivered[s]) : delivered'[s][i] = delivered[s][i]
        /\ delivered'[s][Len(delivered[s]) + 1] = <<s, Len(delivered[s]) + 1>>
    BY <2>2, <2>3, <2>4, AppendProperties
  <2>6. \A i \in 1 .. Len(delivered'[s]) : i \in 1 .. Len(delivered[s]) \/ i = Len(delivered[s]) + 1
    BY <2>4, <2>5
  <2>7. \A i \in 1 .. Len(delivered'[s]) : delivered'[s][i] = <<s, i>>
    BY <2>5, <2>6 DEF OwnFrames
  <2>8. \A t \in Streams \ {s} : \A i \in 1 .. Len(delivered'[t]) : delivered'[t][i] = <<t, i>>
    BY <2>2 DEF OwnFrames
  <2>9. \A t \in Streams : parsed'[t] \subseteq {EndBody(t)}
    BY <2>1 DEF OwnFrames
  <2> QED
    BY <2>7, <2>8, <2>9 DEF OwnFrames, EndBody
<1>2. CASE ServeParse
  <2>1. /\ serve.at = "parse" /\ delivered' = delivered
        /\ parsed' = [parsed EXCEPT ![serve.stream] = @ \cup {array[serve.buf]}]
    BY <1>2 DEF ServeParse, readerVars
  <2>2. array[serve.buf] = EndBody(serve.stream)
    BY <2>1 DEF ServeInv
  <2>3. \A s \in Streams : parsed'[s] \subseteq parsed[s] \cup {EndBody(s)}
    BY <2>1, <2>2 DEF Types
  <2> QED
    BY <2>1, <2>3 DEF OwnFrames, EndBody
<1>3. ASSUME UNCHANGED <<delivered, parsed>> PROVE OwnFrames'
  BY <1>3 DEF OwnFrames, EndBody
<1> QED
  BY <1>1, <1>2, <1>3
  DEF Next, vars, readerVars, newByteSource, consume, ServeEnd, Cancel, NextPuts,
      ReadBodyInto, ServePut

-------------------------------------------------------------------------------
(* The theorems.                                                           *)

LEMMA InitInv == Init => IInv
<1> SUFFICES ASSUME Init PROVE IInv
  OBVIOUS
<1>1. << >> \in Seq(Nat) /\ << >> \in Seq(Items) /\ << >> \in Seq(Seq(Items))
  BY EmptyIsSeq
<1>2. Types
  BY <1>1 DEF Init, Types, Loop
<1>3. PoolInv /\ StoreInv /\ ServeInv /\ ContentInv
  BY DEF Init, PoolInv, StoreInv, ServeInv, ContentInv, InUse, Loop
<1>4. \A s \in Streams : delivered[s] = << >> /\ parsed[s] = {}
  BY DEF Init
<1>5. OwnFrames
  <2>1. \A i \in 1 .. Len(<< >>) : FALSE
    OBVIOUS
  <2> QED
    BY <1>4, <2>1, Zenon DEF OwnFrames
<1> QED
  BY <1>2, <1>3, <1>5 DEF IInv

LEMMA NextInv ==
  ASSUME MaxPuts = 1, IInv, [Next]_vars
  PROVE  IInv'
BY PoolStep, StoreStep, ServeStep, ContentStep, FramesStep DEF IInv

LEMMA Invariance ==
  ASSUME MaxPuts = 1
  PROVE  Spec => []IInv
<1>1. IInv /\ [Next]_vars => IInv'
  BY NextInv
<1> QED
  BY <1>1, InitInv, PTL DEF Spec

(* If no reader asks again after its Next has given the store back, then a *)
(* buffer has one owner: the pool, one stream that did not give it back,   *)
(* or serve between Get and Put of bpool.                                  *)
THEOREM BuffersHaveOneOwner ==
  ASSUME MaxPuts = 1
  PROVE  Spec => []OneOwner
<1>1. IInv => OneOwner
  BY DEF IInv, PoolInv, StoreInv, ServeInv, OneOwner, Free
<1> QED
  BY <1>1, Invariance, PTL

(* Under the same condition each reader gets its own frames in order,      *)
(* whatever other streams use the same buffers before and after, and serve *)
(* parses the end body of the stream it ends although the buffer is back   *)
(* in the pool.                                                            *)
THEOREM ReadersGetOwnFrames ==
  ASSUME MaxPuts = 1
  PROVE  Spec => []OwnFrames
<1>1. IInv => OwnFrames
  BY DEF IInv
<1> QED
  BY <1>1, Invariance, PTL
===============================================================================
