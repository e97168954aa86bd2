--------------------------- MODULE ByteStreamProofs ----------------------------
(***************************************************************************)
(* A theorem about ByteStream, for any amount of data, any sizes of blocks *)
(* and of buffers given to Read, and an end of the stream, of its context  *)
(* or of the session at any moment: the reader gets the bytes in order.    *)
(***************************************************************************)
EXTENDS ByteStream, SequenceTheorems, TLAPS

-------------------------------------------------------------------------------
(* The inductive invariant: what the reader has, its buffer, the source's  *)
(* store and the wire are one run of bytes.                                *)

(* A block of bytes that follow each other, and the byte due after it.     *)
Chunk(b) ==
  /\ b \in Seq(Nat) /\ Len(b) >= 1
  /\ \A i \in 1 .. Len(b) : b[i] + 1 = b[1] + i
Until(b) == b[1] + Len(b)

TypeInv ==
  /\ written \in Nat /\ accepted \in Nat
  /\ out \in Seq(Nat) /\ buf \in Seq(Nat)
  /\ store \in Seq(Seq(Nat)) /\ wire \in Seq(Seq(Nat))

(* Next is only asked when the buffer is empty, and says TRUE only when    *)
(* there is a block to take.                                               *)
ReadInv ==
  /\ \A i \in 1 .. Len(out) : out[i] = i
  /\ \A i \in 1 .. Len(buf) : buf[i] = Len(out) + i
  /\ Len(out) + Len(buf) <= accepted
  /\ rpc # "idle" => buf = << >>
  /\ rpc = "bytes" => store # << >>

StoreInv ==
  /\ \A i \in 1 .. Len(store) : Chunk(store[i]) /\ Until(store[i]) <= accepted + 1
  /\ store # << >> => store[1][1] = Len(out) + Len(buf) + 1
  /\ \A i \in 1 .. Len(store) - 1 : store[i + 1][1] = Until(store[i])

StoreNext == IF store = << >> THEN Len(out) + Len(buf) + 1 ELSE Until(store[Len(store)])

(* The wire goes on where the store ends, as long as the source takes what *)
(* comes; then the store never grows again.                                *)
PipeInv ==
  failed = "nil" =>
    /\ \A i \in 1 .. Len(wire) : wire[i] = End => i = Len(wire) /\ wpc = "closed"
    /\ \A i \in 1 .. Len(wire) : wire[i] # End => Chunk(wire[i]) /\ Until(wire[i]) <= accepted + 1
    /\ wire # << >> /\ wire[1] # End => wire[1][1] = StoreNext
    /\ \A i \in 1 .. Len(wire) - 1 : wire[i + 1] # End => wire[i + 1][1] = Until(wire[i])
    /\ wpc # "closed" => accepted + 1 = IF wire = << >> THEN StoreNext ELSE Until(wire[Len(wire)])

(* The count is one block behind while the sink answers, and only then.    *)
CountInv ==
  /\ wpc = "sent" => accepted = written + Len(Block)
  /\ wpc # "sent" => accepted = written

IInv == CountInv /\ TypeInv /\ ReadInv /\ StoreInv /\ PipeInv

-------------------------------------------------------------------------------
(* Facts about blocks and sequences.                                       *)

(* Appending, by index.                                                    *)
LEMMA Appended ==
  ASSUME NEW S, NEW s \in Seq(S), NEW x \in S
  PROVE  /\ Append(s, x) \in Seq(S) /\ Append(s, x) # << >>
         /\ Len(s) \in Nat /\ Len(Append(s, x)) = Len(s) + 1 /\ Append(s, x)[Len(s) + 1] = x
         /\ \A i \in 1 .. Len(s) : Append(s, x)[i] = s[i]
BY AppendProperties

(* The tail, by index.                                                     *)
LEMMA Taken ==
  ASSUME NEW S, NEW s \in Seq(S), s # << >>
  PROVE  /\ Tail(s) \in Seq(S) /\ Head(s) = s[1] /\ s[1] \in S
         /\ Len(s) \in Nat /\ Len(s) >= 1 /\ Len(Tail(s)) = Len(s) - 1
         /\ \A i \in 1 .. Len(Tail(s)) : Tail(s)[i] = s[i + 1]
BY HeadTailProperties

(* Only the empty sequence has length 0.                                   *)
LEMMA EmptyLen ==
  ASSUME NEW S, NEW s \in Seq(S)
  PROVE  Len(s) \in Nat /\ (s = << >> <=> Len(s) = 0)
OBVIOUS

(* What Write sends is a block that starts with the next byte.             *)
LEMMA BlockChunk ==
  ASSUME written \in Nat, written < Total
  PROVE  /\ Chunk(Block) /\ Block # End
         /\ Block[1] = written + 1 /\ Until(Block) = written + Len(Block) + 1
<1> DEFINE n == Lesser(ChunkSize, Total - written)
<1>1. n \in Nat /\ n >= 1
  BY ByteStreamAssumption DEF Lesser
<1>2. Block = [i \in 1 .. n |-> written + i]
  BY DEF Block
<1> HIDE DEF n
<1>3. Block \in Seq(Nat) /\ Len(Block) = n
  BY <1>1, <1>2
<1>4. \A i \in 1 .. Len(Block) : Block[i] = written + i
  BY <1>2, <1>3
<1>5. 1 \in 1 .. Len(Block)
  BY <1>1, <1>3
<1> HIDE DEF Block
<1>6. Block[1] = written + 1
  BY <1>4, <1>5
<1>7. \A i \in 1 .. Len(Block) : Block[i] + 1 = Block[1] + i
  BY <1>1, <1>3, <1>4, <1>6
<1>8. Until(Block) = written + Len(Block) + 1
  BY <1>1, <1>3, <1>6 DEF Until
<1>9. Block # End
  BY <1>1, <1>3 DEF End
<1> QED
  BY <1>1, <1>3, <1>6, <1>7, <1>8, <1>9 DEF Chunk

-------------------------------------------------------------------------------
(* The steps.                                                              *)

(* A block more on the wire.                                               *)
LEMMA WriteBlockStep == IInv /\ WriteBlock => IInv'
<1> SUFFICES ASSUME IInv, WriteBlock PROVE IInv'
  OBVIOUS
<1>1. /\ CountInv /\ TypeInv /\ ReadInv /\ StoreInv /\ PipeInv
      /\ wpc = "writing" /\ written < Total /\ wire' = Append(wire, Block)
      /\ wpc' = "sent" /\ accepted' = accepted + Len(Block)
      /\ UNCHANGED <<written, store, failed, rpc, buf, out>>
  BY DEF IInv, WriteBlock, readerVars
<1> DEFINE b == Block
<1>2. /\ Chunk(b) /\ b # End /\ b[1] = accepted + 1 /\ Until(b) = accepted + Len(b) + 1
  <2>1. accepted = written
    BY <1>1 DEF CountInv
  <2> QED
    BY <1>1, <2>1, BlockChunk DEF TypeInv
<1>3. wire' = Append(wire, b) /\ accepted' = accepted + Len(b)
  BY <1>1
<1>0. CountInv'
  <2>1. Block' = Block
    BY <1>1 DEF Block
  <2>2. accepted' = written' + Len(Block') /\ wpc' = "sent"
    BY <1>1, <2>1 DEF CountInv
  <2> QED
    BY <2>2 DEF CountInv
<1> HIDE DEF b
<1>4. b \in Seq(Nat) /\ Len(b) \in Nat /\ b[1] \in Nat /\ accepted \in Nat /\ written \in Nat
  BY <1>1, <1>2 DEF Chunk, TypeInv
<1> DEFINE w == wire
           v == Append(wire, b)
<1>5. /\ v \in Seq(Seq(Nat)) /\ v # << >>
      /\ Len(w) \in Nat /\ Len(v) = Len(w) + 1 /\ v[Len(w) + 1] = b
      /\ \A i \in 1 .. Len(w) : v[i] = w[i]
  <2> DEFINE S == Seq(Nat)
  <2>1. wire \in Seq(S) /\ b \in S
    BY <1>1, <1>4 DEF TypeInv
  <2> HIDE DEF S
  <2>2. /\ Append(wire, b) \in Seq(S) /\ Append(wire, b) # << >>
        /\ Len(wire) \in Nat /\ Len(Append(wire, b)) = Len(wire) + 1
        /\ Append(wire, b)[Len(wire) + 1] = b
        /\ \A i \in 1 .. Len(wire) : Append(wire, b)[i] = wire[i]
    BY <2>1, Appended
  <2> QED
    BY <2>2 DEF S
<1>6. wire' = v
  BY <1>3
<1>7. w = << >> <=> Len(w) = 0
  BY <1>1, EmptyLen DEF TypeInv
<1>8. TypeInv'
  BY <1>1, <1>3, <1>4, <1>5, <1>6 DEF TypeInv
<1>9. Len(out) \in Nat /\ Len(buf) \in Nat
  BY <1>1, EmptyLen DEF TypeInv
<1>10. ReadInv'
  BY <1>1, <1>3, <1>4, <1>9 DEF ReadInv
<1>11. \A c : Chunk(c) => Until(c) \in Nat
  BY DEF Chunk, Until
<1>12. StoreInv'
  <2>1. ASSUME NEW i \in 1 .. Len(store)
        PROVE  Chunk(store[i]) /\ Until(store[i]) <= accepted' + 1
    <3>1. Chunk(store[i]) /\ Until(store[i]) <= accepted + 1
      BY <1>1 DEF StoreInv
    <3> QED
      BY <1>3, <1>4, <1>11, <3>1
  <2> QED
    BY <1>1, <2>1 DEF StoreInv, Chunk, Until
<1>13. StoreNext' = StoreNext
  BY <1>1 DEF StoreNext, Until
<1>14. ASSUME failed = "nil"
       PROVE  /\ \A i \in 1 .. Len(w) : w[i] # End /\ Chunk(w[i]) /\ Until(w[i]) <= accepted + 1
              /\ w # << >> => w[1][1] = StoreNext
              /\ \A i \in 1 .. Len(w) - 1 : w[i + 1][1] = Until(w[i])
              /\ accepted + 1 = IF w = << >> THEN StoreNext ELSE Until(w[Len(w)])
  <2>1. \A i \in 1 .. Len(w) : w[i] # End
    BY <1>1, <1>14 DEF PipeInv
  <2>2. w # << >> => 1 \in 1 .. Len(w)
    BY <1>5, <1>7
  <2>3. \A i \in 1 .. Len(w) - 1 : i + 1 \in 1 .. Len(w)
    BY <1>5
  <2> QED
    BY <1>1, <1>14, <2>1, <2>2, <2>3 DEF PipeInv
<1> HIDE DEF w, v
<1>15. ASSUME failed = "nil"
       PROVE  /\ \A i \in 1 .. Len(v) : v[i] # End /\ Chunk(v[i]) /\ Until(v[i]) <= accepted' + 1
              /\ v[1][1] = StoreNext
              /\ \A i \in 1 .. Len(v) - 1 : v[i + 1][1] = Until(v[i])
              /\ accepted' + 1 = Until(v[Len(v)])
  <2>1. ASSUME NEW i \in 1 .. Len(v)
        PROVE  v[i] # End /\ Chunk(v[i]) /\ Until(v[i]) <= accepted' + 1
    <3>1. i = Len(w) + 1 \/ i \in 1 .. Len(w)
      BY <1>5
    <3>2. CASE i = Len(w) + 1
      BY <1>2, <1>3, <1>4, <1>5, <3>2
    <3>3. CASE i \in 1 .. Len(w)
      <4>1. v[i] = w[i] /\ w[i] # End /\ Chunk(w[i]) /\ Until(w[i]) <= accepted + 1
        BY <1>5, <1>14, <1>15, <3>3
      <4>2. Until(w[i]) \in Nat
        BY <1>11, <4>1
      <4>3. Until(w[i]) <= accepted' + 1
        BY <1>3, <1>4, <4>1, <4>2
      <4> QED
        BY <4>1, <4>3
    <3> QED
      BY <3>1, <3>2, <3>3
  <2>2. v[1][1] = StoreNext
    <3>1. CASE w = << >>
      BY <1>2, <1>5, <1>7, <1>14, <1>15, <3>1
    <3>2. CASE w # << >>
      <4>1. 1 \in 1 .. Len(w)
        BY <1>5, <1>7, <3>2
      <4> QED
        BY <1>5, <1>14, <1>15, <3>2, <4>1
    <3> QED
      BY <3>1, <3>2
  <2>3. ASSUME NEW i \in 1 .. Len(v) - 1
        PROVE  v[i + 1][1] = Until(v[i])
    <3>1. i \in 1 .. Len(w) /\ (i = Len(w) \/ (i \in 1 .. Len(w) - 1 /\ i + 1 \in 1 .. Len(w)))
      BY <1>5
    <3>2. CASE i = Len(w)
      BY <1>2, <1>5, <1>7, <1>14, <1>15, <3>1, <3>2
    <3>3. CASE i \in 1 .. Len(w) - 1 /\ i + 1 \in 1 .. Len(w)
      BY <1>5, <1>14, <1>15, <3>1, <3>3
    <3> QED
      BY <3>1, <3>2, <3>3
  <2>4. accepted' + 1 = Until(v[Len(v)])
    BY <1>2, <1>3, <1>4, <1>5
  <2> QED
    BY <2>1, <2>2, <2>3, <2>4
<1>16. /\ failed' = failed /\ wpc' # "closed" /\ wire' = v /\ v # << >>
       /\ \A i \in 1 .. Len(v) - 1 : i \in 1 .. Len(v) /\ i + 1 \in 1 .. Len(v)
  BY <1>1, <1>5, <1>6
<1>17. PipeInv'
  BY <1>13, <1>15, <1>16 DEF PipeInv, Chunk, Until, End
<1> QED
  BY <1>0, <1>8, <1>10, <1>12, <1>17 DEF IInv

(* The count stays when neither it nor the writer's turn moves.            *)
LEMMA CountKept ==
  ASSUME IInv, UNCHANGED <<written, accepted>>, wpc' = "sent" <=> wpc = "sent"
  PROVE  CountInv' /\ written' \in Nat
<1>1. Block' = Block
  BY DEF Block
<1> QED
  BY <1>1 DEF IInv, CountInv, TypeInv

(* Close puts the end behind the last block.                               *)
LEMMA CloseStep == IInv /\ Close => IInv'
<1> SUFFICES ASSUME IInv, Close PROVE IInv'
  OBVIOUS
<1>1. /\ TypeInv /\ ReadInv /\ StoreInv /\ PipeInv
      /\ wpc = "written" /\ wpc' = "closed" /\ wire' = Append(wire, End)
      /\ UNCHANGED <<written, accepted, store, failed, rpc, buf, out>>
  BY DEF IInv, Close, readerVars
<1>0. CountInv'
  BY <1>1, CountKept
<1> DEFINE S == Seq(Nat)
           w == wire
           v == wire'
<1>2. wire \in Seq(S) /\ End \in S
  BY <1>1 DEF TypeInv, End
<1> HIDE DEF S
<1>3. /\ v \in Seq(S) /\ v # << >>
      /\ Len(w) \in Nat /\ Len(v) = Len(w) + 1 /\ v[Len(w) + 1] = End
      /\ \A i \in 1 .. Len(w) : v[i] = w[i]
  BY <1>1, <1>2, Appended
<1>4. TypeInv'
  BY <1>1, <1>3 DEF TypeInv, S
<1>5. ReadInv' /\ StoreInv' /\ StoreNext' = StoreNext
  BY <1>1 DEF ReadInv, StoreInv, StoreNext, Chunk, Until
<1> HIDE DEF w, v
<1>6. ASSUME failed = "nil"
      PROVE  /\ \A i \in 1 .. Len(v) : v[i] = End => i = Len(v)
             /\ \A i \in 1 .. Len(v) : v[i] # End => Chunk(v[i]) /\ Until(v[i]) <= accepted + 1
             /\ v[1] # End => v[1][1] = StoreNext
             /\ \A i \in 1 .. Len(v) - 1 : v[i + 1] # End => v[i + 1][1] = Until(v[i])
  <2>1. /\ \A i \in 1 .. Len(w) : w[i] # End
        /\ \A i \in 1 .. Len(w) : w[i] # End => Chunk(w[i]) /\ Until(w[i]) <= accepted + 1
        /\ w # << >> /\ w[1] # End => w[1][1] = StoreNext
        /\ \A i \in 1 .. Len(w) - 1 : w[i + 1] # End => w[i + 1][1] = Until(w[i])
    BY <1>1, <1>6 DEF PipeInv, w
  <2>2. \A i \in 1 .. Len(v) : v[i] # End => i \in 1 .. Len(w) /\ v[i] = w[i]
    BY <1>3
  <2>3. \A i \in 1 .. Len(v) : i \in 1 .. Len(w) \/ i = Len(v)
    BY <1>3
  <2>4. w = << >> => Len(w) = 0
    OBVIOUS
  <2>5. ASSUME NEW i \in 1 .. Len(v) - 1, v[i + 1] # End
        PROVE  v[i + 1][1] = Until(v[i])
    <3>1. i + 1 \in 1 .. Len(w) /\ i \in 1 .. Len(w) - 1 /\ i \in 1 .. Len(w)
      BY <1>3, <2>5
    <3> QED
      BY <1>3, <2>1, <2>5, <3>1
  <2>6. v[1] # End => v[1][1] = StoreNext
    <3>1. v[1] # End => 1 \in 1 .. Len(w)
      BY <1>3
    <3> QED
      BY <1>3, <2>1, <2>4, <3>1
  <2> QED
    BY <1>3, <2>1, <2>2, <2>3, <2>5, <2>6
<1>7. /\ failed' = failed /\ wpc' = "closed" /\ accepted' = accepted /\ v # << >>
  BY <1>1, <1>3
<1>8. PipeInv'
  BY <1>5, <1>6, <1>7 DEF PipeInv, v, Chunk, Until, End
<1> QED
  BY <1>0, <1>4, <1>5, <1>8 DEF IInv

(* Steps that move no bytes.                                               *)
LEMMA QuietStep ==
  ASSUME IInv, CountInv', written' \in Nat,
         UNCHANGED <<accepted, wire, store, buf, out>>,
         failed' = "nil" => failed = "nil",
         wpc' = "closed" <=> wpc = "closed",
         rpc' # "idle" => buf = << >>,
         rpc' = "bytes" => store # << >>
  PROVE  IInv'
<1>1. /\ TypeInv /\ ReadInv /\ StoreInv /\ PipeInv
  BY DEF IInv
<1>2. TypeInv' /\ ReadInv' /\ StoreInv' /\ StoreNext' = StoreNext
  BY <1>1 DEF TypeInv, ReadInv, StoreInv, StoreNext, Chunk, Until
<1>3. PipeInv'
  BY <1>1, <1>2 DEF PipeInv, Chunk, Until, End
<1> QED
  BY <1>2, <1>3 DEF IInv

(* The sink has answered: the count is that of the bytes sent again.       *)
LEMMA WriteCountsStep == IInv /\ WriteCounts => IInv'
<1> SUFFICES ASSUME IInv, WriteCounts PROVE IInv'
  OBVIOUS
<1>1. /\ CountInv /\ TypeInv /\ ReadInv
      /\ wpc = "sent" /\ wpc' = "writing" /\ written' = written + Len(Block)
      /\ UNCHANGED <<accepted, wire, store, failed, rpc, buf, out>>
  BY DEF IInv, WriteCounts, readerVars
<1>2. written' = accepted
  BY <1>1 DEF CountInv
<1>3. CountInv' /\ written' \in Nat
  BY <1>1, <1>2 DEF CountInv, TypeInv
<1> QED
  BY <1>1, <1>3, QuietStep DEF ReadInv

(* The serve loop stops taking blocks, and what is left of the wire is of  *)
(* no account.                                                             *)
LEMMA DropStep ==
  ASSUME IInv, wire # << >>, wire' = Tail(wire), failed' # "nil",
         UNCHANGED <<written, accepted, wpc, store, buf, out, rpc>>
  PROVE  IInv'
<1>1. /\ TypeInv /\ ReadInv /\ StoreInv
  BY DEF IInv
<1> DEFINE S == Seq(Nat)
<1>2. wire \in Seq(S)
  BY <1>1 DEF TypeInv
<1> HIDE DEF S
<1>3. wire' \in Seq(S)
  BY <1>2, Taken
<1>4. TypeInv' /\ ReadInv' /\ StoreInv'
  BY <1>1, <1>3 DEF TypeInv, ReadInv, StoreInv, Chunk, Until, S
<1>5. PipeInv'
  BY DEF PipeInv
<1>0. CountInv'
  BY CountKept
<1> QED
  BY <1>0, <1>4, <1>5 DEF IInv

(* A block moves from the wire to the store.                               *)
LEMMA StoreStep ==
  ASSUME IInv, failed = "nil", wire # << >>, Head(wire) # End,
         wire' = Tail(wire), store' = Append(store, Head(wire)),
         UNCHANGED <<written, accepted, failed, wpc, buf, out, rpc>>
  PROVE  IInv'
<1>1. /\ TypeInv /\ ReadInv /\ StoreInv /\ PipeInv
  BY DEF IInv
<1> DEFINE S == Seq(Nat)
           w == wire
           u == wire'
           s == store
           t == store'
<1>2. wire \in Seq(S) /\ store \in Seq(S)
  BY <1>1 DEF TypeInv
<1> HIDE DEF S
<1>3. /\ u \in Seq(S) /\ Head(w) = w[1] /\ w[1] \in S
      /\ Len(w) \in Nat /\ Len(w) >= 1 /\ Len(u) = Len(w) - 1
      /\ \A i \in 1 .. Len(u) : u[i] = w[i + 1]
  BY <1>2, Taken
<1> DEFINE b == w[1]
<1>4. /\ t \in Seq(S) /\ t # << >>
      /\ Len(s) \in Nat /\ Len(t) = Len(s) + 1 /\ t[Len(s) + 1] = b
      /\ \A i \in 1 .. Len(s) : t[i] = s[i]
  BY <1>2, <1>3, Appended
<1>5. (s = << >> <=> Len(s) = 0) /\ (u = << >> <=> Len(u) = 0)
  BY <1>2, <1>3, EmptyLen
<1>6. /\ \A i \in 1 .. Len(w) : w[i] = End => i = Len(w) /\ wpc = "closed"
      /\ \A i \in 1 .. Len(w) : w[i] # End => Chunk(w[i]) /\ Until(w[i]) <= accepted + 1
      /\ w # << >> /\ w[1] # End => w[1][1] = StoreNext
      /\ \A i \in 1 .. Len(w) - 1 : w[i + 1] # End => w[i + 1][1] = Until(w[i])
      /\ wpc # "closed" => accepted + 1 = IF w = << >> THEN StoreNext ELSE Until(w[Len(w)])
  BY <1>1 DEF PipeInv
<1>7. b # End /\ Chunk(b) /\ Until(b) <= accepted + 1 /\ b[1] = StoreNext
  <2>1. 1 \in 1 .. Len(w)
    BY <1>3
  <2> QED
    BY <1>3, <1>6, <2>1
<1>8. TypeInv' /\ ReadInv'
  BY <1>1, <1>3, <1>4 DEF TypeInv, ReadInv, S
<1>9. /\ \A i \in 1 .. Len(s) : Chunk(s[i]) /\ Until(s[i]) <= accepted + 1
      /\ s # << >> => s[1][1] = Len(out) + Len(buf) + 1
      /\ \A i \in 1 .. Len(s) - 1 : s[i + 1][1] = Until(s[i])
  BY <1>1 DEF StoreInv
<1>10. StoreNext = IF s = << >> THEN Len(out) + Len(buf) + 1 ELSE Until(s[Len(s)])
  BY DEF StoreNext
<1> HIDE DEF w, u, s, t, b
<1>11. /\ \A i \in 1 .. Len(t) : Chunk(t[i]) /\ Until(t[i]) <= accepted + 1
       /\ t[1][1] = Len(out) + Len(buf) + 1
       /\ \A i \in 1 .. Len(t) - 1 : t[i + 1][1] = Until(t[i])
  <2>1. \A i \in 1 .. Len(t) : i = Len(s) + 1 \/ i \in 1 .. Len(s)
    BY <1>4
  <2>2. \A i \in 1 .. Len(t) : Chunk(t[i]) /\ Until(t[i]) <= accepted + 1
    BY <1>4, <1>7, <1>9, <2>1
  <2>3. t[1][1] = Len(out) + Len(buf) + 1
    <3>1. CASE s = << >>
      BY <1>4, <1>5, <1>7, <1>10, <3>1
    <3>2. CASE s # << >>
      <4>1. 1 \in 1 .. Len(s)
        BY <1>4, <1>5, <3>2
      <4> QED
        BY <1>4, <1>9, <3>2, <4>1
    <3> QED
      BY <3>1, <3>2
  <2>4. ASSUME NEW i \in 1 .. Len(t) - 1
        PROVE  t[i + 1][1] = Until(t[i])
    <3>1. i \in 1 .. Len(s) /\ (i = Len(s) \/ (i \in 1 .. Len(s) - 1 /\ i + 1 \in 1 .. Len(s)))
      BY <1>4
    <3>2. CASE i = Len(s)
      BY <1>4, <1>5, <1>7, <1>10, <3>1, <3>2
    <3>3. CASE i \in 1 .. Len(s) - 1 /\ i + 1 \in 1 .. Len(s)
      BY <1>4, <1>9, <3>1, <3>3
    <3> QED
      BY <3>1, <3>2, <3>3
  <2> QED
    BY <2>2, <2>3, <2>4
<1>12. StoreInv'
  BY <1>11 DEF StoreInv, Chunk, Until, t
<1>13. StoreNext' = Until(b)
  BY <1>4 DEF StoreNext, Until, t
<1>14. /\ \A i \in 1 .. Len(u) : u[i] = End => i = Len(u) /\ wpc = "closed"
       /\ \A i \in 1 .. Len(u) : u[i] # End => Chunk(u[i]) /\ Until(u[i]) <= accepted + 1
       /\ u # << >> /\ u[1] # End => u[1][1] = Until(b)
       /\ \A i \in 1 .. Len(u) - 1 : u[i + 1] # End => u[i + 1][1] = Until(u[i])
       /\ wpc # "closed" => accepted + 1 = IF u = << >> THEN Until(b) ELSE Until(u[Len(u)])
  <2>1. \A i \in 1 .. Len(u) : i + 1 \in 1 .. Len(w) /\ (i + 1 = Len(w) <=> i = Len(u))
    BY <1>3
  <2>2. /\ \A i \in 1 .. Len(u) : u[i] = End => i = Len(u) /\ wpc = "closed"
        /\ \A i \in 1 .. Len(u) : u[i] # End => Chunk(u[i]) /\ Until(u[i]) <= accepted + 1
    BY <1>3, <1>6, <2>1
  <2>3. u # << >> /\ u[1] # End => u[1][1] = Until(b)
    <3>1. u # << >> => 1 \in 1 .. Len(u) /\ 1 \in 1 .. Len(w) - 1
      BY <1>3, <1>5
    <3> QED
      BY <1>3, <1>6, <3>1 DEF b
  <2>4. ASSUME NEW i \in 1 .. Len(u) - 1, u[i + 1] # End
        PROVE  u[i + 1][1] = Until(u[i])
    <3>1. i \in 1 .. Len(u) /\ i + 1 \in 1 .. Len(u) /\ i + 1 \in 1 .. Len(w) - 1
      BY <1>3
    <3> QED
      BY <1>3, <1>6, <2>4, <3>1
  <2>5. wpc # "closed" => accepted + 1 = IF u = << >> THEN Until(b) ELSE Until(u[Len(u)])
    <3>1. CASE u = << >>
      <4>1. Len(w) = 1 /\ w # << >>
        BY <1>3, <1>5, <3>1 DEF w
      <4> QED
        BY <1>6, <3>1, <4>1 DEF b
    <3>2. CASE u # << >>
      <4>1. Len(u) \in 1 .. Len(u) /\ Len(u) + 1 = Len(w) /\ w # << >>
        BY <1>3, <1>5, <3>2 DEF w
      <4> QED
        BY <1>3, <1>6, <3>2, <4>1
    <3> QED
      BY <3>1, <3>2
  <2> QED
    BY <2>2, <2>3, <2>4, <2>5
<1>15. PipeInv'
  BY <1>13, <1>14 DEF PipeInv, u, Chunk, Until, End
<1>0. CountInv'
  BY CountKept
<1> QED
  BY <1>0, <1>8, <1>12, <1>15 DEF IInv

(* Bytes move from the buffer to what was read.                            *)
LEMMA ReadBufferedStep == IInv /\ ReadBuffered => IInv'
<1> SUFFICES ASSUME IInv, ReadBuffered PROVE IInv'
  OBVIOUS
<1>1. /\ TypeInv /\ ReadInv /\ StoreInv /\ PipeInv
      /\ rpc = "idle" /\ buf # << >>
      /\ UNCHANGED <<wpc, written, accepted, wire, store, failed, rpc>>
  BY DEF IInv, ReadBuffered, writerVars
<1>2. PICK n \in 1 .. Lesser(Len(buf), ReadSize) :
        out' = out \o SubSeq(buf, 1, n) /\ buf' = SubSeq(buf, n + 1, Len(buf))
  BY DEF ReadBuffered
<1>3. out \in Seq(Nat) /\ buf \in Seq(Nat)
  BY <1>1 DEF TypeInv
<1>4. Len(out) \in Nat /\ Len(buf) \in Nat /\ n \in 1 .. Len(buf)
  BY <1>2, <1>3, ByteStreamAssumption DEF Lesser
<1> DEFINE a == SubSeq(buf, 1, n)
           z == SubSeq(buf, n + 1, Len(buf))
<1>5. /\ a \in Seq(Nat) /\ Len(a) = n
      /\ \A i \in 1 .. n : a[i] = buf[i]
  <2>1. \A i \in 1 .. n : buf[i] \in Nat
    BY <1>3, <1>4
  <2> QED
    BY <1>4, <2>1, SubSeqProperties
<1>6. /\ z \in Seq(Nat) /\ Len(z) = Len(buf) - n
      /\ \A i \in 1 .. Len(buf) - n : z[i] = buf[n + i]
  <2>1. \A i \in n + 1 .. Len(buf) : buf[i] \in Nat
    BY <1>3, <1>4
  <2>2. n + 1 \in Int /\ Len(buf) \in Int
    BY <1>4
  <2>3. /\ z \in Seq(Nat)
        /\ Len(z) = IF n + 1 <= Len(buf) THEN Len(buf) - (n + 1) + 1 ELSE 0
        /\ \A i \in 1 .. Len(buf) - (n + 1) + 1 : z[i] = buf[n + 1 + i - 1]
    BY <2>1, <2>2, SubSeqProperties
  <2> QED
    BY <1>4, <2>3
<1>7. out' = out \o a /\ buf' = z
  BY <1>2
<1> HIDE DEF a, z
<1>8. /\ out \o a \in Seq(Nat) /\ Len(out \o a) = Len(out) + n
      /\ \A i \in 1 .. Len(out) + n :
           (out \o a)[i] = IF i <= Len(out) THEN out[i] ELSE a[i - Len(out)]
  BY <1>3, <1>5, ConcatProperties
<1>9. Len(out') = Len(out) + n /\ Len(buf') = Len(buf) - n
  BY <1>6, <1>7, <1>8
<1>10. Len(out') + Len(buf') = Len(out) + Len(buf)
  BY <1>4, <1>9
<1>11. TypeInv'
  BY <1>1, <1>6, <1>7, <1>8 DEF TypeInv
<1>12. /\ \A i \in 1 .. Len(out) : out[i] = i
       /\ \A i \in 1 .. Len(buf) : buf[i] = Len(out) + i
       /\ Len(out) + Len(buf) <= accepted
  BY <1>1 DEF ReadInv
<1>13. ASSUME NEW i \in 1 .. Len(out')
       PROVE  out'[i] = i
  <2>1. i \in 1 .. Len(out) + n /\ out'[i] = (out \o a)[i]
    BY <1>7, <1>9
  <2>2. CASE i <= Len(out)
    BY <1>4, <1>8, <1>12, <2>1, <2>2
  <2>3. CASE ~(i <= Len(out))
    <3>1. i - Len(out) \in 1 .. n /\ i - Len(out) \in 1 .. Len(buf)
      BY <1>4, <2>1, <2>3
    <3>2. out'[i] = buf[i - Len(out)]
      BY <1>5, <1>8, <2>1, <2>3, <3>1
    <3> QED
      BY <1>4, <1>12, <3>1, <3>2
  <2> QED
    BY <2>2, <2>3
<1>14. ASSUME NEW i \in 1 .. Len(buf')
       PROVE  buf'[i] = Len(out') + i
  <2>1. i \in 1 .. Len(buf) - n /\ n + i \in 1 .. Len(buf)
    BY <1>4, <1>9
  <2>2. buf'[i] = buf[n + i] /\ buf[n + i] = Len(out) + (n + i)
    BY <1>6, <1>7, <1>12, <2>1
  <2> QED
    BY <1>4, <1>9, <2>1, <2>2
<1>15. ReadInv'
  BY <1>1, <1>10, <1>12, <1>13, <1>14 DEF ReadInv
<1>16. StoreInv' /\ StoreNext' = StoreNext
  BY <1>1, <1>10 DEF StoreInv, StoreNext, Chunk, Until
<1>17. PipeInv'
  BY <1>1, <1>16 DEF PipeInv, Chunk, Until, End
<1>0. CountInv'
  BY <1>1, CountKept
<1> QED
  BY <1>0, <1>11, <1>15, <1>16, <1>17 DEF IInv

(* The block that Next promised becomes the buffer.                        *)
LEMMA BytesStep == IInv /\ Bytes => IInv'
<1> SUFFICES ASSUME IInv, Bytes PROVE IInv'
  OBVIOUS
<1>1. /\ TypeInv /\ ReadInv /\ StoreInv /\ PipeInv
      /\ rpc = "bytes" /\ rpc' = "idle"
      /\ buf' = Head(store) /\ store' = Tail(store)
      /\ UNCHANGED <<wpc, written, accepted, wire, failed, out>>
  BY DEF IInv, Bytes, writerVars
<1>2. buf = << >> /\ store # << >>
  BY <1>1 DEF ReadInv
<1> DEFINE S == Seq(Nat)
           s == store
           t == store'
           b == store[1]
<1>3. store \in Seq(S)
  BY <1>1 DEF TypeInv
<1> HIDE DEF S
<1>4. /\ t \in Seq(S) /\ buf' = b /\ b \in S
      /\ Len(s) \in Nat /\ Len(s) >= 1 /\ Len(t) = Len(s) - 1
      /\ \A i \in 1 .. Len(t) : t[i] = s[i + 1]
  BY <1>1, <1>2, <1>3, Taken
<1>5. t = << >> <=> Len(t) = 0
  BY <1>4, EmptyLen
<1>6. out \in Seq(Nat) /\ Len(out) \in Nat /\ accepted \in Nat /\ Len(buf) = 0
  BY <1>1, <1>2 DEF TypeInv
<1>7. /\ \A i \in 1 .. Len(s) : Chunk(s[i]) /\ Until(s[i]) <= accepted + 1
      /\ s[1][1] = Len(out) + 1
      /\ \A i \in 1 .. Len(s) - 1 : s[i + 1][1] = Until(s[i])
  BY <1>1, <1>2, <1>6 DEF StoreInv
<1>8. Chunk(b) /\ Until(b) <= accepted + 1 /\ b[1] = Len(out) + 1
  <2>1. 1 \in 1 .. Len(s)
    BY <1>4
  <2> QED
    BY <1>7, <2>1
<1>9. StoreNext = Until(s[Len(s)])
  BY <1>2 DEF StoreNext
<1>10. TypeInv'
  BY <1>1, <1>4 DEF TypeInv, S
<1> HIDE DEF s, t, b
<1>11. /\ Len(b) \in Nat /\ Until(b) = Len(out) + Len(b) + 1
       /\ \A i \in 1 .. Len(b) : b[i] = Len(out) + i
  <2>1. b \in Seq(Nat) /\ Len(b) \in Nat /\ \A i \in 1 .. Len(b) : b[i] + 1 = b[1] + i
    BY <1>8 DEF Chunk
  <2>2. ASSUME NEW i \in 1 .. Len(b) PROVE b[i] = Len(out) + i
    <3>1. b[i] \in Nat /\ b[i] + 1 = Len(out) + 1 + i
      BY <1>8, <2>1
    <3> QED
      BY <1>6, <2>1, <3>1
  <2>3. Until(b) = Len(out) + Len(b) + 1
    BY <1>6, <1>8, <2>1 DEF Until
  <2> QED
    BY <2>1, <2>2, <2>3
<1>12. ReadInv'
  BY <1>1, <1>4, <1>6, <1>8, <1>11 DEF ReadInv
<1>13. Len(out') + Len(buf') + 1 = Until(b)
  BY <1>1, <1>4, <1>6, <1>11
<1>14. /\ \A i \in 1 .. Len(t) : Chunk(t[i]) /\ Until(t[i]) <= accepted + 1
       /\ t # << >> => t[1][1] = Until(b)
       /\ \A i \in 1 .. Len(t) - 1 : t[i + 1][1] = Until(t[i])
  <2>1. ASSUME NEW i \in 1 .. Len(t)
        PROVE  Chunk(t[i]) /\ Until(t[i]) <= accepted + 1
    <3>1. i + 1 \in 1 .. Len(s)
      BY <1>4
    <3> QED
      BY <1>4, <1>7, <3>1
  <2>2. t # << >> => t[1][1] = Until(b)
    <3>1. t # << >> => 1 \in 1 .. Len(t) /\ 1 \in 1 .. Len(s) - 1
      BY <1>4, <1>5
    <3> QED
      BY <1>4, <1>7, <3>1 DEF b, s
  <2>3. ASSUME NEW i \in 1 .. Len(t) - 1
        PROVE  t[i + 1][1] = Until(t[i])
    <3>1. i \in 1 .. Len(t) /\ i + 1 \in 1 .. Len(t) /\ i + 1 \in 1 .. Len(s) - 1
      BY <1>4
    <3> QED
      BY <1>4, <1>7, <3>1
  <2> QED
    BY <2>1, <2>2, <2>3
<1>15. StoreInv'
  BY <1>1, <1>13, <1>14 DEF StoreInv, Chunk, Until, t
<1>16. StoreNext' = StoreNext
  <2>1. StoreNext' = IF t = << >> THEN Until(b) ELSE Until(t[Len(t)])
    BY <1>13 DEF StoreNext, Until, t
  <2>2. CASE t = << >>
    <3>1. Len(s) = 1
      BY <1>4, <1>5, <2>2
    <3> QED
      BY <1>9, <2>1, <2>2, <3>1 DEF b, s
  <2>3. CASE t # << >>
    <3>1. Len(t) \in 1 .. Len(t) /\ Len(t) + 1 = Len(s)
      BY <1>4, <1>5, <2>3
    <3> QED
      BY <1>4, <1>9, <2>1, <2>3, <3>1
  <2> QED
    BY <2>2, <2>3
<1>17. PipeInv'
  BY <1>1, <1>16 DEF PipeInv, Chunk, Until, End
<1>0. CountInv'
  BY <1>1, CountKept
<1> QED
  BY <1>0, <1>10, <1>12, <1>15, <1>17 DEF IInv

-------------------------------------------------------------------------------
(* The invariance.                                                         *)

(* It holds at the start.                                                  *)
LEMMA InitInv == Init => IInv
<1> SUFFICES ASSUME Init PROVE IInv
  OBVIOUS
<1>1. Len(<< >>) = 0 /\ \A S : << >> \in Seq(S)
  OBVIOUS
<1>2. TypeInv
  BY <1>1 DEF Init, TypeInv
<1>3. ReadInv /\ StoreInv /\ StoreNext = 1
  BY <1>1 DEF Init, ReadInv, StoreInv, StoreNext
<1>4. PipeInv
  BY <1>1, <1>3 DEF Init, PipeInv
<1>5. CountInv
  BY DEF Init, CountInv
<1> QED
  BY <1>2, <1>3, <1>4, <1>5 DEF IInv

(* Every step keeps it.                                                    *)
LEMMA NextInv == IInv /\ [Next]_vars => IInv'
<1> SUFFICES ASSUME IInv, [Next]_vars PROVE IInv'
  OBVIOUS
<1>1. (rpc # "idle" => buf = << >>) /\ (rpc = "bytes" => store # << >>)
  BY DEF IInv, ReadInv
<1>2. CASE WriteBlock
  BY <1>2, WriteBlockStep
<1>0. CASE WriteCounts
  BY <1>0, WriteCountsStep
<1>3. CASE WriteFails
  BY <1>1, <1>3, QuietStep, CountKept DEF WriteFails, readerVars
<1>4. CASE WriteReturns
  BY <1>1, <1>4, QuietStep, CountKept DEF WriteReturns, readerVars
<1>5. CASE Close
  BY <1>5, CloseStep
<1>6. CASE consume
  <2>1. CASE failed = "nil"
    BY <1>6, <2>1, StoreStep DEF consume, writerVars, readerVars
  <2>2. CASE failed # "nil"
    BY <1>6, <2>2, DropStep DEF consume, writerVars, readerVars
  <2> QED
    BY <2>1, <2>2
<1>7. CASE closeStreamCancel
  BY <1>7, DropStep DEF closeStreamCancel, writerVars, readerVars
<1>8. CASE closeStreamAbort
  BY <1>1, <1>8, QuietStep, CountKept DEF closeStreamAbort, writerVars, readerVars
<1>9. CASE TerminateCtx
  BY <1>1, <1>9, QuietStep, CountKept DEF TerminateCtx, writerVars, readerVars
<1>10. CASE TerminateCancel
  BY <1>1, <1>10, QuietStep, CountKept DEF TerminateCancel, writerVars, readerVars
<1>11. CASE ReadBuffered
  BY <1>11, ReadBufferedStep
<1>12. CASE NextCheck
  <2>1. /\ UNCHANGED <<written, accepted, wpc, wire, store, buf, out>> /\ buf = << >>
        /\ failed' = failed /\ (rpc' = "bytes" => store # << >>)
    BY <1>12 DEF NextCheck, NextIs, writerVars
  <2> QED
    BY <2>1, QuietStep, CountKept
<1>13. CASE NextSelect
  <2>1. /\ UNCHANGED <<written, accepted, wpc, wire, store, buf, out>> /\ buf = << >>
        /\ (failed' = "nil" => failed = "nil") /\ (rpc' = "bytes" => store # << >>)
    BY <1>1, <1>13 DEF NextSelect, NextIs, writerVars
  <2> QED
    BY <2>1, QuietStep, CountKept
<1>14. CASE Bytes
  BY <1>14, BytesStep
<1>15. CASE UNCHANGED vars
  BY <1>1, <1>15, QuietStep, CountKept DEF vars, writerVars, readerVars
<1> QED
  BY <1>0, <1>2, <1>3, <1>4, <1>5, <1>6, <1>7, <1>8, <1>9, <1>10, <1>11, <1>12, <1>13, <1>14, <1>15
  DEF Next, WriterStep, ServeStep, ReaderStep

(* In every behaviour, always.                                             *)
LEMMA Invariance == Spec => []IInv
BY InitInv, NextInv, PTL DEF Spec

(* The reader of a byte stream gets the bytes in the order in which they   *)
(* were written, none twice and none left out, and a Write counts what     *)
(* went out: for blocks and buffers of any size, and however the stream    *)
(* ends.                                                                   *)
THEOREM BytesComeInOrder == Spec => []BytesInOrder
<1>1. IInv => BytesInOrder
  <2> SUFFICES ASSUME IInv PROVE BytesInOrder
    OBVIOUS
  <2>1. CountInv /\ TypeInv /\ ReadInv
    BY DEF IInv
  <2>2. Len(out) \in Nat /\ Len(buf) \in Nat /\ accepted \in Nat
    BY <2>1 DEF TypeInv
  <2> QED
    BY <2>1, <2>2 DEF CountInv, ReadInv, BytesInOrder
<1> QED
  BY <1>1, Invariance, PTL
===============================================================================
