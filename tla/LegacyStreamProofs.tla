--------------------------- MODULE LegacyStreamProofs ---------------------------
(***************************************************************************)
(* Proofs about LegacyStream, for any set of encodings, any bounds, any    *)
(* ways to send a value and any sink of a call.  They are about streams of *)
(* one encoding (~Mixed): of others both properties are false.             *)
(***************************************************************************)
EXTENDS LegacyStream, FiniteSets, FiniteSetTheorems, TLAPS

Encoding == {"binary", "string", "json"}
TypeBits == {"string", "json"}
Flags == SUBSET {"stream", "string", "json", "enderr"}
Packet == [flag : Flags, native : Encoding \cup {"none"}, enc : Encoding \cup {"none"}]

(* The type bits that tell encoding e.                                     *)
BitsOf(e) == {e} \ {"binary"}

Frame(pkt) == "enderr" \notin pkt.flag
FramesAt(s) == {i \in 1 .. Len(s) : Frame(s[i])}
Frames(s) == Cardinality(FramesAt(s))

(* The sinks with the stream bit: all of a stream but one.                 *)
HasBit == ~async /\ ~(kind = "source" /\ by = "caller")

(* The type bits of a frame tell its encoding, and the stream bit is on    *)
(* every packet of a sink that has it.                                     *)
Tells(pkt) ==
  /\ pkt.enc # "none" => pkt.flag \cap TypeBits = BitsOf(pkt.enc)
  /\ "stream" \in pkt.flag <=> HasBit

(* The value in a packet is of the encoding of the call, and encoded so.   *)
Faithful(pkt) == pkt.enc = re /\ pkt.native = re

TypeInv ==
  /\ re \in Encoding
  /\ flag \in SUBSET {"stream", "string", "json"}
  /\ wire \in Seq(Packet) /\ store \in Seq(Packet)
  /\ poured \in Seq(Encoding) /\ decoded \in Seq(Encoding \cup {"error", "garbled"})
  /\ branch # "none" => store # << >>

(* A sink never gets a type bit of another encoding, but for what a Return *)
(* of bytes does after the only value of an async call.                    *)
FlagInv ==
  /\ "stream" \in flag <=> HasBit
  /\ (async => poured = << >>) => flag \cap TypeBits \subseteq BitsOf(re)

WireInv == \A i \in 1 .. Len(wire) : Tells(wire[i])

SentFlagsInv == TypeInv /\ FlagInv /\ WireInv

(* What is under way, stored and decoded is faithful and was poured; the   *)
(* flag that Next tests is that of some frame of the call, and so of all.  *)
WayInv ==
  /\ \A i \in 1 .. Len(wire) : Frame(wire[i]) => Faithful(wire[i])
  /\ \A i \in 1 .. Len(store) : Faithful(store[i])
  /\ \A i \in 1 .. Len(poured) : poured[i] = re
  /\ \A i \in 1 .. Len(decoded) : decoded[i] = re
HeldInv ==
  /\ store # << >> /\ ~async => hdrFlag \cap TypeBits = BitsOf(re)
  /\ branch # "none" => branch = re
CountInv == Len(decoded) + Len(store) + Frames(wire) <= Len(poured)

DecodeInv == WayInv /\ HeldInv /\ CountInv

-------------------------------------------------------------------------------
(* Counting the frames of a queue.                                         *)

LEMMA FramesType ==
  ASSUME NEW s \in Seq(Packet)
  PROVE  IsFiniteSet(FramesAt(s)) /\ Frames(s) \in Nat
<1>1. IsFiniteSet(1 .. Len(s))
  BY FS_Interval
<1>2. FramesAt(s) \in SUBSET (1 .. Len(s))
  BY DEF FramesAt
<1>3. IsFiniteSet(FramesAt(s))
  BY <1>1, <1>2, FS_Subset
<1> QED
  BY <1>3, FS_CardinalityType DEF Frames

LEMMA FramesAppend ==
  ASSUME NEW s \in Seq(Packet), NEW e \in Packet
  PROVE  Frames(Append(s, e)) = IF Frame(e) THEN Frames(s) + 1 ELSE Frames(s)
<1> DEFINE n == Len(s)  t == Append(s, e)
<1>1. n \in Nat /\ Len(t) = n + 1
  OBVIOUS
<1>2. t[n + 1] = e /\ \A i \in 1 .. n : t[i] = s[i]
  OBVIOUS
<1> HIDE DEF t, n
<1>3. 1 .. n + 1 = (1 .. n) \cup {n + 1} /\ n + 1 \notin 1 .. n
  BY <1>1
<1>4. n + 1 \notin FramesAt(s)
  BY <1>3 DEF FramesAt, n
<1>5. FramesAt(t) = IF Frame(e) THEN FramesAt(s) \cup {n + 1} ELSE FramesAt(s)
  BY <1>1, <1>2, <1>3 DEF FramesAt, n
<1>6. CASE Frame(e)
  <2>1. FramesAt(t) = FramesAt(s) \cup {n + 1}
    BY <1>5, <1>6
  <2> QED
    BY <1>4, <1>6, <2>1, FramesType, FS_AddElement DEF Frames, t
<1>7. CASE ~Frame(e)
  BY <1>5, <1>7 DEF Frames, t
<1> QED
  BY <1>6, <1>7

LEMMA FramesTail ==
  ASSUME NEW s \in Seq(Packet), s # << >>
  PROVE  Frames(s) = IF Frame(Head(s)) THEN Frames(Tail(s)) + 1 ELSE Frames(Tail(s))
<1> DEFINE n == Len(s)  t == Tail(s)  B == FramesAt(t)  C == {i + 1 : i \in B}
<1>1. n \in Nat /\ n > 0 /\ Len(t) = n - 1 /\ t \in Seq(Packet)
  OBVIOUS
<1>2. Head(s) = s[1] /\ \A i \in 1 .. n - 1 : t[i] = s[i + 1]
  OBVIOUS
<1>3. IsFiniteSet(B) /\ Frames(t) = Cardinality(B) /\ Frames(t) \in Nat
  BY <1>1, FramesType DEF Frames
<1> HIDE DEF t, n
<1>4. B \subseteq 1 .. n - 1 /\ \A i \in 1 .. n - 1 : i \in B <=> Frame(s[i + 1])
  BY <1>1, <1>2 DEF FramesAt
<1>5. C \subseteq 1 .. n /\ 1 \notin C
  BY <1>1, <1>4
<1>6. \A i \in 1 .. n : i # 1 => (i \in C <=> Frame(s[i]))
  <2> TAKE i \in 1 .. n
  <2>1. SUFFICES ASSUME i # 1 PROVE i \in C <=> Frame(s[i])
    OBVIOUS
  <2>2. i - 1 \in 1 .. n - 1 /\ (i - 1) + 1 = i
    BY <1>1, <2>1
  <2>3. \A k \in B : k + 1 = i => k = i - 1
    BY <1>1, <1>4
  <2>4. i \in C <=> i - 1 \in B
    BY <2>2, <2>3
  <2> QED
    BY <1>4, <2>2, <2>4
<1>7. IsFiniteSet(C) /\ Cardinality(C) = Cardinality(B)
  <2> DEFINE f == [i \in B |-> i + 1]
  <2>1. f \in [B -> C]
    OBVIOUS
  <2>2. \A i, j \in B : f[i] = f[j] => i = j
    BY <1>1, <1>4
  <2>3. \A k \in C : \E i \in B : f[i] = k
    OBVIOUS
  <2>4. f \in Bijection(B, C)
    BY <2>1, <2>2, <2>3 DEF Bijection, Injection, IsInjective, Surjection
  <2>5. ExistsBijection(B, C)
    BY <2>4 DEF ExistsBijection
  <2> QED
    BY <1>3, <2>5, FS_Bijection
<1>8. FramesAt(s) = IF Frame(Head(s)) THEN C \cup {1} ELSE C
  <2>1. 1 \in 1 .. n
    BY <1>1
  <2> HIDE DEF C
  <2> QED
    BY <1>2, <1>5, <1>6, <2>1 DEF FramesAt, n
<1> HIDE DEF B, C
<1>9. CASE Frame(Head(s))
  <2>1. FramesAt(s) = C \cup {1}
    BY <1>8, <1>9
  <2>2. Frames(s) = Cardinality(C) + 1
    BY <1>5, <1>7, <2>1, FS_AddElement DEF Frames
  <2> QED
    BY <1>3, <1>7, <1>9, <2>2 DEF t
<1>10. CASE ~Frame(Head(s))
  BY <1>3, <1>7, <1>8, <1>10 DEF Frames, t
<1> QED
  BY <1>9, <1>10
-------------------------------------------------------------------------------
(* What an application sends.                                              *)

(* The flags of a sink tell the encoding of the value that is next.        *)
LEMMA SendTells ==
  ASSUME ~Mixed, TypeInv, FlagInv, NEW k \in DOMAIN Sends, MaySend(k)
  PROVE  LET s == Sends[k]  f == SetEncoding(s.sets) IN
         /\ f \in SUBSET {"stream", "string", "json"}
         /\ "stream" \in f <=> HasBit
         /\ s.enc # "none" => f \cap TypeBits = BitsOf(s.enc)
         /\ s.native = re /\ s.enc \in Encoding \cup {"none"}
         /\ \/ f \cap TypeBits \subseteq BitsOf(re) /\ s.enc \in {"none", re}
            \/ k = "returnBytes" /\ async /\ s.enc = "json"
<1> DEFINE s == Sends[k]  f == SetEncoding(s.sets)
<1>0. s.native = re /\ (k \in Returns => async) /\ (async => Len(poured) < 1) /\ re \in Encoding
  BY DEF MaySend, TypeInv
<1>1. async => poured = << >>
  BY <1>0 DEF TypeInv
<1>2. /\ flag \in SUBSET {"stream", "string", "json"} /\ ("stream" \in flag <=> HasBit)
      /\ flag \cap TypeBits \subseteq BitsOf(re)
  BY <1>1 DEF FlagInv, TypeInv
<1>3. CASE k = "pourBytes"
  <2>1. s = Sent("binary", "binary", "none")
    BY <1>3 DEF Sends
  <2>2. s.native = "binary" /\ s.enc = "binary" /\ s.sets = "none"
    BY <2>1 DEF Sent
  <2>3. f = flag /\ re = "binary"
    BY <1>0, <2>2 DEF SetEncoding
  <2> HIDE DEF s, f
  <2>4. f \cap TypeBits = BitsOf("binary")
    BY <1>2, <2>3 DEF TypeBits, BitsOf
  <2>5. s.enc \in Encoding
    BY <2>2 DEF Encoding
  <2> QED
    BY <1>0, <1>2, <2>2, <2>3, <2>4, <2>5 DEF s, f
<1>4. ASSUME s \in {Sent(re, re, re), Sent("json", "none", "json")}
      PROVE  /\ f \in SUBSET {"stream", "string", "json"}
             /\ "stream" \in f <=> HasBit
             /\ f \cap TypeBits \subseteq BitsOf(re)
             /\ s.enc # "none" => f \cap TypeBits = BitsOf(s.enc)
             /\ s.enc \in {"none", re}
  <2>1. s.sets = re /\ s.enc \in {"none", re}
    BY <1>0, <1>4 DEF Sent
  <2>2. f = (IF re = "binary" THEN flag \ {"json"} ELSE flag) \cup asCodecFlag(re)
    BY <1>0, <2>1 DEF SetEncoding, Encoding
  <2> HIDE DEF s, f
  <2>3. f \in SUBSET {"stream", "string", "json"} /\ ("stream" \in f <=> HasBit)
    BY <1>2, <2>2 DEF asCodecFlag
  <2>4. f \cap TypeBits = BitsOf(re)
    BY <1>0, <1>2, <2>2 DEF asCodecFlag, TypeBits, BitsOf, Encoding
  <2> QED
    BY <2>1, <2>3, <2>4
<1>5. CASE k \in {"pourString", "pourRaw", "pourValue", "pourBad", "writeBinary", "writeString",
                  "writeJSON", "returnString", "returnValue"}
  <2>1. s \in {Sent(re, re, re), Sent("json", "none", "json")}
    BY <1>0, <1>5 DEF Sends, Sent
  <2>2. s.enc \in Encoding \cup {"none"}
    BY <1>0, <2>1 DEF Sent
  <2> HIDE DEF s, f
  <2> QED
    BY <1>0, <1>4, <2>1, <2>2 DEF s, f
<1>6. CASE k = "returnBytes"
  <2>1. s.sets = "json" /\ s.enc = "json" /\ re = "binary" /\ async
    BY <1>0, <1>6 DEF Sends, Sent, Returns
  <2>2. f = flag \cup {"json"}
    BY <2>1 DEF SetEncoding, asCodecFlag
  <2> HIDE DEF s, f
  <2>3. /\ f \in SUBSET {"stream", "string", "json"} /\ ("stream" \in f <=> HasBit)
        /\ f \cap TypeBits = BitsOf("json")
    BY <1>2, <2>1, <2>2 DEF TypeBits, BitsOf
  <2>4. s.enc \in Encoding /\ s.enc # "none"
    BY <2>1 DEF Encoding
  <2> QED
    BY <1>0, <1>6, <2>1, <2>3, <2>4 DEF s, f
<1>7. DOMAIN Sends = {"pourBytes", "pourString", "pourRaw", "pourValue", "pourBad", "writeBinary",
                      "writeString", "writeJSON", "returnString", "returnValue", "returnBytes"}
  BY DEF Sends
<1> QED
  BY <1>3, <1>5, <1>6, <1>7

LEMMA EndTells ==
  ASSUME TypeInv, FlagInv
  PROVE  EndPacket \in Packet /\ ~Frame(EndPacket) /\ Tells(EndPacket)
<1>1. EndPacket.flag = {"json", "enderr"} \cup (flag \cap {"stream"}) /\ EndPacket.enc = "none"
  BY DEF EndPacket
<1> QED
  BY <1>1 DEF EndPacket, Packet, Flags, Frame, Tells, FlagInv, TypeInv

(* The three things a step does to the queue.                              *)
LEMMA PourWrites ==
  ASSUME ~Mixed, TypeInv, FlagInv, NEW k \in DOMAIN Sends, Pour(k)
  PROVE  /\ flag' \in SUBSET {"stream", "string", "json"} /\ FlagInv'
         /\ \/ wire' = wire /\ poured' = poured
            \/ \E e \in Packet :
                 /\ wire' = Append(wire, e) /\ poured' = Append(poured, re)
                 /\ Tells(e) /\ Frame(e)
                 /\ "returnBytes" \notin Pours => Faithful(e)
<1> DEFINE s == Sends[k]  f == SetEncoding(s.sets)
           e == [flag |-> f, native |-> s.native, enc |-> s.enc]
<1>1. /\ f \in SUBSET {"stream", "string", "json"}
      /\ "stream" \in f <=> HasBit
      /\ s.enc # "none" => f \cap TypeBits = BitsOf(s.enc)
      /\ s.native = re /\ s.enc \in Encoding \cup {"none"}
      /\ \/ f \cap TypeBits \subseteq BitsOf(re) /\ s.enc \in {"none", re}
         \/ k = "returnBytes" /\ async /\ s.enc = "json"
  BY SendTells DEF Pour
<1>2. flag' = f /\ UNCHANGED <<async, HasBit, re>> /\ k \in Pours
  BY DEF Pour, MaySend, callVars, async, HasBit
<1>3. IF s.enc = "none" THEN wire' = wire /\ poured' = poured
      ELSE wire' = Append(wire, e) /\ poured' = Append(poured, s.native)
  BY DEF Pour
<1>4. e.flag = f /\ e.native = s.native /\ e.enc = s.enc
  OBVIOUS
<1>5. e \in Packet
  BY <1>1 DEF Packet, Flags, TypeInv
<1> HIDE DEF s, f, e
<1>6. FlagInv'
  <2>1. poured \in Seq(Encoding) /\ s.native \in Encoding
    BY <1>1 DEF TypeInv
  <2>2. Append(poured, s.native) # << >>
    BY <2>1
  <2>3. s.enc # "none" => poured' # << >>
    BY <1>3, <2>2
  <2> QED
    BY <1>1, <1>2, <2>3 DEF FlagInv
<1>7. s.enc # "none" => Tells(e) /\ Frame(e) /\ ("returnBytes" \notin Pours => Faithful(e))
  BY <1>1, <1>2, <1>4 DEF Tells, Frame, Faithful
<1> QED
  BY <1>1, <1>2, <1>3, <1>5, <1>6, <1>7
-------------------------------------------------------------------------------
(* The elements of a sequence that grows at its end or loses its front.    *)

LEMMA Grown ==
  ASSUME NEW S, NEW s \in Seq(S), NEW e \in S
  PROVE  /\ Append(s, e) \in Seq(S) /\ Len(Append(s, e)) = Len(s) + 1
         /\ \A i \in 1 .. Len(Append(s, e)) : (i \in 1 .. Len(s) /\ Append(s, e)[i] = s[i]) \/ Append(s, e)[i] = e
OBVIOUS

LEMMA Shrunk ==
  ASSUME NEW S, NEW s \in Seq(S), s # << >>
  PROVE  /\ Tail(s) \in Seq(S) /\ Len(Tail(s)) = Len(s) - 1 /\ Head(s) \in S
         /\ 1 \in 1 .. Len(s) /\ Head(s) = s[1]
         /\ \A i \in 1 .. Len(Tail(s)) : i + 1 \in 1 .. Len(s) /\ Tail(s)[i] = s[i + 1]
OBVIOUS

LEMMA DecodedType ==
  ASSUME NEW b, b # "none", NEW pkt \in Packet
  PROVE  Decoded(b, pkt) \in Encoding \cup {"error", "garbled"}
BY DEF Decoded, Packet

LEMMA SentFlagsStep ==
  ASSUME ~Mixed, SentFlagsInv, Next
  PROVE  SentFlagsInv'
<1> DEFINE Sinks == UNCHANGED <<async, HasBit, re, flag, poured>>
           Rest == UNCHANGED <<store, branch, decoded>>
<1>0. TypeInv /\ FlagInv /\ WireInv
  BY DEF SentFlagsInv
<1>1. \A pkt : (HasBit' <=> HasBit) => (Tells(pkt)' <=> Tells(pkt))
  BY DEF Tells
<1>2. ASSUME NEW e \in Packet, wire' = Append(wire, e), Tells(e), HasBit' <=> HasBit PROVE wire' \in Seq(Packet) /\ WireInv'
  <2>1. wire \in Seq(Packet)
    BY <1>0 DEF TypeInv
  <2> QED
    BY <1>0, <1>1, <1>2, <2>1, Grown DEF WireInv, Tells
<1>3. ASSUME wire # << >>, wire' = Tail(wire), HasBit' <=> HasBit PROVE wire' \in Seq(Packet) /\ WireInv' /\ Head(wire) \in Packet
  <2>1. wire \in Seq(Packet)
    BY <1>0 DEF TypeInv
  <2> QED
    BY <1>0, <1>1, <1>3, <2>1, Shrunk DEF WireInv, Tells
<1>4. ASSUME NEW k \in DOMAIN Sends, Pour(k) PROVE SentFlagsInv'
  <2>1. UNCHANGED <<async, HasBit, re, store, branch, decoded>>
    BY <1>4 DEF Pour, callVars, sourceVars, async, HasBit
  <2>2. flag' \in SUBSET {"stream", "string", "json"} /\ FlagInv'
    BY <1>0, <1>4, PourWrites
  <2>3. CASE wire' = wire /\ poured' = poured
    BY <1>0, <2>1, <2>2, <2>3 DEF SentFlagsInv, TypeInv, WireInv, Tells
  <2>4. ASSUME NEW e \in Packet, wire' = Append(wire, e), poured' = Append(poured, re), Tells(e) PROVE SentFlagsInv'
    <3>1. wire' \in Seq(Packet) /\ WireInv'
      BY <1>2, <2>1, <2>4
    <3>2. poured' \in Seq(Encoding)
      BY <1>0, <2>4 DEF TypeInv
    <3> QED
      BY <1>0, <2>1, <2>2, <3>1, <3>2 DEF SentFlagsInv, TypeInv
  <2> QED
    BY <1>0, <1>4, <2>3, <2>4, PourWrites
<1>5. ASSUME NEW err, CloseWithError(err) PROVE SentFlagsInv'
  <2>1. Sinks /\ Rest /\ wire' = Append(wire, EndPacket)
    BY <1>5 DEF CloseWithError, callVars, sourceVars, async, HasBit
  <2>2. wire' \in Seq(Packet) /\ WireInv'
    BY <1>0, <1>2, <2>1, EndTells
  <2> QED
    BY <1>0, <2>1, <2>2 DEF SentFlagsInv, TypeInv, FlagInv
<1>6. ASSUME consume PROVE SentFlagsInv'
  <2>1. Sinks /\ UNCHANGED <<branch, decoded>> /\ wire # << >> /\ wire' = Tail(wire)
    BY <1>6 DEF consume, sinkVars, callVars, async, HasBit
  <2>2. store' \in {store, Append(store, Head(wire))}
    BY <1>6 DEF consume
  <2>3. wire' \in Seq(Packet) /\ WireInv' /\ Head(wire) \in Packet
    BY <1>3, <2>1
  <2>4. store' \in Seq(Packet) /\ (store # << >> => store' # << >>)
    <3>1. store \in Seq(Packet)
      BY <1>0 DEF TypeInv
    <3> HIDE DEF Packet
    <3>2. Append(store, Head(wire)) \in Seq(Packet) /\ Append(store, Head(wire)) # << >>
      BY <2>3, <3>1
    <3> QED
      BY <2>2, <3>1, <3>2
  <2> QED
    BY <1>0, <2>1, <2>3, <2>4 DEF SentFlagsInv, TypeInv, FlagInv
<1>7. ASSUME closeStream PROVE SentFlagsInv'
  <2>1. Sinks /\ Rest /\ wire # << >> /\ wire' = Tail(wire)
    BY <1>7 DEF closeStream, sinkVars, callVars, async, HasBit
  <2>2. wire' \in Seq(Packet) /\ WireInv'
    BY <1>3, <2>1
  <2> QED
    BY <1>0, <2>1, <2>2 DEF SentFlagsInv, TypeInv, FlagInv
<1>8. ASSUME Next_Decides PROVE SentFlagsInv'
  BY <1>0, <1>8 DEF Next_Decides, sinkVars, callVars, async, HasBit, SentFlagsInv, TypeInv, FlagInv, WireInv, Tells
<1>9. ASSUME Next_Reads PROVE SentFlagsInv'
  <2>1. Sinks /\ wire' = wire /\ branch # "none" /\ branch' = "none" /\ store' = Tail(store)
    BY <1>9 DEF Next_Reads, sinkVars, callVars, async, HasBit
  <2>2. store \in Seq(Packet) /\ store # << >> /\ decoded \in Seq(Encoding \cup {"error", "garbled"})
    BY <1>0, <2>1 DEF TypeInv
  <2>3. Head(store) \in Packet /\ store' \in Seq(Packet)
    BY <2>1, <2>2, Shrunk
  <2>4. decoded' \in Seq(Encoding \cup {"error", "garbled"})
    <3>1. Decoded(branch, Head(store)) \in Encoding \cup {"error", "garbled"}
      BY <2>1, <2>3, DecodedType
    <3> QED
      BY <1>9, <2>2, <3>1 DEF Next_Reads
  <2> QED
    BY <1>0, <2>1, <2>3, <2>4 DEF SentFlagsInv, TypeInv, FlagInv, WireInv, Tells
<1> QED
  BY <1>4, <1>5, <1>6, <1>7, <1>8, <1>9 DEF Next

LEMMA DecodeStep ==
  ASSUME ~Mixed, "returnBytes" \notin Pours, SentFlagsInv, DecodeInv, Next
  PROVE  DecodeInv'
<1> DEFINE E == Encoding \cup {"error", "garbled"}
<1>0. /\ TypeInv /\ FlagInv /\ WireInv /\ WayInv /\ HeldInv /\ CountInv
      /\ wire \in Seq(Packet) /\ store \in Seq(Packet) /\ poured \in Seq(Encoding) /\ decoded \in Seq(E)
      /\ re \in Encoding
  BY DEF SentFlagsInv, DecodeInv, TypeInv
<1> HIDE DEF E
<1>1. Len(decoded) \in Nat /\ Len(store) \in Nat /\ Len(poured) \in Nat /\ Frames(wire) \in Nat
  BY <1>0, FramesType
<1>2. \A pkt : re' = re => (Faithful(pkt)' <=> Faithful(pkt))
  BY DEF Faithful
<1>3. ASSUME NEW k \in DOMAIN Sends, Pour(k) PROVE DecodeInv'
  <2>1. UNCHANGED <<async, HasBit, re, hdrFlag, store, branch, decoded>>
    BY <1>3 DEF Pour, callVars, sourceVars, async, HasBit
  <2>2. CASE wire' = wire /\ poured' = poured
    BY <1>0, <2>1, <2>2 DEF DecodeInv, WayInv, HeldInv, CountInv, Faithful
  <2>3. ASSUME NEW e \in Packet, wire' = Append(wire, e), poured' = Append(poured, re), Frame(e), Faithful(e)
        PROVE  DecodeInv'
    <3>1. \A i \in 1 .. Len(wire') : Frame(wire'[i]) => Faithful(wire'[i])
      BY <1>0, <2>3, Grown DEF WayInv
    <3>2. Len(poured') = Len(poured) + 1 /\ \A i \in 1 .. Len(poured') : poured'[i] = re
      BY <1>0, <2>3, Grown DEF WayInv
    <3>3. WayInv'
      BY <1>0, <1>2, <2>1, <3>1, <3>2 DEF WayInv
    <3>4. Frames(wire') = Frames(wire) + 1
      BY <1>0, <2>3, FramesAppend
    <3>5. CountInv'
      BY <1>0, <1>1, <2>1, <3>2, <3>4 DEF CountInv, Frames, FramesAt, Frame
    <3> QED
      BY <1>0, <2>1, <3>3, <3>5 DEF DecodeInv, HeldInv
  <2> QED
    BY <1>0, <1>3, <2>2, <2>3, PourWrites
<1>4. ASSUME NEW err, CloseWithError(err) PROVE DecodeInv'
  <2>1. UNCHANGED <<async, HasBit, re, hdrFlag, store, branch, decoded, poured>> /\ wire' = Append(wire, EndPacket)
    BY <1>4 DEF CloseWithError, callVars, sourceVars, async, HasBit
  <2>2. EndPacket \in Packet /\ ~Frame(EndPacket)
    BY <1>0, EndTells
  <2>3. \A i \in 1 .. Len(wire') : Frame(wire'[i]) => Faithful(wire'[i])
    BY <1>0, <2>1, <2>2, Grown DEF WayInv
  <2>4. Frames(wire') = Frames(wire)
    BY <1>0, <2>1, <2>2, FramesAppend
  <2>5. CountInv'
    BY <1>0, <2>1, <2>4 DEF CountInv, Frames, FramesAt, Frame
  <2> QED
    BY <1>0, <1>2, <2>1, <2>3, <2>5 DEF DecodeInv, WayInv, HeldInv
<1>5. ASSUME UNCHANGED sinkVars, UNCHANGED <<branch, decoded>>, wire # << >>, wire' = Tail(wire) PROVE
        /\ UNCHANGED <<async, HasBit, re, poured, branch, decoded>>
        /\ \A i \in 1 .. Len(wire') : Frame(wire'[i]) => Faithful(wire'[i])
        /\ Frames(wire) = IF Frame(Head(wire)) THEN Frames(wire') + 1 ELSE Frames(wire')
        /\ Frame(Head(wire)) => Faithful(Head(wire)) /\ Tells(Head(wire)) /\ Head(wire) \in Packet
        /\ Frames(wire') \in Nat /\ Frames(wire)' = Frames(wire')
  <2>1. wire' \in Seq(Packet) /\ \A i \in 1 .. Len(wire') : i + 1 \in 1 .. Len(wire) /\ wire'[i] = wire[i + 1]
    BY <1>0, <1>5, Shrunk
  <2>2. 1 \in 1 .. Len(wire) /\ Head(wire) = wire[1] /\ Head(wire) \in Packet
    BY <1>0, <1>5, Shrunk
  <2>3. Frames(wire)' = Frames(wire')
    BY DEF Frames, FramesAt, Frame
  <2>4. Frames(wire) = IF Frame(Head(wire)) THEN Frames(wire') + 1 ELSE Frames(wire')
    BY <1>0, <1>5, FramesTail
  <2>5. Frames(wire') \in Nat
    BY <2>1, FramesType
  <2> QED
    BY <1>0, <1>5, <2>1, <2>2, <2>3, <2>4, <2>5 DEF WayInv, WireInv, sinkVars, callVars, async, HasBit
<1>6. ASSUME consume PROVE DecodeInv'
  <2>1. UNCHANGED sinkVars /\ UNCHANGED <<branch, decoded>> /\ wire # << >> /\ wire' = Tail(wire) /\ Frame(Head(wire))
    BY <1>6 DEF consume, Frame
  <2>2. Frames(wire) = Frames(wire') + 1
    BY <1>5, <2>1
  <2>3. CASE failed
    <3>1. UNCHANGED <<hdrFlag, store>>
      BY <1>6, <2>3 DEF consume
    <3>2. CountInv'
      BY <1>0, <1>1, <1>5, <2>1, <2>2, <3>1 DEF CountInv
    <3> QED
      BY <1>0, <1>2, <1>5, <2>1, <3>1, <3>2 DEF DecodeInv, WayInv, HeldInv
  <2>4. CASE ~failed
    <3>1. hdrFlag' = Head(wire).flag /\ store' = Append(store, Head(wire))
      BY <1>6, <2>4 DEF consume
    <3>2. Head(wire) \in Packet /\ Faithful(Head(wire)) /\ Tells(Head(wire))
      BY <1>5, <2>1
    <3>3. Len(store') = Len(store) + 1 /\ \A i \in 1 .. Len(store') : Faithful(store'[i])
      BY <1>0, <3>1, <3>2, Grown DEF WayInv
    <3>4. hdrFlag' \cap TypeBits = BitsOf(re)
      BY <1>0, <3>1, <3>2 DEF Faithful, Tells, Encoding
    <3>5. CountInv'
      BY <1>0, <1>1, <1>5, <2>1, <2>2, <3>3 DEF CountInv
    <3>6. WayInv'
      BY <1>0, <1>2, <1>5, <2>1, <3>3 DEF WayInv
    <3>7. HeldInv'
      BY <1>0, <1>5, <2>1, <3>4 DEF HeldInv
    <3> QED
      BY <3>5, <3>6, <3>7 DEF DecodeInv
  <2> QED
    BY <2>3, <2>4
<1>7. ASSUME closeStream PROVE DecodeInv'
  <2>1. /\ UNCHANGED sinkVars /\ UNCHANGED <<hdrFlag, store, branch, decoded>>
        /\ wire # << >> /\ wire' = Tail(wire) /\ ~Frame(Head(wire))
    BY <1>7 DEF closeStream, Frame
  <2>2. CountInv'
    BY <1>0, <1>1, <1>5, <2>1 DEF CountInv
  <2> QED
    BY <1>0, <1>2, <1>5, <2>1, <2>2 DEF DecodeInv, WayInv, HeldInv
<1>8. ASSUME Next_Decides PROVE DecodeInv'
  <2>1. /\ UNCHANGED <<async, HasBit, re, poured, wire, hdrFlag, store, decoded>> /\ store # << >>
        /\ branch' = IF async THEN re ELSE TypeOf(hdrFlag)
    BY <1>8 DEF Next_Decides, sinkVars, callVars, async, HasBit
  <2>2. ~async => hdrFlag \cap TypeBits = BitsOf(re)
    BY <1>0, <2>1 DEF HeldInv
  <2>3. branch' = re
    BY <1>0, <2>1, <2>2 DEF TypeOf, TypeBits, BitsOf, Encoding
  <2>4. WayInv' /\ CountInv'
    BY <1>0, <1>2, <2>1 DEF WayInv, CountInv, Frames, FramesAt, Frame
  <2>5. HeldInv'
    BY <1>0, <2>1, <2>3 DEF HeldInv
  <2> QED
    BY <2>4, <2>5 DEF DecodeInv
<1>9. ASSUME Next_Reads PROVE DecodeInv'
  <2>1. /\ UNCHANGED <<async, HasBit, re, poured, wire, hdrFlag>> /\ branch # "none" /\ branch' = "none"
        /\ store' = Tail(store) /\ decoded' = Append(decoded, Decoded(branch, Head(store)))
    BY <1>9 DEF Next_Reads, sinkVars, callVars, async, HasBit
  <2>2. store # << >> /\ branch = re
    BY <1>0, <2>1 DEF HeldInv, TypeInv
  <2>3. /\ 1 \in 1 .. Len(store) /\ Head(store) = store[1] /\ Len(store') = Len(store) - 1
        /\ \A i \in 1 .. Len(store') : i + 1 \in 1 .. Len(store) /\ store'[i] = store[i + 1]
    BY <1>0, <2>1, <2>2, Shrunk
  <2>4. Faithful(Head(store)) /\ \A i \in 1 .. Len(store') : Faithful(store'[i])
    BY <1>0, <2>3 DEF WayInv
  <2>5. Decoded(branch, Head(store)) = re
    BY <1>0, <2>2, <2>4 DEF Decoded, Faithful
  <2>6. re \in E
    BY <1>0 DEF E
  <2>7. Len(decoded') = Len(decoded) + 1 /\ \A i \in 1 .. Len(decoded') : decoded'[i] = re
    BY <1>0, <2>1, <2>5, <2>6, Grown DEF WayInv
  <2>8. CountInv'
    <3>1. Frames(wire)' = Frames(wire)
      BY <2>1 DEF Frames, FramesAt, Frame
    <3>2. Len(store)' = Len(store) - 1 /\ Len(decoded)' = Len(decoded) + 1 /\ Len(poured)' = Len(poured)
      BY <2>1, <2>3, <2>7
    <3>3. Len(decoded) + Len(store) + Frames(wire) <= Len(poured)
      BY <1>0 DEF CountInv
    <3>4. (Len(decoded) + 1) + (Len(store) - 1) + Frames(wire) <= Len(poured)
      BY <1>1, <3>3
    <3> QED
      BY <3>1, <3>2, <3>4 DEF CountInv
  <2>9. WayInv'
    BY <1>0, <1>2, <2>1, <2>4, <2>7 DEF WayInv
  <2>10. HeldInv'
    BY <1>0, <2>1, <2>2 DEF HeldInv
  <2> QED
    BY <2>8, <2>9, <2>10 DEF DecodeInv
<1> QED
  BY <1>3, <1>4, <1>6, <1>7, <1>8, <1>9 DEF Next

-------------------------------------------------------------------------------
(* The theorems.                                                           *)

LEMMA InitDecode == Init => SentFlagsInv /\ DecodeInv
<1> SUFFICES ASSUME Init PROVE SentFlagsInv /\ DecodeInv
  OBVIOUS
<1>1. re \in Encoding
  BY LegacyStreamAssumption DEF Init, Encoding
<1>2. /\ kind \in {"async", "source", "sink", "duplex"} /\ by \in {"caller", "handler"}
      /\ flag = IF by = "caller"
                THEN asCodecFlag(re) \cup (IF kind \in {"sink", "duplex"} THEN {"stream"} ELSE {})
                ELSE IF async THEN {} ELSE {"stream"}
  BY DEF Init
<1>3. wire = << >> /\ store = << >> /\ poured = << >> /\ decoded = << >> /\ branch = "none"
  BY DEF Init
<1>4. FlagInv /\ flag \in SUBSET {"stream", "string", "json"}
  BY <1>1, <1>2 DEF FlagInv, HasBit, async, asCodecFlag, TypeBits, BitsOf, Encoding
<1>5. TypeInv /\ WireInv
  BY <1>1, <1>3, <1>4 DEF TypeInv, WireInv
<1>6. WayInv /\ HeldInv
  BY <1>3 DEF WayInv, HeldInv
<1>7. CountInv
  <2>1. FramesAt(wire) = {} /\ Len(wire) = 0 /\ Len(store) = 0 /\ Len(poured) = 0 /\ Len(decoded) = 0
    BY <1>3 DEF FramesAt
  <2>2. Frames(wire) = 0
    BY <2>1, FS_EmptySet DEF Frames
  <2> QED
    BY <2>1, <2>2 DEF CountInv
<1> QED
  BY <1>4, <1>5, <1>6, <1>7 DEF SentFlagsInv, DecodeInv

LEMMA DecodeStutter ==
  ASSUME UNCHANGED vars
  PROVE  (SentFlagsInv => SentFlagsInv') /\ (DecodeInv => DecodeInv')
<1>1. UNCHANGED <<async, HasBit, re, flag, wire, hdrFlag, store, branch, poured, decoded>>
  BY DEF vars, callVars, sinkVars, sourceVars, async, HasBit
<1> QED
  BY <1>1 DEF SentFlagsInv, TypeInv, FlagInv, WireInv, Tells, DecodeInv, WayInv, HeldInv, CountInv,
     Faithful, Frames, FramesAt, Frame

(* On a stream of one encoding every frame of a ByteSink (SetEncoding,     *)
(* Write, Return) carries the type bits of its own encoding, though flags  *)
(* are only ever added to or lose the JSON bit; the stream bit is on all   *)
(* packets of a stream, its end too, and on none of an async call, except  *)
(* that the sink of the caller of a source ends without it.                *)
THEOREM TypesTold == ASSUME ~Mixed PROVE Spec => []FlagsTellType
<1>1. Init => SentFlagsInv
  BY InitDecode
<1>2. SentFlagsInv /\ [Next]_vars => SentFlagsInv'
  BY SentFlagsStep, DecodeStutter
<1>3. SentFlagsInv => FlagsTellType
  BY DEF SentFlagsInv, WireInv, Tells, FlagsTellType, TypeBits, BitsOf, HasBit
<1> QED
  BY <1>1, <1>2, <1>3, PTL DEF Spec

(* On a stream of one encoding, and in an async call answered in the one   *)
(* asked for, what streamSource.Next and Async hand out is what was sent,  *)
(* though the flag they go by may be that of a later frame; but not if     *)
(* Request.Return is given a []byte, which it sends as json.               *)
THEOREM DecodedRight ==
  ASSUME ~Mixed, "returnBytes" \notin Pours PROVE Spec => []DecodedAsSent
<1>1. Init => SentFlagsInv /\ DecodeInv
  BY InitDecode
<1>2. SentFlagsInv /\ DecodeInv /\ [Next]_vars => SentFlagsInv' /\ DecodeInv'
  BY SentFlagsStep, DecodeStep, DecodeStutter
<1>3. SentFlagsInv /\ DecodeInv => DecodedAsSent
  <2> SUFFICES ASSUME SentFlagsInv, DecodeInv, NEW i \in 1 .. Len(decoded) PROVE decoded[i] = poured[i]
    BY DEF DecodedAsSent
  <2>1. /\ wire \in Seq(Packet) /\ store \in Seq(Packet) /\ poured \in Seq(Encoding)
        /\ decoded \in Seq(Encoding \cup {"error", "garbled"})
    BY DEF SentFlagsInv, TypeInv
  <2>2. Frames(wire) \in Nat /\ Len(store) \in Nat /\ Len(poured) \in Nat /\ Len(decoded) \in Nat
    BY <2>1, FramesType
  <2>3. i \in 1 .. Len(poured)
    BY <2>2 DEF DecodeInv, CountInv
  <2> QED
    BY <2>3 DEF DecodeInv, WayInv
<1> QED
  BY <1>1, <1>2, <1>3, PTL DEF Spec
===============================================================================
