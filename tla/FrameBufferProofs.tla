--------------------------- MODULE FrameBufferProofs ---------------------------
(***************************************************************************)
(* Proofs about FrameBuffer for frames of any lengths and any number.      *)
(***************************************************************************)
EXTENDS FrameBuffer, Integers, TLAPS

(* The byte that was stored last: Stored is its frame, and Place its       *)
(* place in that frame.  Whole counts the frames that copyBody completed.  *)
Stored == IF spc = "lock" THEN Len(length) - 1 ELSE Len(length)
Place == IF spc = "lock" THEN length[Len(length) - 1] ELSE length[Len(length)] - togo
Whole == IF spc \in {"lock", "copy"} \/ togo > 0 THEN Len(length) - 1 ELSE Len(length)

(* What the serve loop has still to copy belongs to the latest frame.      *)
ServeInv ==
  /\ spc \in {"lock", "copy"} \/ togo > 0 => length # << >>
  /\ length # << >> => togo <= length[Len(length)]
  /\ spc = "loop" => togo = 0
  /\ spc = "lock" => togo = length[Len(length)]

(* The counter has the whole frames that no Reader has taken.              *)
CountInv == frames + Len(seen) = Whole /\ (rpc = "next" => frames > 0)

(* What the counting and the limiting reader know of the current frame.    *)
ReadInv ==
  /\ seen = << >> => total = 0 /\ read = 0 /\ limit = 0
  /\ seen # << >> =>
       total = length[Len(seen)] /\ read + limit = total /\ Len(seen[Len(seen)]) = read

(* The store ends with the byte that was stored last; when it is empty,    *)
(* the reader has had that one.                                            *)
EndInv ==
  /\ store # << >> => store[Len(store)] = [frame |-> Stored, pos |-> Place]
  /\ store = << >> => Len(seen) = Stored /\ (seen # << >> => read = Place)

(* It begins with the rest of the current frame, then the next prefix.     *)
HeadInv ==
  /\ \A j \in 1 .. limit : j <= Len(store) => store[j] = [frame |-> Len(seen), pos |-> read + j]
  /\ limit + 1 <= Len(store) => store[limit + 1] = [frame |-> Len(seen) + 1, pos |-> 0]

(* A prefix in the store is followed by its body and by the next prefix.   *)
FrameAt(i, f) ==
  /\ \A j \in 1 .. length[f] : i + j <= Len(store) => store[i + j] = [frame |-> f, pos |-> j]
  /\ i + length[f] + 1 <= Len(store) => store[i + length[f] + 1] = [frame |-> f + 1, pos |-> 0]
RunInv ==
  \A i \in 1 .. Len(store) : store[i].pos = 0 => FrameAt(i, store[i].frame)

(* Every byte is of a frame that began to arrive, and followed by its      *)
(* successor.                                                              *)
ChainInv ==
  /\ \A i \in 1 .. Len(store) : store[i].frame \in 1 .. Len(length)
  /\ \A i \in 1 .. Len(store) - 1 : store[i + 1] = Successor(store[i])

(* The functions saw their frames, each from its first byte.               *)
SeenInv ==
  \A i \in 1 .. Len(seen) : \A j \in 1 .. Len(seen[i]) : seen[i][j] = [frame |-> i, pos |-> j]

(* TypeOK in parts.                                                        *)
DataOK ==
  /\ frames \in Nat /\ total \in Nat /\ read \in Nat /\ limit \in Nat /\ togo \in Nat
  /\ length \in Seq(Lengths) /\ store \in Seq(Cell) /\ seen \in Seq(Seq(Cell))
PlaceOK ==
  /\ mu \in {"free", "serve"} /\ bufmu \in {"free", "serve", "reader"}
  /\ spc \in {"loop", "lock", "copy", "close", "gone"}
  /\ rpc \in {"idle", "next", "got", "fn"} /\ cpc \in {"idle", "want", "done"}
LockInv ==
  /\ mu = "serve" <=> spc \in {"lock", "copy"}
  /\ bufmu = "serve" <=> spc = "copy"
  /\ bufmu = "reader" <=> rpc = "fn"

(* The inductive invariant.  OwnFrame and Contiguous speak of the bytes    *)
(* that were taken and of neighbours in the store; that the next prefix    *)
(* lies where the rest of the current frame ends needs the length of every *)
(* frame that is stored (RunInv), the end of the store (EndInv) for the    *)
(* bytes that are appended, and the counter (CountInv) for Next.           *)
IInv ==
  /\ TypeOK /\ ServeInv /\ CountInv /\ ReadInv
  /\ EndInv /\ HeadInv /\ RunInv /\ ChainInv /\ SeenInv

-------------------------------------------------------------------------------
(* TypeOK in parts, so that a step need look at one kind of variable.      *)
LEMMA TypeParts == TypeOK <=> (failed \in BOOLEAN /\ DataOK /\ PlaceOK /\ LockInv)
BY Zenon DEF TypeOK, DataOK, PlaceOK, LockInv

(* Nothing has arrived and nothing is held.                                *)
LEMMA InitInv == Init => IInv
<1> SUFFICES ASSUME Init PROVE IInv
  OBVIOUS
<1> USE DEF Init
<1>1. TypeOK
  <2>1. DataOK
    BY DEF DataOK
  <2>2. PlaceOK /\ LockInv
    BY DEF PlaceOK, LockInv
  <2> QED
    BY <2>1, <2>2, TypeParts
<1>2. ServeInv /\ CountInv /\ ReadInv
  BY DEF ServeInv, CountInv, ReadInv, Whole
<1>3. EndInv /\ HeadInv
  BY DEF EndInv, HeadInv, Stored
<1>4. RunInv /\ ChainInv /\ SeenInv
  BY DEF RunInv, ChainInv, SeenInv
<1> QED
  BY <1>1, <1>2, <1>3, <1>4 DEF IInv

(* The step of PlaceOK and LockInv: the locks go with the places.          *)
LEMMA PlaceStep == ASSUME PlaceOK, LockInv, [Next]_vars PROVE PlaceOK' /\ LockInv'
<1> USE DEF PlaceOK, LockInv
<1>1. CASE consume
  BY <1>1 DEF consume, serveVars, readVars
<1>2. CASE copyBodyLock
  BY <1>2 DEF copyBodyLock, serveVars, readVars
<1>3. CASE copyBody
  BY <1>3 DEF copyBody, serveVars, readVars
<1>4. CASE copyBodyDone
  BY <1>4 DEF copyBodyDone, serveVars, readVars
<1>5. CASE copyBodyTorn
  BY <1>5 DEF copyBodyTorn, serveVars, readVars
<1>6. CASE closeStream
  BY <1>6 DEF closeStream, serveVars, readVars
<1>7. CASE NextTrue
  BY <1>7 DEF NextTrue, serveVars, readVars
<1>8. CASE getNextFrameReader
  BY <1>8 DEF getNextFrameReader, serveVars, readVars
<1>9. CASE ReaderLock
  BY <1>9 DEF ReaderLock, serveVars, readVars
<1>10. CASE fnRead
  BY <1>10 DEF fnRead, serveVars, readVars
<1>11. CASE fnReturn
  BY <1>11 DEF fnReturn, serveVars, readVars
<1>12. CASE CancelCalled
  BY <1>12 DEF CancelCalled, serveVars, readVars
<1>13. CASE Cancel
  BY <1>13 DEF Cancel, serveVars, readVars
<1>14. CASE UNCHANGED vars
  BY <1>14 DEF vars, serveVars, readVars
<1> QED
  BY <1>1, <1>2, <1>3, <1>4, <1>5, <1>6, <1>7, <1>8, <1>9, <1>10, <1>11, <1>12, <1>13, <1>14
  DEF Next, ServeStep, ReaderStep

(* failed is only ever set.                                               *)
LEMMA FailedStep == ASSUME failed \in BOOLEAN, [Next]_vars PROVE failed' \in BOOLEAN
<1>1. CASE consume
  BY <1>1 DEF consume, serveVars, readVars
<1>2. CASE copyBodyLock
  BY <1>2 DEF copyBodyLock, serveVars, readVars
<1>3. CASE copyBody
  BY <1>3 DEF copyBody, serveVars, readVars
<1>4. CASE copyBodyDone
  BY <1>4 DEF copyBodyDone, serveVars, readVars
<1>5. CASE copyBodyTorn
  BY <1>5 DEF copyBodyTorn, serveVars, readVars
<1>6. CASE closeStream
  BY <1>6 DEF closeStream, serveVars, readVars
<1>7. CASE NextTrue
  BY <1>7 DEF NextTrue, serveVars, readVars
<1>8. CASE getNextFrameReader
  BY <1>8 DEF getNextFrameReader, serveVars, readVars
<1>9. CASE ReaderLock
  BY <1>9 DEF ReaderLock, serveVars, readVars
<1>10. CASE fnRead
  BY <1>10 DEF fnRead, serveVars, readVars
<1>11. CASE fnReturn
  BY <1>11 DEF fnReturn, serveVars, readVars
<1>12. CASE CancelCalled
  BY <1>12 DEF CancelCalled, serveVars, readVars
<1>13. CASE Cancel
  BY <1>13 DEF Cancel, serveVars, readVars
<1>14. CASE UNCHANGED vars
  BY <1>14 DEF vars, serveVars, readVars
<1> QED
  BY <1>1, <1>2, <1>3, <1>4, <1>5, <1>6, <1>7, <1>8, <1>9, <1>10, <1>11, <1>12, <1>13, <1>14
  DEF Next, ServeStep, ReaderStep

-------------------------------------------------------------------------------
(* When Next was true, a whole frame is behind the rest of the current one.*)
LEMMA NextFrame ==
  ASSUME IInv, rpc = "next"
  PROVE  /\ limit < Len(store)
         /\ Len(seen) + 1 \in 1 .. Stored
         /\ Skipped \in Seq(Cell) /\ Len(Skipped) = Len(store) - limit
         /\ \A i \in 1 .. Len(Skipped) : Skipped[i] = store[i + limit]
<1> USE DEF IInv
<1>1. DataOK /\ PlaceOK
  BY TypeParts
<1>2. Len(seen) < Stored /\ Stored \in Nat
  <2>1. Whole <= Stored /\ Stored \in Nat /\ Whole \in Int
    BY <1>1 DEF Whole, Stored, ServeInv, DataOK
  <2>2. frames > 0 /\ frames + Len(seen) = Whole /\ frames \in Nat /\ Len(seen) \in Nat
    BY <1>1 DEF CountInv, DataOK
  <2> QED
    BY <2>1, <2>2
<1>3. store # << >>
  BY <1>1, <1>2 DEF EndInv, DataOK
<1>4. limit < Len(store)
  <2>1. SUFFICES ASSUME Len(store) <= limit PROVE FALSE
    BY <1>1 DEF DataOK
  <2>2. Len(store) \in 1 .. limit
    BY <1>1, <1>3, <2>1 DEF DataOK
  <2>3. store[Len(store)].frame = Len(seen)
    <3>1. Len(store) <= Len(store)
      BY <1>1 DEF DataOK
    <3>2. store[Len(store)] = [frame |-> Len(seen), pos |-> read + Len(store)]
      BY <2>2, <3>1, Zenon DEF HeadInv
    <3> QED
      BY <3>2
  <2>4. store[Len(store)].frame = Stored
    BY <1>3 DEF EndInv
  <2> QED
    BY <1>1, <1>2, <2>3, <2>4 DEF DataOK
<1>5. Skipped = SubSeq(store, limit + 1, Len(store))
  <2>1. CASE seen = << >>
    <3>1. total = 0 /\ read = 0 /\ limit = 0
      BY <2>1 DEF ReadInv
    <3> QED
      BY <3>1, <1>1 DEF Skipped, DataOK
  <2>2. CASE seen # << >>
    <3>1. read + limit = total /\ read \in Nat /\ limit \in Nat /\ total \in Nat /\ store \in Seq(Cell)
      BY <2>2, <1>1 DEF ReadInv, DataOK
    <3>2. CASE limit = 0
      BY <3>1, <3>2 DEF Skipped
    <3>3. CASE limit > 0
      BY <3>1, <3>3 DEF Skipped, Drop
    <3> QED
      BY <3>1, <3>2, <3>3
  <2> QED
    BY <2>1, <2>2
<1>6. /\ Skipped \in Seq(Cell) /\ Len(Skipped) = Len(store) - limit
      /\ \A i \in 1 .. Len(Skipped) : Skipped[i] = store[i + limit]
  BY <1>1, <1>4, <1>5 DEF DataOK
<1>7. Len(seen) + 1 \in 1 .. Stored
  BY <1>1, <1>2 DEF DataOK
<1> QED
  BY <1>4, <1>6, <1>7

(* getNextFrameReader takes that frame, and reads its own prefix.          *)
LEMMA FrameTaken ==
  ASSUME IInv, getNextFrameReader
  PROVE  /\ limit < Len(store) /\ Len(seen) + 1 \in 1 .. Stored
         /\ store' \in Seq(Cell) /\ Len(store') = Len(store) - (limit + 1)
         /\ \A i \in 1 .. Len(store') : store'[i] = store[i + (limit + 1)]
         /\ total' = length[Len(seen) + 1] /\ limit' = total' /\ total' \in Nat /\ read' = 0
         /\ store[limit + 1] = [frame |-> Len(seen) + 1, pos |-> 0]
         /\ frames' = frames - 1 /\ frames \in Nat \ {0}
         /\ seen' = Append(seen, << >>) /\ rpc' = "got"
         /\ UNCHANGED <<length, spc, togo>>
<1>1. DataOK /\ PlaceOK /\ HeadInv /\ CountInv
  BY TypeParts DEF IInv
<1>2. rpc = "next"
  BY DEF getNextFrameReader
<1>3. /\ limit < Len(store) /\ Len(seen) + 1 \in 1 .. Stored
      /\ Skipped \in Seq(Cell) /\ Len(Skipped) = Len(store) - limit
      /\ \A i \in 1 .. Len(Skipped) : Skipped[i] = store[i + limit]
  BY <1>2, NextFrame
<1>4. Skipped # << >> /\ Head(Skipped) = store[limit + 1]
  BY <1>1, <1>3 DEF DataOK
<1>5. store[limit + 1] = [frame |-> Len(seen) + 1, pos |-> 0]
  BY <1>1, <1>3 DEF DataOK, HeadInv
<1>6. /\ store' = Tail(Skipped) /\ total' = length[Len(seen) + 1] /\ limit' = total'
      /\ read' = 0 /\ rpc' = "got" /\ seen' = Append(seen, << >>)
      /\ frames' = IF frames = 0 THEN Uint32 - 1 ELSE frames - 1
      /\ UNCHANGED <<length, spc, togo>>
  BY <1>4, <1>5 DEF getNextFrameReader, serveVars
<1>7. frames' = frames - 1 /\ frames \in Nat \ {0}
  BY <1>1, <1>2, <1>6 DEF CountInv, DataOK
<1>8. total' \in Nat
  <2>1. Len(seen) + 1 \in 1 .. Len(length)
    BY <1>1, <1>3 DEF Stored, DataOK
  <2>2. length[Len(seen) + 1] \in Lengths
    BY <1>1, <2>1 DEF DataOK
  <2> QED
    BY <1>6, <2>2, FrameBufferAssumption DEF FrameBufferAssumption
<1>9. /\ store' \in Seq(Cell) /\ Len(store') = Len(store) - (limit + 1)
      /\ \A i \in 1 .. Len(store') : store'[i] = store[i + (limit + 1)]
  <2>1. store \in Seq(Cell) /\ limit \in Nat
    BY <1>1 DEF DataOK
  <2>2. /\ Tail(Skipped) \in Seq(Cell) /\ Len(Tail(Skipped)) = Len(Skipped) - 1
        /\ \A i \in 1 .. Len(Tail(Skipped)) : Tail(Skipped)[i] = Skipped[i + 1]
    BY <1>3, <1>4
  <2>3. ASSUME NEW i \in 1 .. Len(store') PROVE store'[i] = store[i + (limit + 1)]
    <3>1. i + 1 \in 1 .. Len(Skipped) /\ (i + 1) + limit = i + (limit + 1)
      BY <1>3, <1>6, <2>1, <2>2
    <3>2. store'[i] = Skipped[i + 1]
      BY <1>6, <2>2
    <3> QED
      BY <1>3, <3>1, <3>2
  <2> QED
    BY <1>3, <1>6, <2>1, <2>2, <2>3
<1> QED
  BY <1>3, <1>5, <1>6, <1>7, <1>8, <1>9

(* fnRead takes the next byte of the current frame.                        *)
LEMMA ByteRead ==
  ASSUME IInv, fnRead
  PROVE  /\ seen # << >> /\ seen \in Seq(Seq(Cell)) /\ seen[Len(seen)] \in Seq(Cell)
         /\ store # << >> /\ store[1] = [frame |-> Len(seen), pos |-> read + 1] /\ store[1] \in Cell
         /\ store' \in Seq(Cell) /\ Len(store') = Len(store) - 1
         /\ \A i \in 1 .. Len(store') : store'[i] = store[i + 1]
         /\ seen' = [seen EXCEPT ![Len(seen)] = Append(seen[Len(seen)], store[1])]
         /\ limit > 0 /\ limit' = limit - 1 /\ read' = read + 1
         /\ UNCHANGED <<length, spc, togo, frames, total, rpc>>
<1>1. DataOK /\ ReadInv /\ HeadInv
  BY TypeParts DEF IInv
<1>2. /\ limit > 0 /\ store # << >> /\ store' = Tail(store)
      /\ seen' = [seen EXCEPT ![Len(seen)] = Append(@, Head(store))]
      /\ limit' = limit - 1 /\ read' = read + 1
      /\ UNCHANGED <<length, spc, togo, frames, total, rpc>>
  BY DEF fnRead, countingRead, serveVars
<1>3. seen # << >>
  BY <1>1, <1>2 DEF ReadInv
<1>4. seen \in Seq(Seq(Cell)) /\ seen[Len(seen)] \in Seq(Cell)
  BY <1>1, <1>3 DEF DataOK
<1>5. store[1] = [frame |-> Len(seen), pos |-> read + 1] /\ store[1] \in Cell /\ Head(store) = store[1]
  BY <1>1, <1>2 DEF DataOK, HeadInv
<1>6. /\ store' \in Seq(Cell) /\ Len(store') = Len(store) - 1
      /\ \A i \in 1 .. Len(store') : store'[i] = store[i + 1]
  BY <1>1, <1>2 DEF DataOK
<1> QED
  BY <1>2, <1>3, <1>4, <1>5, <1>6

(* consume takes in the length of a frame, or ends the source's part.      *)
LEMMA FrameBegins ==
  ASSUME DataOK, consume
  PROVE  /\ \/ /\ spc' = "lock"
               /\ \E n \in Lengths : n \in Nat /\ length' = Append(length, n) /\ togo' = n
            \/ spc' = "gone" /\ UNCHANGED <<length, togo>>
         /\ spc = "loop"
         /\ UNCHANGED <<store, frames, total, read, limit, rpc, seen>>
BY FrameBufferAssumption DEF consume, readVars, FrameBufferAssumption

(* Data keep their types; a prefix that is read is the length of a frame.  *)
LEMMA DataStep == ASSUME IInv, [Next]_vars PROVE DataOK'
<1>0. DataOK /\ ServeInv
  BY TypeParts DEF IInv
<1> USE <1>0, FrameBufferAssumption DEF DataOK, FrameBufferAssumption
<1>1. CASE consume
  <2>1. /\ UNCHANGED <<length, togo>> \/ \E n \in Lengths : n \in Nat /\ length' = Append(length, n) /\ togo' = n
        /\ UNCHANGED <<store, frames, total, read, limit, seen>>
    BY <1>1, FrameBegins
  <2>2. CASE UNCHANGED <<length, togo>>
    BY <2>1, <2>2
  <2>3. ASSUME NEW n \in Lengths, n \in Nat, length' = Append(length, n), togo' = n PROVE DataOK'
    BY <2>1, <2>3
  <2> QED
    BY <2>1, <2>2, <2>3
<1>2. CASE copyBodyLock
  BY <1>2 DEF copyBodyLock, readVars, Cell
<1>3. CASE copyBody
  <2>1. /\ length # << >> /\ togo <= length[Len(length)] /\ togo > 0
    BY <1>3 DEF copyBody, ServeInv
  <2>2. length[Len(length)] \in Nat
    <3>1. length[Len(length)] \in Lengths
      BY <2>1
    <3> QED
      BY <3>1
  <2>3. [frame |-> Len(length), pos |-> length[Len(length)] - togo + 1] \in Cell
    BY <2>1, <2>2 DEF Cell
  <2> QED
    BY <1>3, <2>1, <2>3 DEF copyBody, readVars
<1>4. CASE copyBodyDone
  BY <1>4 DEF copyBodyDone, serveVars, readVars
<1>5. CASE copyBodyTorn
  BY <1>5 DEF copyBodyTorn, serveVars, readVars
<1>6. CASE closeStream
  BY <1>6 DEF closeStream, serveVars, readVars
<1>7. CASE NextTrue
  BY <1>7 DEF NextTrue, serveVars, readVars
<1>8. CASE getNextFrameReader
  <2>1. /\ store' \in Seq(Cell) /\ limit' = total' /\ total' \in Nat /\ read' = 0
        /\ frames' = frames - 1 /\ frames \in Nat \ {0} /\ seen' = Append(seen, << >>)
        /\ UNCHANGED <<length, togo>>
    BY <1>8, FrameTaken
  <2>2. << >> \in Seq(Cell)
    OBVIOUS
  <2> QED
    BY <2>1, <2>2
<1>9. CASE ReaderLock
  BY <1>9 DEF ReaderLock, serveVars, readVars
<1>10. CASE fnRead
  <2>2. /\ seen # << >> /\ seen \in Seq(Seq(Cell)) /\ seen[Len(seen)] \in Seq(Cell) /\ store[1] \in Cell
        /\ store' \in Seq(Cell) /\ limit > 0 /\ limit' = limit - 1 /\ read' = read + 1
        /\ seen' = [seen EXCEPT ![Len(seen)] = Append(seen[Len(seen)], store[1])]
        /\ UNCHANGED <<length, togo, frames, total>>
    BY <1>10, ByteRead
  <2>3. Append(seen[Len(seen)], store[1]) \in Seq(Cell)
    BY <2>2
  <2>4. seen' \in Seq(Seq(Cell))
    BY <2>2, <2>3
  <2> QED
    BY <2>2, <2>4
<1>11. CASE fnReturn
  BY <1>11 DEF fnReturn, serveVars, readVars
<1>12. CASE CancelCalled
  BY <1>12 DEF CancelCalled, serveVars, readVars
<1>13. CASE Cancel
  BY <1>13 DEF Cancel, serveVars, readVars
<1>14. CASE UNCHANGED vars
  BY <1>14 DEF vars, serveVars, readVars
<1> QED
  BY <1>1, <1>2, <1>3, <1>4, <1>5, <1>6, <1>7, <1>8, <1>9, <1>10, <1>11, <1>12, <1>13, <1>14
  DEF Next, ServeStep, ReaderStep

(* The serve loop's part, the counter, and what the reader knows of the    *)
(* current frame.                                                          *)
LEMMA CountStep == ASSUME IInv, [Next]_vars PROVE ServeInv' /\ CountInv' /\ ReadInv'
<1>0. DataOK /\ PlaceOK /\ ServeInv /\ CountInv /\ ReadInv
  BY TypeParts DEF IInv
<1>a. /\ frames \in Nat /\ togo \in Nat /\ Len(seen) \in Nat /\ Len(length) \in Nat
      /\ Len(seen) <= Len(length) /\ total \in Nat /\ read \in Nat /\ limit \in Nat
  BY <1>0 DEF DataOK, ServeInv, CountInv, Whole
<1> USE <1>0
<1>1. CASE consume
  <2>1. spc = "loop" /\ togo = 0 /\ UNCHANGED <<store, frames, total, read, limit, rpc, seen>>
    BY <1>1, FrameBegins DEF ServeInv
  <2>2. ASSUME spc' = "gone", UNCHANGED <<length, togo>> PROVE ServeInv' /\ CountInv' /\ ReadInv'
    BY <2>1, <2>2 DEF ServeInv, CountInv, ReadInv, Whole
  <2>3. ASSUME NEW n \in Lengths, n \in Nat, spc' = "lock", length' = Append(length, n), togo' = n
        PROVE  ServeInv' /\ CountInv' /\ ReadInv'
    <3>1. /\ length' # << >> /\ Len(length') = Len(length) + 1 /\ length'[Len(length')] = n
          /\ \A k \in 1 .. Len(length) : length'[k] = length[k]
      BY <2>3 DEF DataOK
    <3>2. ServeInv'
      BY <2>3, <3>1 DEF ServeInv
    <3>3. CountInv'
      BY <1>a, <2>1, <2>3, <3>1 DEF CountInv, Whole
    <3>4. ReadInv'
      <4>1. seen # << >> => Len(seen) \in 1 .. Len(length)
        BY <1>a DEF DataOK
      <4> QED
        BY <2>1, <3>1, <4>1 DEF ReadInv
    <3> QED
      BY <3>2, <3>3, <3>4
  <2> QED
    BY <1>1, <2>2, <2>3, FrameBegins
<1>2. CASE copyBodyLock
  BY <1>2 DEF copyBodyLock, serveVars, readVars, ServeInv, CountInv, ReadInv, Whole, DataOK
<1>3. CASE copyBody
  <2>1. /\ spc = "copy" /\ spc' = "copy" /\ togo > 0 /\ togo' = togo - 1 /\ length # << >>
        /\ UNCHANGED <<frames, length, total, read, limit, rpc, seen>>
    BY <1>3 DEF copyBody, readVars, ServeInv
  <2>2. length[Len(length)] \in Nat
    <3>1. length[Len(length)] \in Lengths
      BY <2>1 DEF DataOK
    <3> QED
      BY <3>1, FrameBufferAssumption DEF FrameBufferAssumption
  <2>3. ServeInv'
    BY <1>a, <2>1, <2>2 DEF ServeInv
  <2>4. CountInv' /\ ReadInv'
    BY <2>1 DEF CountInv, ReadInv, Whole
  <2> QED
    BY <2>3, <2>4
<1>4. CASE copyBodyDone
  BY <1>4 DEF copyBodyDone, serveVars, readVars, ServeInv, CountInv, ReadInv, Whole, DataOK
<1>5. CASE copyBodyTorn
  BY <1>5 DEF copyBodyTorn, serveVars, readVars, ServeInv, CountInv, ReadInv, Whole, DataOK
<1>6. CASE closeStream
  BY <1>6 DEF closeStream, serveVars, readVars, ServeInv, CountInv, ReadInv, Whole, DataOK
<1>7. CASE NextTrue
  BY <1>7 DEF NextTrue, serveVars, readVars, ServeInv, CountInv, ReadInv, Whole, DataOK
<1>8. CASE getNextFrameReader
  <2>1. /\ limit' = total' /\ total' \in Nat /\ read' = 0 /\ total' = length[Len(seen) + 1]
        /\ frames' = frames - 1 /\ frames \in Nat \ {0} /\ seen' = Append(seen, << >>)
        /\ rpc' = "got" /\ UNCHANGED <<length, togo, spc>>
    BY <1>8, FrameTaken
  <2>2. seen' # << >> /\ Len(seen') = Len(seen) + 1 /\ seen'[Len(seen')] = << >>
    <3>1. << >> \in Seq(Cell)
      OBVIOUS
    <3>2. seen \in Seq(Seq(Cell))
      BY DEF DataOK
    <3>3. ASSUME NEW e \in Seq(Cell)
          PROVE  /\ Append(seen, e) # << >> /\ Len(Append(seen, e)) = Len(seen) + 1
                 /\ Append(seen, e)[Len(seen) + 1] = e
      BY <3>2
    <3> QED
      BY <2>1, <3>1, <3>3
  <2>3. ServeInv'
    BY <2>1 DEF ServeInv
  <2>4. Whole' = Whole /\ Whole \in Int
    BY <1>a, <2>1 DEF Whole
  <2>5. CountInv'
    BY <1>a, <2>1, <2>2, <2>4 DEF CountInv
  <2>6. ReadInv'
    BY <2>1, <2>2 DEF ReadInv
  <2> QED
    BY <2>3, <2>5, <2>6
<1>9. CASE ReaderLock
  BY <1>9 DEF ReaderLock, serveVars, readVars, ServeInv, CountInv, ReadInv, Whole, DataOK
<1>10. CASE fnRead
  <2>1. /\ seen # << >> /\ seen \in Seq(Seq(Cell)) /\ seen[Len(seen)] \in Seq(Cell) /\ store[1] \in Cell
        /\ seen' = [seen EXCEPT ![Len(seen)] = Append(seen[Len(seen)], store[1])]
        /\ limit > 0 /\ limit' = limit - 1 /\ read' = read + 1
        /\ UNCHANGED <<length, spc, togo, frames, total, rpc>>
    BY <1>10, ByteRead
  <2>2. seen' # << >> /\ Len(seen') = Len(seen) /\ seen'[Len(seen')] = Append(seen[Len(seen)], store[1])
    BY <2>1
  <2>3. Len(seen'[Len(seen')]) = Len(seen[Len(seen)]) + 1
    BY <2>1, <2>2
  <2>4. ServeInv' /\ CountInv'
    BY <2>1, <2>2 DEF ServeInv, CountInv, Whole
  <2>5. ReadInv'
    BY <1>a, <2>1, <2>2, <2>3 DEF ReadInv
  <2> QED
    BY <2>4, <2>5
<1>11. CASE fnReturn
  BY <1>11 DEF fnReturn, serveVars, readVars, ServeInv, CountInv, ReadInv, Whole, DataOK
<1>12. CASE CancelCalled
  BY <1>12 DEF CancelCalled, serveVars, readVars, ServeInv, CountInv, ReadInv, Whole, DataOK
<1>13. CASE Cancel
  BY <1>13 DEF Cancel, serveVars, readVars, ServeInv, CountInv, ReadInv, Whole, DataOK
<1>14. CASE UNCHANGED vars
  BY <1>14 DEF vars, serveVars, readVars, ServeInv, CountInv, ReadInv, Whole, DataOK
<1> QED
  BY <1>1, <1>2, <1>3, <1>4, <1>5, <1>6, <1>7, <1>8, <1>9, <1>10, <1>11, <1>12, <1>13, <1>14
  DEF Next, ServeStep, ReaderStep

-------------------------------------------------------------------------------
(* The store.  Three kinds of steps matter: none of its bytes moves, one   *)
(* is appended, or some are dropped at the front.                          *)
StoreInv == EndInv /\ HeadInv /\ RunInv /\ ChainInv

(* No byte moves, though a new length may have come in.                    *)
LEMMA StoreKept ==
  ASSUME IInv, UNCHANGED <<store, read, limit, seen>>,
         Len(length') >= Len(length), \A f \in 1 .. Len(length) : length'[f] = length[f],
         Len(length') \in Nat, Stored' = Stored, Stored > 0 => Place' = Place
  PROVE  StoreInv'
<1>0. DataOK /\ EndInv /\ HeadInv /\ RunInv /\ ChainInv
  BY TypeParts DEF IInv
<1>1. \A i \in 1 .. Len(store) : store[i].frame \in 1 .. Len(length) /\ store[i] \in Cell
  BY <1>0 DEF ChainInv, DataOK
<1>2. EndInv'
  <2>1. store # << >> => Stored > 0
    <3>1. store # << >> => Len(store) \in 1 .. Len(store)
      BY <1>0 DEF DataOK
    <3>2. store # << >> => Stored = store[Len(store)].frame
      BY <1>0 DEF EndInv
    <3> QED
      BY <1>1, <3>1, <3>2
  <2>2. store = << >> /\ seen # << >> => Stored > 0
    BY <1>0 DEF EndInv, DataOK
  <2> QED
    BY <1>0, <2>1, <2>2 DEF EndInv
<1>3. HeadInv'
  BY <1>0 DEF HeadInv
<1>4. RunInv'
  BY <1>0, <1>1 DEF RunInv, FrameAt
<1>5. ChainInv'
  <2>1. \A i \in 1 .. Len(store) : store[i].frame \in 1 .. Len(length')
    BY <1>0, <1>1 DEF DataOK
  <2>2. ASSUME NEW i \in 1 .. Len(store) - 1 PROVE store[i + 1] = Successor(store[i])'
    <3>1. i \in 1 .. Len(store)
      BY <1>0 DEF DataOK
    <3>2. store[i + 1] = Successor(store[i])
      BY <1>0 DEF ChainInv
    <3> QED
      BY <1>1, <3>1, <3>2 DEF Successor
  <2> QED
    BY <2>1, <2>2 DEF ChainInv
<1> QED
  BY <1>2, <1>3, <1>4, <1>5 DEF StoreInv

(* The byte that follows the last one is appended.                         *)
LEMMA StoreGrows ==
  ASSUME IInv, NEW c \in Cell, store' = Append(store, c), UNCHANGED <<length, read, limit, seen>>,
         c.frame \in 1 .. Len(length), Stored' = c.frame, Place' = c.pos,
         Stored \in Nat, Stored = 0 => c = [frame |-> 1, pos |-> 0],
         Stored > 0 => Stored <= Len(length) /\ Place \in Nat /\ Place <= length[Stored]
                       /\ c = Successor([frame |-> Stored, pos |-> Place])
  PROVE  StoreInv'
<1>0. DataOK /\ ReadInv /\ EndInv /\ HeadInv /\ RunInv /\ ChainInv
  BY TypeParts DEF IInv
<1>1. /\ store \in Seq(Cell) /\ Len(store) \in Nat /\ Len(store') = Len(store) + 1 /\ store' # << >>
      /\ \A i \in 1 .. Len(store) : store'[i] = store[i] /\ store[i] \in Cell
      /\ store'[Len(store) + 1] = c
      /\ limit \in Nat /\ read \in Nat /\ Len(seen) \in Nat
  <2>1. store \in Seq(Cell) /\ limit \in Nat /\ read \in Nat /\ Len(seen) \in Nat /\ Len(store) \in Nat
    BY <1>0 DEF DataOK
  <2>2. /\ Len(store') = Len(store) + 1 /\ store' # << >>
        /\ \A i \in 1 .. Len(store) : store'[i] = store[i] /\ store[i] \in Cell
        /\ store'[Len(store) + 1] = c
    BY <2>1
  <2> QED
    BY <2>1, <2>2
<1>2. c = [frame |-> c.frame, pos |-> c.pos] /\ c.frame \in Nat /\ c.pos \in Nat
  BY DEF Cell
<1>3. \A f \in 1 .. Len(length) : length[f] \in Nat
  <2>1. \A f \in 1 .. Len(length) : length[f] \in Lengths
    BY <1>0 DEF DataOK
  <2> QED
    BY <2>1, FrameBufferAssumption DEF FrameBufferAssumption
<1>4. store # << >> => /\ Len(store) \in 1 .. Len(store) /\ Stored > 0
                       /\ store[Len(store)] = [frame |-> Stored, pos |-> Place]
  <2>1. ASSUME store # << >> PROVE Len(store) \in 1 .. Len(store) /\ store[Len(store)] = [frame |-> Stored, pos |-> Place]
    BY <1>0, <1>1, <2>1 DEF EndInv
  <2>2. ASSUME store # << >> PROVE Stored > 0
    <3>1. store[Len(store)].frame \in 1 .. Len(length)
      BY <2>1, <2>2, <1>0 DEF ChainInv
    <3> QED
      BY <2>1, <2>2, <3>1
  <2> QED
    BY <2>1, <2>2
<1>5. EndInv'
  BY <1>1, <1>2 DEF EndInv
<1>6. HeadInv'
  <2>1. ASSUME Len(store) + 1 <= limit PROVE c = [frame |-> Len(seen), pos |-> read + (Len(store) + 1)]
    <3>1. seen # << >> /\ read + limit = length[Len(seen)]
      BY <1>0, <1>1, <2>1 DEF ReadInv
    <3>2. Stored = Len(seen) /\ Place = read + Len(store) /\ Stored > 0
      <4>1. CASE store = << >>
        BY <1>0, <1>1, <3>1, <4>1 DEF EndInv, DataOK
      <4>2. CASE store # << >>
        <5>1. Len(store) \in 1 .. limit /\ Len(store) <= Len(store)
          BY <1>1, <1>4, <2>1, <4>2
        <5>2. store[Len(store)] = [frame |-> Len(seen), pos |-> read + Len(store)]
          BY <1>0, <5>1 DEF HeadInv
        <5> QED
          BY <1>4, <4>2, <5>2
      <4> QED
        BY <4>1, <4>2
    <3>3. Place < length[Stored]
      BY <1>1, <2>1, <3>1, <3>2
    <3> QED
      BY <1>1, <3>2, <3>3 DEF Successor
  <2>2. ASSUME Len(store) = limit PROVE c = [frame |-> Len(seen) + 1, pos |-> 0]
    <3>1. CASE store = << >>
      <4>1. limit = 0 /\ Len(seen) = Stored
        BY <1>0, <2>2, <3>1 DEF EndInv
      <4>2. CASE seen = << >>
        BY <4>1, <4>2
      <4>3. CASE seen # << >>
        <5>1. Stored > 0 /\ Place = read /\ read = length[Stored]
          BY <1>0, <1>1, <3>1, <4>1, <4>3 DEF EndInv, ReadInv, DataOK
        <5> QED
          BY <1>1, <4>1, <5>1 DEF Successor
      <4> QED
        BY <4>2, <4>3
    <3>2. CASE store # << >>
      <4>1. Len(store) \in 1 .. limit /\ Len(store) <= Len(store)
        BY <1>1, <1>4, <2>2, <3>2
      <4>2. store[Len(store)] = [frame |-> Len(seen), pos |-> read + limit]
        BY <1>0, <2>2, <4>1 DEF HeadInv
      <4>3. Stored = Len(seen) /\ Place = read + limit /\ Stored > 0
        BY <1>4, <3>2, <4>2
      <4>4. Place = length[Stored]
        <5>1. seen # << >>
          BY <1>0, <1>1, <4>1 DEF ReadInv
        <5> QED
          BY <1>0, <4>3, <5>1 DEF ReadInv
      <4> QED
        BY <4>3, <4>4 DEF Successor
    <3> QED
      BY <3>1, <3>2
  <2>3. ASSUME NEW j \in 1 .. limit, j <= Len(store) + 1
        PROVE  store'[j] = [frame |-> Len(seen), pos |-> read + j]
    <3>1. CASE j = Len(store) + 1
      BY <1>1, <2>1, <2>3, <3>1
    <3>2. CASE j <= Len(store)
      BY <1>0, <1>1, <3>2 DEF HeadInv
    <3> QED
      BY <1>1, <2>3, <3>1, <3>2
  <2>4. ASSUME limit + 1 <= Len(store) + 1
        PROVE  store'[limit + 1] = [frame |-> Len(seen) + 1, pos |-> 0]
    <3>1. CASE limit = Len(store)
      BY <1>1, <2>2, <3>1
    <3>2. CASE limit + 1 <= Len(store)
      BY <1>0, <1>1, <3>2 DEF HeadInv
    <3> QED
      BY <1>1, <2>4, <3>1, <3>2
  <2> QED
    BY <1>1, <2>3, <2>4 DEF HeadInv
<1>7. RunInv'
  <2>1. SUFFICES ASSUME NEW i \in 1 .. Len(store) + 1, store'[i].pos = 0
                 PROVE  FrameAt(i, store[i].frame)'
    BY <1>1 DEF RunInv
  <2>2. CASE i = Len(store) + 1
    <3>1. store'[i].frame \in 1 .. Len(length)
      BY <1>1, <2>2
    <3>2. length[store'[i].frame] \in Nat
      BY <1>3, <3>1
    <3> QED
      BY <1>1, <2>2, <3>2 DEF FrameAt
  <2>3. CASE i \in 1 .. Len(store)
    <3> DEFINE f == store[i].frame
    <3>1. /\ store'[i] = store[i] /\ f \in 1 .. Len(length) /\ length[f] \in Nat /\ store # << >>
          /\ FrameAt(i, f) /\ store[i] = [frame |-> f, pos |-> 0]
      BY <1>0, <1>1, <1>3, <2>1, <2>3 DEF ChainInv, RunInv, Cell
    <3> HIDE DEF f
    <3>0. i \in Nat /\ i <= Len(store) /\ Len(store) \in Nat /\ length[f] \in Nat
      BY <1>1, <2>3, <3>1
    <3>2. ASSUME NEW j \in 1 .. length[f], i + j = Len(store) + 1
          PROVE  c = [frame |-> f, pos |-> j]
      <4>1. store[Len(store)] = [frame |-> f, pos |-> j - 1]
        <5>1. CASE j = 1
          BY <1>1, <2>3, <3>1, <3>2, <5>1
        <5>2. CASE j > 1
          <6>1. j - 1 \in 1 .. length[f] /\ i + (j - 1) = Len(store)
            BY <1>1, <2>3, <3>1, <3>2, <5>2
          <6>2. i + (j - 1) <= Len(store)
            BY <1>1, <6>1
          <6>3. store[i + (j - 1)] = [frame |-> f, pos |-> j - 1]
            BY <3>1, <6>1, <6>2 DEF FrameAt
          <6> QED
            BY <6>1, <6>3
        <5> QED
          BY <3>1, <3>2, <5>1, <5>2
      <4>2. Stored = f /\ Place = j - 1 /\ Stored > 0
        BY <1>4, <3>1, <4>1
      <4> QED
        BY <3>1, <3>2, <4>2 DEF Successor
    <3>3. ASSUME i + length[f] = Len(store) PROVE c = [frame |-> f + 1, pos |-> 0]
      <4>1. store[Len(store)] = [frame |-> f, pos |-> length[f]]
        <5>1. CASE length[f] = 0
          BY <1>1, <2>3, <3>1, <3>3, <5>1
        <5>2. CASE length[f] > 0
          <6>1. length[f] \in 1 .. length[f] /\ i + length[f] <= Len(store)
            BY <3>0, <3>3, <5>2
          <6> QED
            BY <3>1, <3>3, <6>1 DEF FrameAt
        <5> QED
          BY <3>1, <5>1, <5>2
      <4>2. Stored = f /\ Place = length[f] /\ Stored > 0
        BY <1>4, <3>1, <4>1
      <4> QED
        BY <3>1, <4>2 DEF Successor
    <3>4. ASSUME NEW j \in 1 .. length[f], i + j <= Len(store) + 1
          PROVE  store'[i + j] = [frame |-> f, pos |-> j]
      <4>1. CASE i + j = Len(store) + 1
        BY <1>1, <3>2, <4>1
      <4>2. CASE i + j <= Len(store)
        <5>1. store[i + j] = [frame |-> f, pos |-> j] /\ i + j \in 1 .. Len(store)
          BY <1>1, <2>3, <3>1, <4>2 DEF FrameAt
        <5> QED
          BY <1>1, <5>1
      <4>3. i + j = Len(store) + 1 \/ i + j <= Len(store)
        <5>1. j \in Int /\ i \in Int /\ Len(store) \in Int
          BY <3>0
        <5>2. i + j <= Len(store) + 1
          BY <3>4
        <5> QED
          BY <5>1, <5>2
      <4> QED
        BY <4>1, <4>2, <4>3
    <3>5. ASSUME i + length[f] + 1 <= Len(store) + 1
          PROVE  store'[i + length[f] + 1] = [frame |-> f + 1, pos |-> 0]
      <4>1. CASE i + length[f] = Len(store)
        BY <1>1, <3>3, <4>1
      <4>2. CASE i + length[f] + 1 <= Len(store)
        <5>1. store[i + length[f] + 1] = [frame |-> f + 1, pos |-> 0] /\ i + length[f] + 1 \in 1 .. Len(store)
          BY <1>1, <2>3, <3>1, <4>2 DEF FrameAt
        <5> QED
          BY <1>1, <5>1
      <4>3. i + length[f] = Len(store) \/ i + length[f] + 1 <= Len(store)
        BY <3>0, <3>5
      <4> QED
        BY <4>1, <4>2, <4>3
    <3>6. store'[i].frame = f
      BY <3>1 DEF f
    <3> QED
      BY <1>1, <3>4, <3>5, <3>6 DEF FrameAt
  <2> QED
    BY <1>1, <2>2, <2>3
<1>8. ChainInv'
  <2>1. \A i \in 1 .. Len(store) + 1 : store'[i].frame \in 1 .. Len(length)
    BY <1>0, <1>1 DEF ChainInv
  <2>2. ASSUME NEW i \in 1 .. Len(store) PROVE store'[i + 1] = Successor(store[i])
    <3>1. CASE i = Len(store)
      BY <1>1, <1>4, <2>2, <3>1
    <3>2. CASE i \in 1 .. Len(store) - 1
      <4>1. i + 1 \in 1 .. Len(store) /\ store[i + 1] = Successor(store[i])
        BY <1>0, <1>1, <3>2 DEF ChainInv
      <4> QED
        BY <1>1, <4>1
    <3> QED
      BY <1>1, <3>1, <3>2
  <2>3. \A i \in 1 .. Len(store) : store'[i + 1] = Successor(store'[i])
    BY <1>1, <2>2
  <2>4. Len(store') - 1 = Len(store)
    BY <1>1
  <2> QED
    BY <1>1, <2>1, <2>3, <2>4 DEF ChainInv, Successor
<1> QED
  BY <1>5, <1>6, <1>7, <1>8 DEF StoreInv

(* The first m bytes are dropped, of a frame or of parts of two.           *)
LEMMA StoreDrops ==
  ASSUME IInv, NEW m \in 1 .. Len(store), UNCHANGED <<length, Stored, Place>>,
         store' \in Seq(Cell), Len(store') = Len(store) - m,
         \A i \in 1 .. Len(store') : store'[i] = store[i + m]
  PROVE  /\ RunInv' /\ ChainInv'
         /\ store' # << >> => store'[Len(store')] = [frame |-> Stored', pos |-> Place']
         /\ store' = << >> => store[m] = [frame |-> Stored, pos |-> Place]
<1>0. DataOK /\ EndInv /\ RunInv /\ ChainInv
  BY TypeParts DEF IInv
<1>1. /\ Len(store) \in Nat /\ Len(store') \in Nat /\ m \in Nat /\ Len(store) = Len(store') + m
      /\ store # << >>
  BY <1>0 DEF DataOK
<1>2. \A i \in 1 .. Len(store') : i + m \in 1 .. Len(store)
  BY <1>1
<1>3. store[Len(store)] = [frame |-> Stored, pos |-> Place]
  BY <1>0, <1>1 DEF EndInv
<1>4. store' # << >> => store'[Len(store')] = [frame |-> Stored', pos |-> Place']
  <2>1. SUFFICES ASSUME store' # << >> PROVE store'[Len(store')] = store[Len(store)]
    BY <1>3
  <2>2. Len(store') \in 1 .. Len(store')
    BY <2>1, <1>1
  <2>3. store'[Len(store')] = store[Len(store') + m]
    BY <2>2
  <2> QED
    BY <1>1, <2>3
<1>5. store' = << >> => store[m] = [frame |-> Stored, pos |-> Place]
  <2>1. store' = << >> => m = Len(store)
    BY <1>1
  <2> QED
    BY <1>3, <2>1
<1>6. ChainInv'
  <2>1. \A i \in 1 .. Len(store') : store'[i].frame \in 1 .. Len(length')
    BY <1>0, <1>2 DEF ChainInv
  <2>2. ASSUME NEW i \in 1 .. Len(store') - 1 PROVE store'[i + 1] = Successor(store'[i])
    <3>1. i \in 1 .. Len(store') /\ i + 1 \in 1 .. Len(store') /\ i + m \in 1 .. Len(store) - 1
      BY <1>1
    <3>2. (i + 1) + m = (i + m) + 1
      BY <1>1
    <3>3. store'[i] = store[i + m] /\ store'[i + 1] = store[(i + m) + 1]
      BY <3>1, <3>2
    <3>4. store[(i + m) + 1] = Successor(store[i + m])
      BY <1>0, <3>1 DEF ChainInv
    <3> QED
      BY <3>3, <3>4
  <2> QED
    BY <2>1, <2>2 DEF ChainInv, Successor
<1>7. RunInv'
  <2>1. SUFFICES ASSUME NEW i \in 1 .. Len(store'), store'[i].pos = 0
                 PROVE  FrameAt(i, store[i].frame)'
    BY DEF RunInv
  <2> DEFINE f == store[i + m].frame
  <2>2. /\ i + m \in 1 .. Len(store) /\ store'[i] = store[i + m] /\ store'[i].frame = f
        /\ f \in 1 .. Len(length) /\ FrameAt(i + m, f) /\ i \in Nat
    BY <1>0, <1>2, <2>1 DEF RunInv, ChainInv
  <2> HIDE DEF f
  <2>3. length[f] \in Nat
    <3>1. length[f] \in Lengths
      BY <1>0, <2>2 DEF DataOK
    <3> QED
      BY <3>1, FrameBufferAssumption DEF FrameBufferAssumption
  <2>4. ASSUME NEW j \in 1 .. length[f], i + j <= Len(store')
        PROVE  store'[i + j] = [frame |-> f, pos |-> j]
    <3>1. i + j \in 1 .. Len(store') /\ (i + j) + m = (i + m) + j /\ (i + m) + j <= Len(store)
      BY <1>1, <2>2, <2>3, <2>4
    <3>2. store'[i + j] = store[(i + m) + j]
      BY <3>1
    <3>3. store[(i + m) + j] = [frame |-> f, pos |-> j]
      BY <2>2, <3>1 DEF FrameAt
    <3> QED
      BY <3>2, <3>3
  <2>5. ASSUME i + length[f] + 1 <= Len(store')
        PROVE  store'[i + length[f] + 1] = [frame |-> f + 1, pos |-> 0]
    <3>1. /\ i + length[f] + 1 \in 1 .. Len(store') /\ (i + length[f] + 1) + m = (i + m) + length[f] + 1
          /\ (i + m) + length[f] + 1 <= Len(store)
      BY <1>1, <2>2, <2>3, <2>5
    <3>2. store'[i + length[f] + 1] = store[(i + m) + length[f] + 1]
      BY <3>1
    <3>3. store[(i + m) + length[f] + 1] = [frame |-> f + 1, pos |-> 0]
      BY <2>2, <3>1 DEF FrameAt
    <3> QED
      BY <3>2, <3>3
  <2> QED
    BY <2>2, <2>4, <2>5 DEF FrameAt
<1> QED
  BY <1>4, <1>5, <1>6, <1>7

(* Every step leaves the store one run of whole frames but for the last.   *)
LEMMA StoreStep == ASSUME IInv, [Next]_vars PROVE StoreInv'
<1>0. /\ IInv /\ DataOK /\ ServeInv /\ HeadInv /\ RunInv
      /\ length \in Seq(Lengths) /\ Len(length) \in Nat
      /\ \A f \in 1 .. Len(length) : length[f] \in Nat
  <2>1. DataOK /\ ServeInv /\ HeadInv /\ RunInv
    BY TypeParts DEF IInv
  <2>2. \A f \in 1 .. Len(length) : length[f] \in Lengths
    BY <2>1 DEF DataOK
  <2>3. \A f \in 1 .. Len(length) : length[f] \in Nat
    BY <2>2, FrameBufferAssumption DEF FrameBufferAssumption
  <2> QED
    BY <2>1, <2>3 DEF DataOK
<1>1. CASE consume
  <2>1. spc = "loop" /\ togo = 0 /\ UNCHANGED <<store, read, limit, seen>>
    BY <1>0, <1>1, FrameBegins DEF ServeInv
  <2>2. ASSUME spc' = "gone", UNCHANGED <<length, togo>> PROVE StoreInv'
    <3>1. Stored' = Stored /\ Place' = Place
      BY <2>1, <2>2 DEF Stored, Place
    <3> QED
      BY <1>0, <2>1, <2>2, <3>1, StoreKept
  <2>3. ASSUME NEW n \in Lengths, n \in Nat, spc' = "lock", length' = Append(length, n), togo' = n
        PROVE  StoreInv'
    <3>1. /\ Len(length') = Len(length) + 1 /\ Len(length') >= Len(length) /\ Len(length') \in Nat
          /\ \A f \in 1 .. Len(length) : length'[f] = length[f]
      BY <1>0, <2>3
    <3>2. Stored' = Stored /\ Stored = Len(length)
      BY <1>0, <2>1, <2>3, <3>1 DEF Stored
    <3>3. Stored > 0 => Place' = Place
      <4>1. SUFFICES ASSUME Len(length) > 0 PROVE length[Len(length)] = length[Len(length)] - togo
        BY <1>0, <2>1, <2>3, <3>1, <3>2 DEF Place
      <4>2. length[Len(length)] \in Nat
        BY <1>0, <4>1
      <4> QED
        BY <2>1, <4>2
    <3> QED
      BY <1>0, <2>1, <3>1, <3>2, <3>3, StoreKept
  <2> QED
    BY <1>0, <1>1, <2>2, <2>3, FrameBegins
<1>2. CASE copyBodyLock
  <2> DEFINE c == [frame |-> Len(length), pos |-> 0]
  <2>1. /\ spc = "lock" /\ spc' = "copy" /\ length # << >> /\ togo = length[Len(length)]
        /\ store' = Append(store, c) /\ UNCHANGED <<length, togo, read, limit, seen>>
    BY <1>0, <1>2 DEF copyBodyLock, readVars, ServeInv
  <2>2. /\ Len(length) \in Nat \ {0} /\ length[Len(length)] \in Nat
        /\ Len(length) - 1 > 0 => length[Len(length) - 1] \in Nat
    BY <1>0, <2>1
  <2>3. c \in Cell /\ c.frame \in 1 .. Len(length)
    BY <2>2 DEF Cell
  <2>4. Stored' = c.frame /\ Place' = c.pos /\ Stored = Len(length) - 1 /\ Place = length[Len(length) - 1]
    BY <2>1, <2>2 DEF Stored, Place
  <2>5. Stored = 0 => c = [frame |-> 1, pos |-> 0]
    <3>1. Stored = 0 => Len(length) = 1
      <4>1. Stored = Len(length) - 1 /\ Len(length) \in Nat
        BY <2>2, <2>4
      <4> QED
        BY <4>1
    <3> QED
      BY <3>1
  <2>6. Stored > 0 => c = Successor([frame |-> Stored, pos |-> Place])
    <3>1. Stored > 0 => Place \in Nat /\ Place = length[Stored]
      BY <2>2, <2>4
    <3>2. Stored > 0 => ~(Place < length[Stored])
      BY <3>1
    <3>3. Stored + 1 = Len(length)
      BY <2>2, <2>4
    <3> QED
      BY <3>2, <3>3 DEF Successor
  <2>7. Stored \in Nat /\ (Stored > 0 => Stored <= Len(length) /\ Place \in Nat /\ Place <= length[Stored])
    BY <2>2, <2>4
  <2> HIDE DEF c
  <2> QED
    BY <1>0, <2>1, <2>3, <2>4, <2>5, <2>6, <2>7, StoreGrows
<1>3. CASE copyBody
  <2> DEFINE c == [frame |-> Len(length), pos |-> length[Len(length)] - togo + 1]
  <2>1. /\ spc = "copy" /\ spc' = "copy" /\ togo > 0 /\ togo' = togo - 1 /\ togo <= length[Len(length)]
        /\ length # << >> /\ store' = Append(store, c) /\ UNCHANGED <<length, read, limit, seen>>
    BY <1>0, <1>3 DEF copyBody, readVars, ServeInv
  <2>2. Len(length) \in Nat \ {0} /\ length[Len(length)] \in Nat /\ togo \in Nat
    BY <1>0, <2>1 DEF DataOK
  <2>3. c \in Cell /\ c.frame \in 1 .. Len(length)
    BY <2>1, <2>2 DEF Cell
  <2>4. Stored' = Len(length) /\ Place' = c.pos /\ Stored = Len(length) /\ Place = length[Len(length)] - togo
    BY <2>1, <2>2 DEF Stored, Place
  <2>5. Place \in Nat /\ Place < length[Stored] /\ Place + 1 = c.pos /\ Stored > 0
    BY <2>1, <2>2, <2>4
  <2>6. c = Successor([frame |-> Stored, pos |-> Place])
    BY <2>4, <2>5 DEF Successor
  <2>7. c.frame = Len(length)
    OBVIOUS
  <2> HIDE DEF c
  <2>8. Stored \in Nat /\ Stored <= Len(length) /\ Place <= length[Stored]
    BY <2>2, <2>4, <2>5
  <2> QED
    BY <1>0, <2>1, <2>3, <2>4, <2>5, <2>6, <2>7, <2>8, StoreGrows
<1>4. CASE copyBodyDone
  <2>1. /\ UNCHANGED <<store, read, limit, seen, length>> /\ Stored' = Stored /\ Place' = Place
    BY <1>0, <1>4 DEF copyBodyDone, serveVars, readVars, Stored, Place
  <2> QED
    BY <1>0, <2>1, StoreKept
<1>5. CASE copyBodyTorn
  <2>1. /\ UNCHANGED <<store, read, limit, seen, length>> /\ Stored' = Stored /\ Place' = Place
    BY <1>0, <1>5 DEF copyBodyTorn, serveVars, readVars, Stored, Place
  <2> QED
    BY <1>0, <2>1, StoreKept
<1>6. CASE closeStream
  <2>1. /\ UNCHANGED <<store, read, limit, seen, length>> /\ Stored' = Stored /\ Place' = Place
    BY <1>0, <1>6 DEF closeStream, serveVars, readVars, Stored, Place
  <2> QED
    BY <1>0, <2>1, StoreKept
<1>7. CASE NextTrue
  <2>1. /\ UNCHANGED <<store, read, limit, seen, length>> /\ Stored' = Stored /\ Place' = Place
    BY <1>0, <1>7 DEF NextTrue, serveVars, readVars, Stored, Place
  <2> QED
    BY <1>0, <2>1, StoreKept
<1>8. CASE getNextFrameReader
  <2> DEFINE m == limit + 1
  <2>1. /\ limit < Len(store) /\ Len(seen) + 1 \in 1 .. Stored
        /\ store' \in Seq(Cell) /\ Len(store') = Len(store) - m
        /\ \A i \in 1 .. Len(store') : store'[i] = store[i + m]
        /\ limit' = length[Len(seen) + 1] /\ limit' \in Nat /\ read' = 0
        /\ store[m] = [frame |-> Len(seen) + 1, pos |-> 0]
        /\ seen' = Append(seen, << >>) /\ UNCHANGED <<length, spc, togo>>
    BY <1>0, <1>8, FrameTaken
  <2>2. m \in 1 .. Len(store) /\ Len(seen) \in Nat /\ Len(store) \in Nat
    BY <1>0, <2>1 DEF DataOK
  <2>3. Len(seen') = Len(seen) + 1
    BY <1>0, <2>1 DEF DataOK
  <2>4. UNCHANGED <<length, Stored, Place>>
    BY <2>1 DEF Stored, Place
  <2> HIDE DEF m
  <2>5. /\ RunInv' /\ ChainInv'
        /\ store' # << >> => store'[Len(store')] = [frame |-> Stored', pos |-> Place']
        /\ store' = << >> => store[m] = [frame |-> Stored, pos |-> Place]
    BY <1>0, <2>1, <2>2, <2>4, StoreDrops
  <2>6. EndInv'
    BY <2>1, <2>3, <2>4, <2>5 DEF EndInv
  <2>7. FrameAt(m, Len(seen) + 1)
    <3>1. store[m].pos = 0 /\ store[m].frame = Len(seen) + 1
      BY <2>1
    <3>2. store[m].pos = 0 => FrameAt(m, store[m].frame)
      BY <1>0, <2>2, Zenon DEF RunInv
    <3> QED
      BY <3>1, <3>2
  <2>8. ASSUME NEW j \in 1 .. limit', j <= Len(store')
        PROVE  store'[j] = [frame |-> Len(seen) + 1, pos |-> j]
    <3>1. j \in 1 .. Len(store') /\ j + m = m + j /\ m + j <= Len(store)
      BY <2>1, <2>2, <2>8
    <3>2. store[m + j] = [frame |-> Len(seen) + 1, pos |-> j]
      BY <2>1, <2>7, <3>1 DEF FrameAt
    <3> QED
      BY <2>1, <3>1, <3>2
  <2>9. ASSUME limit' + 1 <= Len(store')
        PROVE  store'[limit' + 1] = [frame |-> Len(seen) + 2, pos |-> 0]
    <3>1. /\ limit' + 1 \in 1 .. Len(store') /\ (limit' + 1) + m = m + limit' + 1
          /\ m + limit' + 1 <= Len(store)
      BY <2>1, <2>2, <2>9
    <3>2. store[m + limit' + 1] = [frame |-> (Len(seen) + 1) + 1, pos |-> 0]
      BY <2>1, <2>7, <3>1 DEF FrameAt
    <3>3. (Len(seen) + 1) + 1 = Len(seen) + 2
      BY <2>2
    <3> QED
      BY <2>1, <3>1, <3>2, <3>3
  <2>10. HeadInv'
    <3>1. Len(seen') + 1 = Len(seen) + 2
      BY <2>2, <2>3
    <3>2. \A j \in 1 .. limit' : read' + j = j
      BY <2>1
    <3> QED
      BY <2>3, <2>8, <2>9, <3>1, <3>2 DEF HeadInv
  <2> QED
    BY <2>5, <2>6, <2>10 DEF StoreInv
<1>9. CASE ReaderLock
  <2>1. /\ UNCHANGED <<store, read, limit, seen, length>> /\ Stored' = Stored /\ Place' = Place
    BY <1>0, <1>9 DEF ReaderLock, serveVars, readVars, Stored, Place
  <2> QED
    BY <1>0, <2>1, StoreKept
<1>10. CASE fnRead
  <2>1. /\ seen # << >> /\ seen \in Seq(Seq(Cell))
        /\ store # << >> /\ store[1] = [frame |-> Len(seen), pos |-> read + 1]
        /\ store' \in Seq(Cell) /\ Len(store') = Len(store) - 1
        /\ \A i \in 1 .. Len(store') : store'[i] = store[i + 1]
        /\ seen' = [seen EXCEPT ![Len(seen)] = Append(seen[Len(seen)], store[1])]
        /\ limit > 0 /\ limit' = limit - 1 /\ read' = read + 1
        /\ UNCHANGED <<length, spc, togo>>
    BY <1>0, <1>10, ByteRead
  <2>2. 1 \in 1 .. Len(store) /\ Len(store) \in Nat /\ limit \in Nat /\ read \in Nat
    BY <1>0, <2>1 DEF DataOK
  <2>3. Len(seen') = Len(seen)
    BY <2>1
  <2>4. UNCHANGED <<length, Stored, Place>>
    BY <2>1 DEF Stored, Place
  <2>5. /\ RunInv' /\ ChainInv'
        /\ store' # << >> => store'[Len(store')] = [frame |-> Stored', pos |-> Place']
        /\ store' = << >> => store[1] = [frame |-> Stored, pos |-> Place]
    BY <1>0, <2>1, <2>2, <2>4, StoreDrops
  <2>6. EndInv'
    BY <2>1, <2>3, <2>4, <2>5 DEF EndInv
  <2>7. ASSUME NEW j \in 1 .. limit', j <= Len(store')
        PROVE  store'[j] = [frame |-> Len(seen), pos |-> (read + 1) + j]
    <3>1. /\ j \in 1 .. Len(store') /\ j + 1 \in 1 .. limit /\ j + 1 <= Len(store)
          /\ read + (j + 1) = (read + 1) + j
      BY <2>1, <2>2, <2>7
    <3>2. store[j + 1] = [frame |-> Len(seen), pos |-> read + (j + 1)]
      BY <1>0, <3>1 DEF HeadInv
    <3> QED
      BY <2>1, <3>1, <3>2
  <2>8. ASSUME limit' + 1 <= Len(store')
        PROVE  store'[limit' + 1] = [frame |-> Len(seen) + 1, pos |-> 0]
    <3>1. limit' + 1 = limit /\ limit \in 1 .. Len(store') /\ limit + 1 <= Len(store)
      BY <2>1, <2>2, <2>8
    <3>2. store[limit + 1] = [frame |-> Len(seen) + 1, pos |-> 0]
      BY <1>0, <3>1 DEF HeadInv
    <3> QED
      BY <2>1, <3>1, <3>2
  <2>9. HeadInv'
    BY <2>1, <2>3, <2>7, <2>8 DEF HeadInv
  <2> QED
    BY <2>5, <2>6, <2>9 DEF StoreInv
<1>11. CASE fnReturn
  <2>1. /\ UNCHANGED <<store, read, limit, seen, length>> /\ Stored' = Stored /\ Place' = Place
    BY <1>0, <1>11 DEF fnReturn, serveVars, readVars, Stored, Place
  <2> QED
    BY <1>0, <2>1, StoreKept
<1>12. CASE CancelCalled
  <2>1. /\ UNCHANGED <<store, read, limit, seen, length>> /\ Stored' = Stored /\ Place' = Place
    BY <1>0, <1>12 DEF CancelCalled, serveVars, readVars, Stored, Place
  <2> QED
    BY <1>0, <2>1, StoreKept
<1>13. CASE Cancel
  <2>1. /\ UNCHANGED <<store, read, limit, seen, length>> /\ Stored' = Stored /\ Place' = Place
    BY <1>0, <1>13 DEF Cancel, serveVars, readVars, Stored, Place
  <2> QED
    BY <1>0, <2>1, StoreKept
<1>14. CASE UNCHANGED vars
  <2>1. /\ UNCHANGED <<store, read, limit, seen, length>> /\ Stored' = Stored /\ Place' = Place
    BY <1>0, <1>14 DEF vars, serveVars, readVars, Stored, Place
  <2> QED
    BY <1>0, <2>1, StoreKept
<1> QED
  BY <1>1, <1>2, <1>3, <1>4, <1>5, <1>6, <1>7, <1>8, <1>9, <1>10, <1>11, <1>12, <1>13, <1>14
  DEF Next, ServeStep, ReaderStep

(* A function is given the bytes of its frame one after the other.         *)
LEMMA SeenStep == ASSUME IInv, [Next]_vars PROVE SeenInv'
<1>0. IInv /\ DataOK /\ ReadInv /\ SeenInv
  BY TypeParts DEF IInv
<1>1. CASE consume
  BY <1>0, <1>1 DEF consume, SeenInv, serveVars, readVars
<1>2. CASE copyBodyLock
  BY <1>0, <1>2 DEF copyBodyLock, SeenInv, serveVars, readVars
<1>3. CASE copyBody
  BY <1>0, <1>3 DEF copyBody, SeenInv, serveVars, readVars
<1>4. CASE copyBodyDone
  BY <1>0, <1>4 DEF copyBodyDone, SeenInv, serveVars, readVars
<1>5. CASE copyBodyTorn
  BY <1>0, <1>5 DEF copyBodyTorn, SeenInv, serveVars, readVars
<1>6. CASE closeStream
  BY <1>0, <1>6 DEF closeStream, SeenInv, serveVars, readVars
<1>7. CASE NextTrue
  BY <1>0, <1>7 DEF NextTrue, SeenInv, serveVars, readVars
<1>8. CASE getNextFrameReader
  <2>1. seen' = Append(seen, << >>)
    BY <1>0, <1>8, FrameTaken
  <2>2. ASSUME NEW e \in Seq(Cell)
        PROVE  /\ Len(Append(seen, e)) = Len(seen) + 1 /\ Append(seen, e)[Len(seen) + 1] = e
               /\ \A i \in 1 .. Len(seen) : Append(seen, e)[i] = seen[i]
    BY <1>0 DEF DataOK
  <2>3. << >> \in Seq(Cell) /\ Len(<< >>) = 0
    OBVIOUS
  <2>4. /\ Len(seen') = Len(seen) + 1 /\ Len(seen'[Len(seen) + 1]) = 0
        /\ \A i \in 1 .. Len(seen) : seen'[i] = seen[i]
    BY <2>1, <2>2, <2>3
  <2>5. Len(seen) \in Nat
    BY <1>0 DEF DataOK
  <2>6. ASSUME NEW i \in 1 .. Len(seen'), NEW j \in 1 .. Len(seen'[i])
        PROVE  seen'[i][j] = [frame |-> i, pos |-> j]
    <3>1. i \in 1 .. Len(seen)
      <4>1. i # Len(seen) + 1
        BY <2>4
      <4> QED
        BY <2>4, <2>5, <4>1
    <3> QED
      BY <1>0, <2>4, <3>1 DEF SeenInv
  <2> QED
    BY <2>6 DEF SeenInv
<1>9. CASE ReaderLock
  BY <1>0, <1>9 DEF ReaderLock, SeenInv, serveVars, readVars
<1>10. CASE fnRead
  <2> DEFINE R == Len(seen)
  <2>1. /\ seen # << >> /\ seen \in Seq(Seq(Cell)) /\ seen[R] \in Seq(Cell)
        /\ store[1] = [frame |-> R, pos |-> read + 1] /\ store[1] \in Cell
        /\ seen' = [seen EXCEPT ![R] = Append(seen[R], store[1])]
    BY <1>0, <1>10, ByteRead
  <2>2. read = Len(seen[R]) /\ R \in 1 .. R
    BY <1>0, <2>1 DEF ReadInv
  <2>3. Len(seen') = R /\ seen'[R] = Append(seen[R], store[1]) /\ \A i \in 1 .. R : i # R => seen'[i] = seen[i]
    BY <2>1
  <2> HIDE DEF R
  <2>4. ASSUME NEW j \in 1 .. Len(seen'[R]) PROVE seen'[R][j] = [frame |-> R, pos |-> j]
    <3>1. /\ Len(seen'[R]) = Len(seen[R]) + 1 /\ seen'[R][Len(seen[R]) + 1] = store[1]
          /\ \A k \in 1 .. Len(seen[R]) : seen'[R][k] = seen[R][k]
      BY <2>1, <2>3
    <3>2. CASE j = Len(seen[R]) + 1
      BY <2>1, <2>2, <3>1, <3>2
    <3>3. CASE j \in 1 .. Len(seen[R])
      <4>1. seen[R][j] = [frame |-> R, pos |-> j]
        BY <1>0, <2>2, <3>3 DEF SeenInv, R
      <4> QED
        BY <3>1, <3>3, <4>1
    <3>4. Len(seen[R]) \in Nat
      BY <2>1
    <3> QED
      BY <3>1, <3>2, <3>3, <3>4
  <2>5. ASSUME NEW i \in 1 .. R, i # R, NEW j \in 1 .. Len(seen'[i])
        PROVE  seen'[i][j] = [frame |-> i, pos |-> j]
    BY <1>0, <2>3, <2>5 DEF SeenInv, R
  <2> QED
    BY <2>3, <2>4, <2>5 DEF SeenInv
<1>11. CASE fnReturn
  BY <1>0, <1>11 DEF fnReturn, SeenInv, serveVars, readVars
<1>12. CASE CancelCalled
  BY <1>0, <1>12 DEF CancelCalled, SeenInv, serveVars, readVars
<1>13. CASE Cancel
  BY <1>0, <1>13 DEF Cancel, SeenInv, serveVars, readVars
<1>14. CASE UNCHANGED vars
  BY <1>0, <1>14 DEF vars, SeenInv, serveVars, readVars
<1> QED
  BY <1>1, <1>2, <1>3, <1>4, <1>5, <1>6, <1>7, <1>8, <1>9, <1>10, <1>11, <1>12, <1>13, <1>14
  DEF Next, ServeStep, ReaderStep

-------------------------------------------------------------------------------
(* The invariant is inductive.                                             *)
LEMMA NextInv == IInv /\ [Next]_vars => IInv'
<1> SUFFICES ASSUME IInv, [Next]_vars PROVE IInv'
  OBVIOUS
<1>1. TypeOK'
  <2>1. failed \in BOOLEAN /\ PlaceOK /\ LockInv
    BY TypeParts DEF IInv
  <2>2. failed' \in BOOLEAN /\ PlaceOK' /\ LockInv' /\ DataOK'
    BY <2>1, FailedStep, PlaceStep, DataStep
  <2>3. TypeOK' <=> (failed' \in BOOLEAN /\ DataOK' /\ PlaceOK' /\ LockInv')
    BY Zenon DEF TypeOK, DataOK, PlaceOK, LockInv
  <2> QED
    BY <2>2, <2>3
<1>2. ServeInv' /\ CountInv' /\ ReadInv'
  BY CountStep
<1>3. StoreInv' /\ SeenInv'
  BY StoreStep, SeenStep
<1> QED
  BY <1>1, <1>2, <1>3 DEF IInv, StoreInv

(* It holds in every behaviour.                                            *)
LEMMA Invariance == Spec => []IInv
<1>1. Init => IInv
  BY InitInv
<1>2. IInv /\ [Next]_vars => IInv'
  BY NextInv
<1> QED
  BY <1>1, <1>2, PTL DEF Spec

(* Every variable keeps its type, and each lock is held by the goroutine   *)
(* that works under it.                                                    *)
THEOREM TypeCorrect == Spec => []TypeOK
<1>1. IInv => TypeOK
  BY DEF IInv
<1> QED
  BY <1>1, Invariance, PTL

(* The function of the i-th Reader reads the i-th frame from its first     *)
(* byte on, whatever was left unread before, and there is such a frame     *)
(* when Next was true.                                                     *)
THEOREM FunctionsReadTheirFrame == Spec => []OwnFrame
<1>1. IInv => OwnFrame
  <2> SUFFICES ASSUME IInv PROVE OwnFrame
    OBVIOUS
  <2>1. ASSUME rpc = "next" PROVE Skipped # << >>
    <3>1. limit < Len(store) /\ Len(Skipped) = Len(store) - limit
      BY <2>1, NextFrame
    <3>2. limit \in Nat /\ Len(store) \in Nat
      BY TypeParts DEF IInv, DataOK
    <3> QED
      BY <3>1, <3>2
  <2>2. SeenInv
    BY DEF IInv
  <2> QED
    BY <2>1, <2>2 DEF OwnFrame, SeenInv
<1> QED
  BY <1>1, Invariance, PTL

(* The store is one run of bytes, and the counters of the buffer say where *)
(* in it the reader stands.                                                *)
THEOREM StoreIsOneRun == Spec => []Contiguous
<1>1. IInv => Contiguous
  <2> SUFFICES ASSUME IInv PROVE Contiguous
    OBVIOUS
  <2>1. DataOK /\ ReadInv /\ HeadInv /\ ChainInv
    BY TypeParts DEF IInv
  <2>2. ASSUME store # << >>
        PROVE  Head(store) = IF seen = << >> THEN [frame |-> 1, pos |-> 0] ELSE Successor(Position)
    <3>1. Head(store) = store[1] /\ 1 <= Len(store) /\ limit \in Nat /\ read \in Nat /\ total \in Nat
      BY <2>1, <2>2 DEF DataOK
    <3>2. CASE seen = << >>
      BY <2>1, <3>1, <3>2 DEF HeadInv, ReadInv
    <3>3. CASE seen # << >>
      <4>1. read + limit = length[Len(seen)]
        BY <2>1, <3>3 DEF ReadInv
      <4>2. CASE limit = 0
        <5>1. store[1] = [frame |-> Len(seen) + 1, pos |-> 0]
          BY <2>1, <3>1, <4>2 DEF HeadInv
        <5>2. ~(read < length[Len(seen)])
          BY <3>1, <4>1, <4>2
        <5> QED
          BY <3>1, <3>3, <5>1, <5>2 DEF Position, Successor
      <4>3. CASE limit > 0
        <5>1. store[1] = [frame |-> Len(seen), pos |-> read + 1]
          BY <2>1, <3>1, <4>3 DEF HeadInv
        <5>2. read < length[Len(seen)]
          BY <3>1, <4>1, <4>3
        <5> QED
          BY <3>1, <3>3, <5>1, <5>2 DEF Position, Successor
      <4> QED
        BY <3>1, <4>2, <4>3
    <3> QED
      BY <3>2, <3>3
  <2> QED
    BY <2>1, <2>2 DEF Contiguous, ReadInv, ChainInv
<1> QED
  BY <1>1, Invariance, PTL

-------------------------------------------------------------------------------
(* consume holds bs.mu over the copy and Cancel and closeStream wait for   *)
(* it, so the source has not failed while a body arrives.                  *)
OpenInv == mu = "serve" => ~failed

(* A function that read something has read of its own frame.               *)
LEMMA FirstByte ==
  ASSUME NEW s \in Seq(Seq(Cell)),
         \A i \in 1 .. Len(s) : \A j \in 1 .. Len(s[i]) : s[i][j] = [frame |-> i, pos |-> j],
         NEW k \in 1 .. Len(s)
  PROVE  (IF s[k] = << >> THEN k ELSE Head(s[k]).frame) = k
<1> SUFFICES ASSUME s[k] # << >> PROVE Head(s[k]).frame = k
  OBVIOUS
<1>1. s[k] \in Seq(Cell)
  OBVIOUS
<1>2. Head(s[k]) = s[k][1] /\ 1 \in 1 .. Len(s[k])
  BY <1>1
<1>3. s[k][1] = [frame |-> k, pos |-> 1]
  BY <1>2
<1> QED
  BY <1>2, <1>3

(* Only copyBodyDone counts a frame, only getNextFrameReader hands one     *)
(* out; no other step changes the abstract stream but Cancel and           *)
(* closeStream, which close it.                                            *)
LEMMA StreamStep ==
  ASSUME IInv, OpenInv, [Next]_vars
  PROVE  /\ OpenInv'
         /\ \/ /\ ~failed /\ ~failed' /\ frames' = frames + 1 /\ seen' = seen
            \/ /\ frames > 0 /\ failed' = failed /\ frames' = frames - 1 /\ seen' = Append(seen, << >>)
            \/ /\ failed => failed'
               /\ frames' = frames /\ Len(seen') = Len(seen)
<1>0. TypeOK /\ DataOK /\ PlaceOK /\ LockInv /\ CountInv
  BY TypeParts DEF IInv
<1>1. CASE consume
  BY <1>1 DEF consume, OpenInv, readVars
<1>2. CASE copyBodyLock
  BY <1>2 DEF copyBodyLock, OpenInv, readVars
<1>3. CASE copyBody
  BY <1>3 DEF copyBody, OpenInv, readVars
<1>4. CASE copyBodyDone
  BY <1>0, <1>4 DEF copyBodyDone, OpenInv, readVars, LockInv
<1>5. CASE copyBodyTorn
  BY <1>5 DEF copyBodyTorn, OpenInv, readVars
<1>6. CASE closeStream
  BY <1>6 DEF closeStream, OpenInv, readVars
<1>7. CASE NextTrue
  BY <1>7 DEF NextTrue, OpenInv
<1>8. CASE getNextFrameReader
  <2>1. frames' = frames - 1 /\ seen' = Append(seen, << >>)
    BY <1>0, <1>8, FrameTaken
  <2>2. frames > 0
    BY <1>0, <1>8 DEF CountInv, getNextFrameReader
  <2> QED
    BY <1>8, <2>1, <2>2 DEF getNextFrameReader, OpenInv
<1>9. CASE ReaderLock
  BY <1>9 DEF ReaderLock, OpenInv
<1>10. CASE fnRead
  BY <1>0, <1>10 DEF fnRead, OpenInv, DataOK
<1>11. CASE fnReturn
  BY <1>11 DEF fnReturn, OpenInv
<1>12. CASE CancelCalled
  BY <1>12 DEF CancelCalled, OpenInv, readVars
<1>13. CASE Cancel
  BY <1>13 DEF Cancel, OpenInv, readVars
<1>14. CASE UNCHANGED vars
  BY <1>14 DEF vars, OpenInv
<1> QED
  BY <1>1, <1>2, <1>3, <1>4, <1>5, <1>6, <1>7, <1>8, <1>9, <1>10, <1>11, <1>12, <1>13, <1>14
  DEF Next, ServeStep, ReaderStep

(* The frame buffer with its locks (copyBody, getNextFrameReader, Reader)  *)
(* implements Stream: a frame counts once it is whole, never after the     *)
(* source has failed, and Readers hand the frames out once and in order.   *)
THEOREM Refinement == Spec => ImplementsStream
<1>1. Init => IInv /\ OpenInv
  BY InitInv DEF Init, OpenInv
<1>2. Init => AbstractStream!Init
  <2> SUFFICES ASSUME Init PROVE AbstractStream!Init
    OBVIOUS
  <2>1. [i \in 1 .. Len(seen) |-> FrameOf(i)] = << >>
    BY DEF Init
  <2> QED
    BY <2>1 DEF Init, AbstractStream!Init
<1>3. IInv /\ OpenInv /\ [Next]_vars => (IInv /\ OpenInv)'
  BY NextInv, StreamStep
<1>4. ASSUME IInv, OpenInv, [Next]_vars PROVE [AbstractStream!Next]_(AbstractStream!vars)
  <2> DEFINE d == [i \in 1 .. Len(seen) |-> FrameOf(i)]
  <2>1. DataOK /\ SeenInv /\ DataOK' /\ SeenInv'
    <3>1. IInv'
      BY <1>4, NextInv
    <3> QED
      BY <1>4, <3>1, TypeParts, DataStep DEF IInv
  <2>2. d = [i \in 1 .. Len(seen) |-> i]
    BY <2>1, FirstByte DEF FrameOf, DataOK, SeenInv
  <2>3. d' = [i \in 1 .. Len(seen') |-> i]
    BY <2>1, FirstByte DEF FrameOf, DataOK, SeenInv
  <2>4. Len(seen) \in Nat /\ frames \in Nat /\ failed \in BOOLEAN /\ seen \in Seq(Seq(Cell))
    BY <1>4, <2>1, TypeParts DEF DataOK, IInv
  <2>5. CASE ~failed /\ ~failed' /\ frames' = frames + 1 /\ seen' = seen
    <3>1. d' = d
      BY <2>2, <2>3, <2>5
    <3> QED
      BY <2>4, <2>5, <3>1 DEF AbstractStream!Next, AbstractStream!Accept
  <2>6. CASE frames > 0 /\ failed' = failed /\ frames' = frames - 1 /\ seen' = Append(seen, << >>)
    <3>1. Len(seen') = Len(seen) + 1
      BY <2>4, <2>6
    <3>2. Len(d) = Len(seen) /\ d \in Seq(Nat)
      BY <2>2, <2>4
    <3>3. d' = Append(d, Len(d) + 1)
      BY <2>2, <2>3, <2>4, <3>1, <3>2
    <3>4. frames' + Len(seen') = frames + Len(seen) /\ Len(d) < frames + Len(seen)
      BY <2>4, <2>6, <3>1, <3>2
    <3> QED
      BY <2>6, <3>3, <3>4 DEF AbstractStream!Next, AbstractStream!Deliver
  <2>7. CASE (failed => failed') /\ frames' = frames /\ Len(seen') = Len(seen)
    <3>1. d' = d
      BY <2>2, <2>3, <2>7
    <3>2. failed' \in BOOLEAN
      BY <1>4, <2>4, FailedStep
    <3> QED
      BY <2>4, <2>7, <3>1, <3>2 DEF AbstractStream!Next, AbstractStream!vars, AbstractStream!Close
  <2> QED
    BY <1>4, <2>5, <2>6, <2>7, StreamStep
<1> QED
  BY <1>1, <1>2, <1>3, <1>4, PTL DEF Spec, ImplementsStream, AbstractStream!Spec
===============================================================================
