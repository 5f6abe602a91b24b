---------------------------- MODULE LQueueProofs ----------------------------
(* Proofs about lqueue for every ring size, message set and code base.     *)
EXTENDS LQueue, WellFoundedInduction, TLAPS

-----------------------------------------------------------------------------
(* Arithmetic of the length header.                                        *)

(* A quotient and a remainder put together again, and how they are found.  *)
LEMMA DivMod ==
  ASSUME NEW a \in Nat, NEW d \in Nat \ {0}
  PROVE  /\ a \div d \in Nat
         /\ a % d \in 0 .. d - 1
         /\ (a \div d) * d + (a % d) = a
  OBVIOUS

LEMMA DivUnique ==
  ASSUME NEW d \in Nat \ {0}, NEW q \in Nat, NEW r \in 0 .. d - 1,
         NEW a, a = q * d + r
  PROVE  a \div d = q /\ a % d = r
  OBVIOUS

LEMMA DivBound ==
  ASSUME NEW a \in Nat, NEW d \in Nat \ {0}, NEW b \in Nat, a < b * d
  PROVE  a \div d < b
  OBVIOUS

(* The bases are positive and every quotient of a length is small enough   *)
(* for the byte it is stored in.                                           *)
LEMMA Bases ==
  /\ Short \in Nat \ {0} /\ Radix \in Nat \ {0} /\ Radix = 4 * Short
  /\ Short * Radix \in Nat /\ Radix * Radix \in Nat
  BY ShortAssumption DEF Radix

LEMMA HeaderSizes ==
  ASSUME NEW len \in Nat
  PROVE  HeaderSize(len) \in {1, 2, 3}
  BY DEF HeaderSize

(* Every byte of a header is a byte.                                       *)
LEMMA EncodedBytes ==
  ASSUME NEW len \in Nat, 0 < len, len < Radix * Radix,
         NEW k \in 1 .. HeaderSize(len)
  PROVE  EncodeLength(len)[k] \in Byte
<1>1. CASE HeaderSize(len) = 1
  <2>1. len < Short
    BY <1>1 DEF HeaderSize
  <2>2. EncodeLength(len) = <<len>> /\ k = 1
    BY <1>1 DEF EncodeLength
  <2> QED
    BY <2>1, <2>2, Bases DEF Byte
<1>2. CASE HeaderSize(len) = 2
  <2>1. len < Short * Radix
    BY <1>2 DEF HeaderSize
  <2>2. len \div Radix \in Nat /\ len \div Radix < Short /\ len % Radix \in 0 .. Radix - 1
    BY <2>1, Bases, DivMod, DivBound
  <2>3. EncodeLength(len) = <<Short + len \div Radix, len % Radix>> /\ k \in {1, 2}
    BY <1>2 DEF EncodeLength
  <2> QED
    BY <2>2, <2>3, Bases DEF Byte
<1>3. CASE HeaderSize(len) = 3
  <2>1. len \div Radix \in Nat /\ len \div Radix < Radix /\ len % Radix \in 0 .. Radix - 1
    BY Bases, DivMod, DivBound
  <2>2. EncodeLength(len) = <<2 * Short, len \div Radix, len % Radix>> /\ k \in {1, 2, 3}
    BY <1>3 DEF EncodeLength
  <2> QED
    BY <2>1, <2>2, Bases DEF Byte
<1> QED
  BY <1>1, <1>2, <1>3, HeaderSizes

(* decodeLength undoes encodeLength, wherever in the ring the header lies. *)
LEMMA Decoded ==
  ASSUME NEW len \in Nat, 0 < len, len < Radix * Radix, NEW i \in Index,
         \A k \in 1 .. HeaderSize(len) : buffer[Advance(i, k - 1)] = EncodeLength(len)[k]
  PROVE  /\ DecodeLength(i).len = len
         /\ DecodeLength(i).start = Advance(i, HeaderSize(len))
<1>1. Advance(i, 0) = i
  BY BufferLengthAssumption DEF Advance, Index
<1>2. CASE HeaderSize(len) = 1
  <2>1. len < Short
    BY <1>2 DEF HeaderSize
  <2>2. buffer[i] = len
    BY <1>1, <1>2 DEF EncodeLength
  <2>3. buffer[i] \div Short = 0 /\ buffer[i] % Short = len
    BY <2>1, <2>2, Bases
  <2> QED
    BY <1>2, <2>3 DEF DecodeLength
<1>3. CASE HeaderSize(len) = 2
  <2> DEFINE q == len \div Radix
             r == len % Radix
  <2>1. len < Short * Radix
    BY <1>3 DEF HeaderSize
  <2>2. q \in Nat /\ q < Short /\ r \in Nat /\ q * Radix + r = len
    <3>1. Radix \in Nat \ {0} /\ Short \in Nat
      BY Bases
    <3>2. q \in Nat /\ r \in 0 .. Radix - 1 /\ q * Radix + r = len
      BY <3>1, DivMod
    <3>3. q < Short
      BY <2>1, <3>1, DivBound
    <3> QED
      BY <3>1, <3>2, <3>3
  <2>3. buffer[i] = Short + q /\ buffer[Advance(i, 1)] = r
    BY <1>1, <1>3 DEF EncodeLength
  <2> HIDE DEF q, r
  <2>4. buffer[i] \div Short = 1 /\ buffer[i] % Short = q
    <3>1. Short \in Nat \ {0} /\ q \in 0 .. Short - 1
      BY <2>2, Bases
    <3>2. \A a : a = 1 * Short + q => a \div Short = 1 /\ a % Short = q
      BY <3>1, DivUnique
    <3> QED
      BY <2>3, <3>1, <3>2
  <2> QED
    BY <1>3, <2>2, <2>3, <2>4 DEF DecodeLength
<1>4. CASE HeaderSize(len) = 3
  <2> DEFINE q == len \div Radix
             r == len % Radix
  <2>1. q \in Nat /\ r \in Nat /\ q * Radix + r = len
    <3>1. Radix \in Nat \ {0}
      BY Bases
    <3>2. q \in Nat /\ r \in 0 .. Radix - 1 /\ q * Radix + r = len
      BY <3>1, DivMod
    <3> QED
      BY <3>1, <3>2
  <2>2. buffer[i] = 2 * Short /\ buffer[Advance(i, 1)] = q /\ buffer[Advance(i, 2)] = r
    BY <1>1, <1>4 DEF EncodeLength
  <2> HIDE DEF q, r
  <2>3. buffer[i] \div Short = 2 /\ buffer[i] % Short = 0
    <3>1. Short \in Nat \ {0} /\ 0 \in 0 .. Short - 1
      BY Bases
    <3>2. \A a : a = 2 * Short + 0 => a \div Short = 2 /\ a % Short = 0
      BY <3>1, DivUnique
    <3> QED
      BY <2>2, <3>1, <3>2
  <2>4. 0 * Radix + q = q
    BY <2>1, Bases
  <2> QED
    BY <1>4, <2>1, <2>2, <2>3, <2>4 DEF DecodeLength
<1> QED
  BY <1>2, <1>3, <1>4, HeaderSizes

-----------------------------------------------------------------------------
(* Arithmetic of the ring's indices.                                       *)

LEMMA AdvanceInside ==
  ASSUME NEW i \in Index, NEW n \in 0 .. BufferLength
  PROVE  Advance(i, n) \in Index
  BY BufferLengthAssumption DEF Advance, Index

LEMMA AdvanceTwice ==
  ASSUME NEW i \in Index, NEW m \in Nat, NEW n \in Nat, m + n <= BufferLength
  PROVE  Advance(Advance(i, m), n) = Advance(i, m + n)
  BY BufferLengthAssumption DEF Advance, Index

(* A remainder wraps an index as the comparison does.                      *)
LEMMA AdvanceByModulo ==
  ASSUME NEW i \in Index, NEW n \in 0 .. BufferLength
  PROVE  (i + n) % BufferLength = Advance(i, n)
<1>1. BufferLength \in Nat \ {0} /\ i \in Nat /\ n \in Nat /\ i < BufferLength /\ n <= BufferLength
  BY BufferLengthAssumption DEF Index
<1> DEFINE z == i + n
<1>2. CASE z < BufferLength
  <2>1. z \in 0 .. BufferLength - 1 /\ z = 0 * BufferLength + z
    BY <1>1, <1>2
  <2>2. z % BufferLength = z
    <3> HIDE DEF z
    <3> QED
      BY <1>1, <2>1, DivUnique
  <2> QED
    BY <1>1, <1>2, <2>2 DEF Advance
<1>3. CASE z >= BufferLength
  <2> DEFINE r == z - BufferLength
  <2>1. r \in 0 .. BufferLength - 1 /\ z = 1 * BufferLength + r
    BY <1>1, <1>3
  <2>2. z % BufferLength = r
    <3> HIDE DEF z, r
    <3> QED
      BY <1>1, <2>1, DivUnique
  <2> QED
    BY <1>1, <1>3, <2>2 DEF Advance
<1> QED
  BY <1>1, <1>2, <1>3

LEMMA DistanceInside ==
  ASSUME NEW i \in Index, NEW j \in Index
  PROVE  /\ Distance(i, j) \in Index
         /\ Advance(i, Distance(i, j)) = j
  BY BufferLengthAssumption DEF Distance, Advance, Index

LEMMA DistanceAdvanced ==
  ASSUME NEW i \in Index, NEW n \in Index
  PROVE  Distance(i, Advance(i, n)) = n
  BY BufferLengthAssumption DEF Distance, Advance, Index

(* Behind the u bytes in use from r on, the j-th byte written is the j-th  *)
(* from the write index; the o-th byte in use is beyond all s of them.     *)
LEMMA WrittenByte ==
  ASSUME NEW r \in Index, NEW u \in Nat, NEW s \in Nat, u + s <= BufferLength - 1,
         NEW j \in Nat, j < s
  PROVE  /\ Advance(r, u + j) \in Index
         /\ Distance(Advance(r, u), Advance(r, u + j)) = j
  BY BufferLengthAssumption DEF Advance, Distance, Index

LEMMA UsedByte ==
  ASSUME NEW r \in Index, NEW u \in Nat, NEW s \in Nat, u + s <= BufferLength - 1,
         NEW o \in Nat, o < u
  PROVE  /\ Advance(r, o) \in Index
         /\ Distance(Advance(r, u), Advance(r, o)) \in Nat
         /\ Distance(Advance(r, u), Advance(r, o)) >= s
  BY BufferLengthAssumption DEF Advance, Distance, Index

(* calcFreeSpace keeps one byte of the ring unused.                        *)
LEMMA FreeAndUsed ==
  ASSUME writeIndex \in Index, readIndex \in Index
  PROVE  FreeSpace = BufferLength - 1 - Used
  BY BufferLengthAssumption DEF FreeSpace, calcFreeSpace, Used, Distance, Index

LEMMA Codes ==
  ASSUME NEW c \in ReturnCode
  PROVE  Code(c) \in Results
<1>1. <<>> \in Seq(Byte)
  OBVIOUS
<1> QED
  BY <1>1 DEF Code, Answer, Results

(* A frame is longer than its message and made of bytes.                   *)
LEMMA FrameSizes ==
  ASSUME NEW m \in Messages
  PROVE  /\ Len(m) \in Nat
         /\ HeaderSize(Len(m)) \in {1, 2, 3}
         /\ FrameSize(m) \in Nat /\ FrameSize(m) > Len(m)
         /\ HeaderSize(Len(m)) + Len(m) = FrameSize(m)
<1>1. Len(m) \in Nat
  BY MessagesAssumption
<1> QED
  BY <1>1, HeaderSizes DEF FrameSize

LEMMA FrameBytes ==
  ASSUME NEW m \in Messages, 0 < Len(m), Len(m) < Radix * Radix,
         NEW k \in 1 .. FrameSize(m)
  PROVE  Frame(m)[k] \in Byte
<1>1. m \in Seq(Byte)
  BY MessagesAssumption
<1>2. CASE k <= HeaderSize(Len(m))
  <2>1. k \in 1 .. HeaderSize(Len(m))
    BY <1>2, FrameSizes
  <2>2. EncodeLength(Len(m))[k] \in Byte
    BY <2>1, FrameSizes, EncodedBytes
  <2> QED
    BY <1>2, <2>2 DEF Frame
<1>3. CASE ~(k <= HeaderSize(Len(m)))
  <2>1. k - HeaderSize(Len(m)) \in 1 .. Len(m)
    BY <1>3, FrameSizes
  <2>2. m[k - HeaderSize(Len(m))] \in Byte
    BY <1>1, <2>1
  <2> QED
    BY <1>3, <2>2 DEF Frame
<1> QED
  BY <1>2, <1>3

-----------------------------------------------------------------------------
(* What the calls do to a ring that satisfies the invariant.               *)

(* Where the stored messages lie.                                          *)
LEMMA Entries ==
  ASSUME RingInv, NEW i \in 1 .. Len(queued)
  PROVE  /\ queued[i].msg \in Messages
         /\ queued[i].off \in Index
         /\ FrameSize(queued[i].msg) \in Nat
         /\ queued[i].off + FrameSize(queued[i].msg) <= Used
         /\ Used \in Index
<1>1. queued[i] \in Entry
  BY DEF RingInv, TypeOK
<1>2. queued[i].msg \in Messages /\ queued[i].off \in Index
  BY <1>1 DEF Entry
<1>3. Used \in Index
  BY DistanceInside DEF RingInv, TypeOK, Used
<1> QED
  BY <1>2, <1>3, FrameSizes DEF RingInv, FramesInOrder, EntryEnd

(* decodeLength at the place of a stored message finds that message, and   *)
(* the place behind it is where the message after it lies.                 *)
LEMMA EntryDecoded ==
  ASSUME RingInv, NEW i \in 1 .. Len(queued)
  PROVE  LET m  == queued[i].msg
             at == Advance(readIndex, queued[i].off)
             d  == DecodeLength(at)
         IN  /\ at \in Index
             /\ d.len = Len(m)
             /\ d.start = Advance(at, HeaderSize(Len(m)))
             /\ Advance(d.start, d.len) = Advance(readIndex, EntryEnd(i))
             /\ NextFrame(at) = Advance(readIndex, EntryEnd(i))
             /\ Payload(d.start, d.len) = m
<1> DEFINE m == queued[i].msg
           off == queued[i].off
           h == HeaderSize(Len(m))
           at == Advance(readIndex, off)
<1>1. /\ m \in Messages /\ off \in Index /\ readIndex \in Index
      /\ off + FrameSize(m) <= Used /\ Used \in Index
  BY Entries DEF RingInv, TypeOK
<1>2. 0 < Len(m) /\ Len(m) < Radix * Radix
  BY DEF RingInv, StoredSizes
<1>3. /\ Len(m) \in Nat /\ h \in {1, 2, 3} /\ FrameSize(m) \in Nat
      /\ h + Len(m) = FrameSize(m) /\ m \in Seq(Byte)
  BY <1>1, FrameSizes, MessagesAssumption
<1>4. \A k \in 1 .. FrameSize(m) : buffer[Advance(readIndex, off + k - 1)] = Frame(m)[k]
  BY DEF RingInv, FramesIntact
<1>5. EntryEnd(i) = off + FrameSize(m)
  BY DEF EntryEnd
<1> HIDE DEF m, off, h
<1>6. /\ off \in Nat /\ off + FrameSize(m) <= BufferLength - 1 /\ BufferLength \in Nat \ {0}
  BY <1>1, <1>3, BufferLengthAssumption DEF Index
<1>7. at \in Index
  BY <1>1, <1>3, <1>6, AdvanceInside
<1>8. \A k \in 0 .. FrameSize(m) : Advance(at, k) = Advance(readIndex, off + k)
  BY <1>1, <1>3, <1>6, AdvanceTwice
<1>9. \A k \in 1 .. FrameSize(m) : buffer[Advance(at, k - 1)] = Frame(m)[k]
  <2> SUFFICES ASSUME NEW k \in 1 .. FrameSize(m)
               PROVE  buffer[Advance(at, k - 1)] = Frame(m)[k]
    OBVIOUS
  <2>1. k - 1 \in 0 .. FrameSize(m) /\ off + (k - 1) = off + k - 1
    BY <1>3, <1>6
  <2> QED
    BY <1>4, <1>8, <2>1
<1> HIDE DEF at
<1>10. \A k \in 1 .. h : buffer[Advance(at, k - 1)] = EncodeLength(Len(m))[k]
  BY <1>3, <1>9 DEF Frame, h
<1>11. DecodeLength(at).len = Len(m) /\ DecodeLength(at).start = Advance(at, h)
  BY <1>2, <1>3, <1>7, <1>10, Decoded DEF h
<1>12. \A k \in 0 .. Len(m) : Advance(Advance(at, h), k) = Advance(at, h + k)
  <2> SUFFICES ASSUME NEW k \in 0 .. Len(m)
               PROVE  Advance(Advance(at, h), k) = Advance(at, h + k)
    OBVIOUS
  <2>1. h \in Nat /\ k \in Nat /\ h + k <= BufferLength
    BY <1>3, <1>6
  <2> QED
    BY <1>7, <2>1, AdvanceTwice
<1>13. Advance(Advance(at, h), Len(m)) = Advance(readIndex, EntryEnd(i))
  BY <1>3, <1>5, <1>8, <1>12
<1>14. NextFrame(at) = Advance(readIndex, EntryEnd(i))
  <2>1. Advance(at, h) \in Index
    BY <1>3, <1>6, <1>7, AdvanceInside
  <2>2. (Advance(at, h) + Len(m)) % BufferLength = Advance(Advance(at, h), Len(m))
    <3>1. Len(m) \in 0 .. BufferLength
      BY <1>3, <1>6
    <3> QED
      BY <2>1, <3>1, AdvanceByModulo
  <2> QED
    BY <1>11, <1>13, <2>1, <2>2 DEF NextFrame
<1>15. \A k \in 1 .. Len(m) : buffer[Advance(Advance(at, h), k - 1)] = m[k]
  <2> SUFFICES ASSUME NEW k \in 1 .. Len(m)
               PROVE  buffer[Advance(Advance(at, h), k - 1)] = m[k]
    OBVIOUS
  <2>1. k - 1 \in 0 .. Len(m) /\ h + k \in 1 .. FrameSize(m) /\ h + (k - 1) = (h + k) - 1
    BY <1>3
  <2>2. Advance(Advance(at, h), k - 1) = Advance(at, (h + k) - 1)
    BY <1>12, <2>1
  <2>3. Frame(m)[h + k] = m[k]
    <3>1. ~(h + k <= h) /\ (h + k) - h = k
      BY <1>3
    <3> QED
      BY <2>1, <3>1 DEF Frame, h
  <2> QED
    BY <1>9, <2>1, <2>2, <2>3
<1>16. Payload(Advance(at, h), Len(m)) = m
  <2>1. m = [k \in 1 .. Len(m) |-> m[k]]
    BY <1>3
  <2> QED
    BY <1>15, <2>1 DEF Payload
<1> QED
  BY <1>7, <1>11, <1>13, <1>14, <1>16 DEF m, at, off, h

(* decodeLength at readIndex finds the oldest message.                     *)
LEMMA FrontDecoded ==
  ASSUME RingInv, queued # <<>>
  PROVE  LET m == queued[1].msg
             d == DecodeLength(readIndex)
         IN  /\ d.len = Len(m)
             /\ d.start = Advance(readIndex, HeaderSize(Len(m)))
             /\ FrontEnd = Advance(readIndex, FrameSize(m))
             /\ Payload(d.start, d.len) = m
<1>1. 1 \in 1 .. Len(queued) /\ queued[1].off = 0 /\ readIndex \in Index
  BY DEF RingInv, FramesInOrder, TypeOK
<1>2. Advance(readIndex, 0) = readIndex
  BY <1>1, BufferLengthAssumption DEF Advance, Index
<1>3. EntryEnd(1) = FrameSize(queued[1].msg)
  BY <1>1, Entries DEF EntryEnd
<1> QED
  BY <1>1, <1>2, <1>3, EntryDecoded DEF FrontEnd

-----------------------------------------------------------------------------
(* The invariant is inductive: one lemma for each kind of step.            *)

LEMMA InitRing == Init => RingInv
<1> SUFFICES ASSUME Init PROVE RingInv
  OBVIOUS
<1>1. 0 \in Index /\ 0 \in Byte
  BY BufferLengthAssumption, Bases DEF Index, Byte
<1>2. queued = <<>> /\ Len(queued) = 0 /\ queued \in Seq(Entry)
  BY DEF Init
<1>4. TypeOK
  BY <1>1, <1>2, Codes DEF Init, TypeOK, ReturnCode
<1>5. FramesInOrder
  BY <1>1, <1>2 DEF Init, FramesInOrder, Used, Distance
<1>6. FramesIntact /\ StoredSizes
  BY <1>2 DEF FramesIntact, StoredSizes
<1> QED
  BY <1>4, <1>5, <1>6 DEF RingInv

(* lqueue_empty and lqueue_init leave an empty ring.                       *)
LEMMA ResetRing ==
  ASSUME RingInv, Reset, buffer' \in [Index -> Byte]
  PROVE  RingInv'
<1>1. 0 \in Index
  BY BufferLengthAssumption DEF Index
<1>2. queued' = <<>> /\ Len(queued') = 0 /\ queued' \in Seq(Entry)
  BY DEF Reset
<1>4. TypeOK'
  BY <1>1, <1>2, Codes DEF Reset, TypeOK, ReturnCode
<1>5. FramesInOrder'
  BY <1>1, <1>2 DEF Reset, FramesInOrder, Used, Distance
<1>6. FramesIntact' /\ StoredSizes'
  BY <1>2 DEF FramesIntact, StoredSizes
<1> QED
  BY <1>4, <1>5, <1>6 DEF RingInv

(* A call that is refused changes nothing but the result.                  *)
LEMMA RefusedRing ==
  ASSUME RingInv, UNCHANGED <<ring, queued>>, result' \in Results
  PROVE  RingInv'
BY DEF RingInv, TypeOK, FramesInOrder, FramesIntact, StoredSizes, EntryEnd, Used,
       DecodeLength, ring

(* lqueue_push writes its frame behind the last one, into unused bytes.    *)
LEMMA PushRing ==
  ASSUME RingInv, NEW m \in Messages, PushStored(m)
  PROVE  RingInv'
<1> DEFINE s == FrameSize(m)
           last == [off |-> Used, msg |-> m]
           n == Len(queued)
<1>1. /\ readIndex \in Index /\ writeIndex \in Index /\ n \in Nat
      /\ queued \in Seq(Entry) /\ buffer \in [Index -> Byte] /\ msgCnt = n
  BY DEF RingInv, TypeOK, FramesInOrder
<1>2. /\ Used \in Index /\ writeIndex = Advance(readIndex, Used)
      /\ s \in Nat /\ s > 0 /\ Used + s <= BufferLength - 1
  <2>1. FreeSpace = BufferLength - 1 - Used /\ Used \in Index
    BY <1>1, FreeAndUsed, DistanceInside DEF Used
  <2>3. writeIndex = Advance(readIndex, Used)
    BY <1>1, DistanceInside DEF Used
  <2>2. s \in Nat /\ s > 0 /\ FreeSpace >= s
    BY FrameSizes DEF PushStored
  <2> HIDE DEF s
  <2> QED
    BY <2>1, <2>2, <2>3, BufferLengthAssumption DEF Index
<1>3. /\ queued' = Append(queued, last) /\ last \in Entry
      /\ Len(queued') = n + 1 /\ queued' \in Seq(Entry)
      /\ queued'[n + 1] = last
      /\ \A i \in 1 .. n : queued'[i] = queued[i]
  BY <1>1, <1>2 DEF PushStored, Entry, Used
<1>4. /\ readIndex' = readIndex
      /\ writeIndex' = Advance(readIndex, Used + s) /\ writeIndex' \in Index
      /\ Used' = Used + s
  <2>1. readIndex' = readIndex /\ writeIndex' = Advance(writeIndex, s)
    BY DEF PushStored
  <2>2. Used + s \in Index /\ Used + s <= BufferLength
    BY <1>2, BufferLengthAssumption DEF Index
  <2>3. writeIndex' = Advance(readIndex, Used + s)
    BY <1>1, <1>2, <2>1, <2>2, AdvanceTwice DEF Index
  <2>4. writeIndex' \in Index
    BY <1>1, <2>2, <2>3, AdvanceInside DEF Index
  <2> QED
    BY <1>1, <2>1, <2>2, <2>3, <2>4, DistanceAdvanced DEF Used
<1>5. TypeOK'
  <2>1. buffer' \in [Index -> Byte]
    <3>1. \A i \in Index : Distance(writeIndex, i) < s =>
             Frame(m)[Distance(writeIndex, i) + 1] \in Byte
      <4> SUFFICES ASSUME NEW i \in Index, Distance(writeIndex, i) < s
                   PROVE  Frame(m)[Distance(writeIndex, i) + 1] \in Byte
        OBVIOUS
      <4>1. Distance(writeIndex, i) + 1 \in 1 .. s
        <5>1. Distance(writeIndex, i) \in Index
          BY <1>1, DistanceInside
        <5> HIDE DEF s
        <5> QED
          BY <1>2, <5>1, BufferLengthAssumption DEF Index
      <4> QED
        BY <4>1, FrameBytes DEF PushStored
    <3> QED
      BY <1>1, <3>1 DEF PushStored
  <2>2. result' \in Results
    BY Codes DEF PushStored, ReturnCode
  <2> QED
    BY <1>1, <1>3, <1>4, <2>1, <2>2 DEF TypeOK, PushStored
<1>6. FramesInOrder'
  <2>1. msgCnt' = Len(queued')
    BY <1>1, <1>3 DEF PushStored
  <2>2. queued' # <<>>
    BY <1>1, <1>3
  <2>3. queued'[1].off = 0
    BY <1>1, <1>3 DEF RingInv, FramesInOrder
  <2> DEFINE End(i) == queued'[i].off + FrameSize(queued'[i].msg)
  <2>4. End(n + 1) = Used'
    BY <1>3, <1>4
  <2>5. \A i \in 1 .. n : End(i) = EntryEnd(i)
    BY <1>3 DEF EntryEnd
  <2>6. \A i \in 1 .. n : queued'[i + 1].off = End(i)
    <3> SUFFICES ASSUME NEW i \in 1 .. n
                 PROVE  queued'[i + 1].off = EntryEnd(i)
      BY <2>5
    <3>1. CASE i = n
      BY <1>1, <1>3, <3>1 DEF RingInv, FramesInOrder
    <3>2. CASE i < n
      <4>1. i \in 1 .. n - 1 /\ i + 1 \in 1 .. n
        BY <1>1, <3>2
      <4> QED
        BY <1>3, <4>1 DEF RingInv, FramesInOrder
    <3> QED
      BY <1>1, <3>1, <3>2
  <2>7. \A i \in 1 .. n + 1 : End(i) <= Used'
    <3> SUFFICES ASSUME NEW i \in 1 .. n + 1
                 PROVE  End(i) <= Used + s
      BY <1>4
    <3>1. CASE i = n + 1
      BY <1>2, <1>4, <2>4, <3>1 DEF Index
    <3>2. CASE i \in 1 .. n
      <4>1. EntryEnd(i) <= Used /\ EntryEnd(i) \in Nat
        BY <3>2, Entries DEF EntryEnd, Index
      <4> HIDE DEF s, End
      <4> QED
        BY <1>2, <2>5, <3>2, <4>1 DEF Index
    <3> QED
      BY <1>1, <3>1, <3>2
  <2>8. \A i, j \in 1 .. n + 1 : i < j => End(i) <= queued'[j].off
    <3> SUFFICES ASSUME NEW i \in 1 .. n + 1, NEW j \in 1 .. n + 1, i < j
                 PROVE  EntryEnd(i) <= queued'[j].off
      BY <1>1, <2>5
    <3>1. i \in 1 .. n
      BY <1>1
    <3>2. CASE j = n + 1
      BY <1>3, <3>1, <3>2 DEF RingInv, FramesInOrder
    <3>3. CASE j \in 1 .. n
      BY <1>3, <3>1, <3>3 DEF RingInv, FramesInOrder
    <3> QED
      BY <1>1, <3>2, <3>3
  <2> QED
    <3>1. (n + 1) - 1 = n
      BY <1>1
    <3> QED
      BY <1>3, <2>1, <2>2, <2>3, <2>4, <2>6, <2>7, <2>8, <3>1 DEF FramesInOrder, EntryEnd
<1>7. FramesIntact'
  <2> SUFFICES ASSUME NEW i \in 1 .. n + 1, NEW k \in 1 .. FrameSize(queued'[i].msg)
               PROVE  buffer'[Advance(readIndex, queued'[i].off + k - 1)]
                        = Frame(queued'[i].msg)[k]
    BY <1>1, <1>3, <1>4 DEF FramesIntact
  <2>1. CASE i = n + 1
    <3>1. queued'[i].off = Used /\ queued'[i].msg = m /\ k \in 1 .. s
      BY <1>3, <2>1
    <3>2. k - 1 \in Nat /\ k - 1 < s /\ Used \in Nat /\ Used + k - 1 = Used + (k - 1)
      BY <1>2, <3>1 DEF Index
    <3> DEFINE c == Advance(readIndex, Used + (k - 1))
    <3>3. c \in Index /\ Distance(writeIndex, c) = k - 1
      BY <1>1, <1>2, <3>2, WrittenByte
    <3>4. buffer'[c] = Frame(m)[(k - 1) + 1]
      <4> HIDE DEF c
      <4> QED
        BY <3>2, <3>3 DEF PushStored
    <3>5. (k - 1) + 1 = k
      BY <3>2
    <3> QED
      BY <3>1, <3>2, <3>4, <3>5
  <2>2. CASE i \in 1 .. n
    <3> DEFINE o == queued[i].off + k - 1
    <3>1. queued'[i] = queued[i] /\ k \in 1 .. FrameSize(queued[i].msg)
      BY <1>3, <2>2
    <3>2. o \in Nat /\ o < Used
      BY <2>2, <3>1, Entries DEF Index
    <3>3. /\ Advance(readIndex, o) \in Index
          /\ Distance(writeIndex, Advance(readIndex, o)) \in Nat
          /\ Distance(writeIndex, Advance(readIndex, o)) >= s
      <4>1. Used \in Nat
        BY <1>2 DEF Index
      <4> HIDE DEF o, s
      <4> QED
        BY <1>1, <1>2, <3>2, <4>1, UsedByte
    <3>4. buffer'[Advance(readIndex, o)] = buffer[Advance(readIndex, o)]
      <4> HIDE DEF o
      <4> QED
        BY <1>2, <3>3 DEF PushStored
    <3>5. buffer[Advance(readIndex, o)] = Frame(queued[i].msg)[k]
      BY <2>2, <3>1 DEF RingInv, FramesIntact
    <3> QED
      BY <3>1, <3>4, <3>5
  <2> QED
    BY <1>1, <2>1, <2>2
<1>8. StoredSizes'
  BY <1>1, <1>3 DEF RingInv, StoredSizes, PushStored
<1> QED
  BY <1>5, <1>6, <1>7, <1>8 DEF RingInv

(* lqueue_pop and lqueue_pop_noread take the first frame off the ring.     *)
LEMMA RemovedRing ==
  ASSUME RingInv, msgCnt # 0, result' \in Results,
         readIndex' = FrontEnd, msgCnt' = msgCnt - 1,
         queued' = Removed(Distance(readIndex, FrontEnd)),
         UNCHANGED <<buffer, writeIndex>>
  PROVE  RingInv'
<1> DEFINE n == Len(queued)
           s == FrameSize(queued[1].msg)
<1>1. /\ readIndex \in Index /\ writeIndex \in Index /\ n \in Nat /\ n > 0
      /\ queued \in Seq(Entry) /\ queued # <<>> /\ msgCnt = n
  BY DEF RingInv, TypeOK, FramesInOrder
<1>2. /\ Used \in Index /\ writeIndex = Advance(readIndex, Used)
      /\ s \in Nat /\ s <= Used /\ EntryEnd(1) = s
  <2>1. 1 \in 1 .. n /\ queued[1].off = 0
    BY <1>1 DEF RingInv, FramesInOrder
  <2> QED
    BY <1>1, <2>1, Entries, DistanceInside DEF Used, EntryEnd
<1>3. readIndex' = Advance(readIndex, s) /\ Distance(readIndex, FrontEnd) = s
  <2>1. FrontEnd = Advance(readIndex, s)
    BY <1>1, FrontDecoded
  <2>2. s \in Index
    <3> HIDE DEF s
    <3> QED
      BY <1>2, BufferLengthAssumption DEF Index
  <2> QED
    BY <1>1, <2>1, <2>2, DistanceAdvanced
<1>4. /\ readIndex' \in Index
      /\ Used' = Used - s
  <2> HIDE DEF s
  <2>1. readIndex' \in Index
    <3>1. s \in 0 .. BufferLength
      BY <1>2, BufferLengthAssumption DEF Index
    <3> QED
      BY <1>1, <1>3, <3>1, AdvanceInside
  <2>2. Distance(Advance(readIndex, s), Advance(readIndex, Used)) = Used - s
    BY <1>1, <1>2, BufferLengthAssumption DEF Advance, Distance, Index
  <2> QED
    BY <1>2, <1>3, <2>1, <2>2 DEF Used
<1>5. /\ n - 1 \in Nat /\ Len(queued') = n - 1
      /\ \A i \in 1 .. n - 1 : /\ i \in 1 .. n /\ i + 1 \in 1 .. n
                               /\ queued'[i].off = queued[i + 1].off - s
                               /\ queued'[i].msg = queued[i + 1].msg
  BY <1>1, <1>3 DEF Removed
<1>6. \A i \in 1 .. n - 1 : /\ queued[i + 1].off \in Nat /\ queued[i + 1].off >= s
                            /\ FrameSize(queued[i + 1].msg) \in Nat
                            /\ queued[i + 1].off - s \in Index
                            /\ queued[i + 1].msg \in Messages
  <2> SUFFICES ASSUME NEW i \in 1 .. n - 1
               PROVE  /\ queued[i + 1].off \in Nat /\ queued[i + 1].off >= s
                      /\ FrameSize(queued[i + 1].msg) \in Nat
                      /\ queued[i + 1].off - s \in Index
                      /\ queued[i + 1].msg \in Messages
    OBVIOUS
  <2>1. i + 1 \in 1 .. n /\ 1 \in 1 .. n /\ 1 < i + 1
    BY <1>1
  <2>2. /\ queued[i + 1].off \in Index /\ queued[i + 1].msg \in Messages
        /\ FrameSize(queued[i + 1].msg) \in Nat
    BY <2>1, Entries
  <2>3. EntryEnd(1) <= queued[i + 1].off
    BY <2>1 DEF RingInv, FramesInOrder
  <2> HIDE DEF s
  <2> QED
    BY <1>2, <2>2, <2>3, BufferLengthAssumption DEF Index
<1>7. TypeOK'
  <2>1. queued' \in Seq(Entry)
    <3>1. queued' = [i \in 1 .. n - 1 |-> [off |-> queued[i + 1].off - s, msg |-> queued[i + 1].msg]]
      BY <1>3 DEF Removed
    <3>2. \A i \in 1 .. n - 1 :
            [off |-> queued[i + 1].off - s, msg |-> queued[i + 1].msg] \in Entry
      BY <1>6 DEF Entry
    <3> HIDE DEF s
    <3> QED
      BY <1>5, <3>1, <3>2
  <2> QED
    BY <1>1, <1>4, <2>1 DEF RingInv, TypeOK
<1>8. FramesInOrder'
  <2> DEFINE End(i) == queued'[i].off + FrameSize(queued'[i].msg)
  <2>1. msgCnt' = Len(queued')
    BY <1>1, <1>5
  <2>2. \A i \in 1 .. n - 1 : End(i) = EntryEnd(i + 1) - s
    <3> HIDE DEF s
    <3> QED
      BY <1>2, <1>5, <1>6 DEF EntryEnd
  <2>3. queued' = <<>> => Used' = 0
    <3>1. queued' = <<>> => n = 1
      <4>1. queued' = <<>> => Len(queued') = 0
        OBVIOUS
      <4>2. n \in Nat /\ Len(queued') = n - 1
        BY <1>1, <1>5
      <4> HIDE DEF n
      <4> QED
        BY <4>1, <4>2
    <3>2. n = 1 => Used = s
      BY <1>1, <1>2 DEF RingInv, FramesInOrder
    <3> QED
      BY <1>2, <1>4, <3>1, <3>2 DEF Index
  <2>4. queued' # <<>> => queued'[1].off = 0 /\ End(n - 1) = Used'
    <3> SUFFICES ASSUME queued' # <<>>
                 PROVE  queued'[1].off = 0 /\ End(n - 1) = Used'
      OBVIOUS
    <3>1. n - 1 >= 1
      BY <1>5, <1>7 DEF TypeOK
    <3>2. 1 \in 1 .. n - 1 /\ n - 1 \in 1 .. n - 1 /\ 1 + 1 = 2 /\ (n - 1) + 1 = n
      BY <1>1, <3>1
    <3>3. queued[1 + 1].off = s
      BY <1>2, <3>2 DEF RingInv, FramesInOrder
    <3>4. EntryEnd(n) = Used
      BY <1>1 DEF RingInv, FramesInOrder
    <3> HIDE DEF s, End
    <3> QED
      BY <1>2, <1>4, <1>5, <2>2, <3>2, <3>3, <3>4
  <2>5. \A i \in 1 .. (n - 1) - 1 : queued'[i + 1].off = End(i)
    <3> SUFFICES ASSUME NEW i \in 1 .. (n - 1) - 1
                 PROVE  queued'[i + 1].off = End(i)
      OBVIOUS
    <3>1. i \in 1 .. n - 1 /\ i + 1 \in 1 .. n - 1
      BY <1>1
    <3>2. queued[(i + 1) + 1].off = EntryEnd(i + 1)
      BY <3>1 DEF RingInv, FramesInOrder
    <3> QED
      BY <1>5, <2>2, <3>1, <3>2
  <2>6. \A i \in 1 .. n - 1 : End(i) <= Used'
    <3> SUFFICES ASSUME NEW i \in 1 .. n - 1
                 PROVE  End(i) <= Used'
      OBVIOUS
    <3>1. EntryEnd(i + 1) <= Used /\ EntryEnd(i + 1) \in Nat
      BY <1>5, <1>6 DEF RingInv, FramesInOrder, EntryEnd
    <3> HIDE DEF s, End
    <3> QED
      BY <1>2, <1>4, <2>2, <3>1 DEF Index
  <2>7. \A i, j \in 1 .. n - 1 : i < j => End(i) <= queued'[j].off
    <3> SUFFICES ASSUME NEW i \in 1 .. n - 1, NEW j \in 1 .. n - 1, i < j
                 PROVE  End(i) <= queued'[j].off
      OBVIOUS
    <3>1. i + 1 \in 1 .. n /\ j + 1 \in 1 .. n /\ i + 1 < j + 1
      BY <1>5
    <3>2. EntryEnd(i + 1) <= queued[j + 1].off /\ EntryEnd(i + 1) \in Nat
      BY <1>6, <3>1 DEF RingInv, FramesInOrder, EntryEnd
    <3> HIDE DEF s, End
    <3> QED
      BY <1>2, <1>5, <1>6, <2>2, <3>2
  <2> QED
    BY <1>5, <2>1, <2>3, <2>4, <2>5, <2>6, <2>7 DEF FramesInOrder, EntryEnd
<1>9. FramesIntact'
  <2> SUFFICES ASSUME NEW i \in 1 .. n - 1, NEW k \in 1 .. FrameSize(queued[i + 1].msg)
               PROVE  buffer[Advance(readIndex', queued'[i].off + k - 1)]
                        = Frame(queued[i + 1].msg)[k]
    BY <1>5 DEF FramesIntact
  <2> DEFINE o == queued[i + 1].off
  <2>1. o \in Nat /\ o >= s /\ o + k <= Used
    <3>1. o + FrameSize(queued[i + 1].msg) <= Used
      BY <1>5, Entries
    <3> QED
      BY <1>2, <1>6, <3>1 DEF Index
  <2>2. Advance(Advance(readIndex, s), (o - s) + k - 1) = Advance(readIndex, o + k - 1)
    <3> HIDE DEF o, s
    <3>1. /\ (o - s) + k - 1 \in Nat /\ s + ((o - s) + k - 1) <= BufferLength
          /\ s + ((o - s) + k - 1) = o + k - 1
      BY <1>2, <2>1, BufferLengthAssumption DEF Index
    <3> QED
      BY <1>1, <1>2, <3>1, AdvanceTwice
  <2>3. buffer[Advance(readIndex, o + k - 1)] = Frame(queued[i + 1].msg)[k]
    BY <1>5 DEF RingInv, FramesIntact
  <2> QED
    BY <1>3, <1>5, <2>2, <2>3
<1>10. StoredSizes'
  BY <1>5 DEF RingInv, StoredSizes
<1> QED
  BY <1>7, <1>8, <1>9, <1>10 DEF RingInv

-----------------------------------------------------------------------------
(* The theorems.                                                           *)

LEMMA StepRing == RingInv /\ [Next]_vars => RingInv'
<1> SUFFICES ASSUME RingInv, [Next]_vars
             PROVE  RingInv'
  OBVIOUS
<1>1. ASSUME NEW m \in Messages, PushRefused(m)
      PROVE  RingInv'
  <2>1. result' \in Results
    BY <1>1, Codes DEF PushRefused, ReturnCode
  <2> QED
    BY <1>1, <2>1, RefusedRing DEF PushRefused
<1>2. ASSUME NEW m \in Messages, PushStored(m)
      PROVE  RingInv'
  BY <1>2, PushRing
<1>3. ASSUME NEW n \in BufSizes, PopTooSmall(n)
      PROVE  RingInv'
  <2>1. result' \in Results
    BY <1>3, Codes DEF PopTooSmall, ReturnCode
  <2> QED
    BY <1>3, <2>1, RefusedRing DEF PopTooSmall
<1>4. ASSUME NEW n \in BufSizes, PopTaken(n)
      PROVE  RingInv'
  <2>1. queued # <<>>
    BY <1>4 DEF PopTaken, RingInv, FramesInOrder
  <2>2. result' = Answer("ok", queued[1].msg)
    BY <1>4, <2>1, FrontDecoded DEF PopTaken
  <2>3. queued[1].msg \in Seq(Byte)
    <3>1. 1 \in 1 .. Len(queued)
      BY <2>1 DEF RingInv, TypeOK
    <3> QED
      BY <3>1, Entries, MessagesAssumption
  <2>4. result' \in Results
    BY <2>2, <2>3 DEF Answer, Results, ReturnCode
  <2> QED
    BY <1>4, <2>4, RemovedRing DEF PopTaken
<1>5. CASE PopEmpty
  <2>1. result' \in Results
    BY <1>5, Codes DEF PopEmpty, ReturnCode
  <2> QED
    BY <1>5, <2>1, RefusedRing DEF PopEmpty
<1>6. CASE PopNoread
  <2>1. result' \in Results
    BY <1>6, Codes DEF PopNoread, ReturnCode
  <2> QED
    BY <1>6, <2>1, RemovedRing DEF PopNoread
<1>7. CASE Empty
  BY <1>7, ResetRing DEF Empty, RingInv, TypeOK
<1>8. CASE ReInit
  <2>1. 0 \in Byte
    BY Bases DEF Byte
  <2>2. buffer' \in [Index -> Byte]
    BY <1>8, <2>1 DEF ReInit
  <2> QED
    BY <1>8, <2>2, ResetRing DEF ReInit
<1>9. CASE UNCHANGED vars
  BY <1>9 DEF vars, RingInv, TypeOK, FramesInOrder, FramesIntact, StoredSizes,
     EntryEnd, Used
<1> QED
  BY <1>1, <1>2, <1>3, <1>4, <1>5, <1>6, <1>7, <1>8, <1>9 DEF Next

LEMMA RingAlways == Spec => []RingInv
  BY InitRing, StepRing, PTL DEF Spec

(* For every ring size, code base and message set: no push writes over a   *)
(* frame that is still to be read.                                         *)
THEOREM RingIntact == Spec => []FramesIntact
<1>1. RingInv => FramesIntact BY DEF RingInv
<1> QED BY <1>1, RingAlways, PTL

(* The frames lie in the ring without gap or overlap from readIndex to     *)
(* writeIndex, as many as msgCnt says.                                     *)
THEOREM RingTiled == Spec => []FramesInOrder
<1>1. RingInv => FramesInOrder BY DEF RingInv
<1> QED BY <1>1, RingAlways, PTL

(* The indices stay in the ring and its bytes are bytes.                   *)
THEOREM RingTyped == Spec => []TypeOK
<1>1. RingInv => TypeOK BY DEF RingInv
<1> QED BY <1>1, RingAlways, PTL

-----------------------------------------------------------------------------
(* The calls that only read.                                               *)

(* A non-empty set of numbers has a least one: what an induction needs.    *)
LEMMA Least ==
  ASSUME NEW T \in SUBSET Nat, T # {}
  PROVE  \E x \in T : \A y \in T : x <= y
<1>1. IsWellFoundedOn(OpToRel(<, Nat), Nat)
  BY NatLessThanWellFounded
<1>2. PICK x \in T : \A y \in T : <<y, x>> \notin OpToRel(<, Nat)
  BY <1>1, WFMin
<1>3. \A y \in T : ~(y < x)
  BY <1>2 DEF OpToRel
<1> QED
  BY <1>3

(* The first n steps of the walk over the frames.                          *)
WalkTo(n, h) ==
  /\ h = [k \in 0 .. n |-> h[k]]
  /\ h[0] = readIndex
  /\ \A k \in 0 .. n - 1 : h[k + 1] = NextFrame(h[k])

LEMMA WalkExists == \A n \in Nat : \E h : WalkTo(n, h)
<1> DEFINE T == {n \in Nat : ~ \E h : WalkTo(n, h)}
<1> SUFFICES ASSUME T # {} PROVE FALSE
  OBVIOUS
<1>1. PICK x \in T : \A y \in T : x <= y
  <2>1. T \in SUBSET Nat
    OBVIOUS
  <2> HIDE DEF T
  <2> QED
    BY <2>1, Least
<1>2. CASE x = 0
  <2> DEFINE h == [k \in 0 .. 0 |-> readIndex]
  <2>1. WalkTo(0, h)
    BY DEF WalkTo
  <2> QED
    BY <1>2, <2>1
<1>3. CASE x # 0
  <2>1. x \in Nat /\ x - 1 \in Nat /\ x - 1 \notin T
    BY <1>1, <1>3
  <2>2. PICK g : WalkTo(x - 1, g)
    BY <2>1
  <2> DEFINE h == [k \in 0 .. x |-> IF k = x THEN NextFrame(g[x - 1]) ELSE g[k]]
  <2>3. h = [k \in 0 .. x |-> h[k]]
    OBVIOUS
  <2>4. h[0] = readIndex
    BY <1>3, <2>1, <2>2 DEF WalkTo
  <2>5. \A k \in 0 .. x - 1 : h[k + 1] = NextFrame(h[k])
    <3> SUFFICES ASSUME NEW k \in 0 .. x - 1
                 PROVE  h[k + 1] = NextFrame(h[k])
      OBVIOUS
    <3>1. h[k] = g[k]
      BY <2>1
    <3>2. CASE k = x - 1
      <4>1. h[k + 1] = NextFrame(g[x - 1])
        BY <2>1, <3>2
      <4> QED
        BY <3>1, <3>2, <4>1
    <3>3. CASE k # x - 1
      <4>1. k \in 0 .. (x - 1) - 1 /\ k + 1 \in 0 .. x /\ k + 1 # x
        BY <2>1, <3>3
      <4>2. g[k + 1] = NextFrame(g[k])
        BY <2>2, <4>1 DEF WalkTo
      <4>3. h[k + 1] = g[k + 1]
        BY <4>1
      <4> QED
        BY <3>1, <4>2, <4>3
    <3> QED
      BY <3>2, <3>3
  <2>6. WalkTo(x, h)
    <3> HIDE DEF h
    <3> QED
      BY <2>3, <2>4, <2>5 DEF WalkTo
  <2> QED
    BY <2>6
<1> QED
  BY <1>2, <1>3

LEMMA WalkUnique ==
  ASSUME NEW n \in Nat, NEW m \in Nat, n <= m,
         NEW g, WalkTo(n, g), NEW h, WalkTo(m, h)
  PROVE  \A k \in 0 .. n : g[k] = h[k]
<1> DEFINE T == {k \in 0 .. n : g[k] # h[k]}
<1> SUFFICES ASSUME T # {} PROVE FALSE
  OBVIOUS
<1>1. PICK x \in T : \A y \in T : x <= y
  <2>1. T \in SUBSET Nat
    OBVIOUS
  <2> HIDE DEF T
  <2> QED
    BY <2>1, Least
<1>2. x \in 0 .. n /\ g[x] # h[x]
  OBVIOUS
<1>3. x # 0
  BY <1>2 DEF WalkTo
<1>4. /\ x - 1 \in 0 .. n /\ x - 1 \in 0 .. n - 1 /\ x - 1 \in 0 .. m - 1
      /\ x - 1 \notin T /\ (x - 1) + 1 = x
  BY <1>1, <1>2, <1>3
<1>5. g[x - 1] = h[x - 1]
  BY <1>4
<1>6. g[x] = NextFrame(g[x - 1]) /\ h[x] = NextFrame(h[x - 1])
  <2>1. g[(x - 1) + 1] = NextFrame(g[x - 1]) /\ h[(x - 1) + 1] = NextFrame(h[x - 1])
    <3> HIDE DEF T
    <3> QED
      BY <1>4 DEF WalkTo
  <2> QED
    BY <1>4, <2>1
<1> QED
  BY <1>2, <1>5, <1>6

(* The walk is the one its recursion describes.                            *)
LEMMA WalkUnfolds ==
  /\ FrameWalk[0] = readIndex
  /\ \A k \in Nat : FrameWalk[k + 1] = NextFrame(FrameWalk[k])
<1> DEFINE W(n) == CHOOSE h : WalkTo(n, h)
           w == [n \in Nat |-> W(n)[n]]
<1>1. \A n \in Nat : WalkTo(n, W(n))
  BY WalkExists
<1> HIDE DEF W
<1>2. w[0] = readIndex
  BY <1>1 DEF WalkTo
<1>3. \A n \in Nat : w[n + 1] = NextFrame(w[n])
  <2> SUFFICES ASSUME NEW n \in Nat
               PROVE  w[n + 1] = NextFrame(w[n])
    OBVIOUS
  <2>1. WalkTo(n, W(n)) /\ WalkTo(n + 1, W(n + 1)) /\ n + 1 \in Nat /\ n <= n + 1
    BY <1>1
  <2>2. W(n)[n] = W(n + 1)[n]
    <3>1. n \in 0 .. n
      OBVIOUS
    <3> QED
      BY <2>1, <3>1, WalkUnique
  <2>3. W(n + 1)[n + 1] = NextFrame(W(n + 1)[n])
    <3>1. n \in 0 .. (n + 1) - 1
      OBVIOUS
    <3> QED
      BY <2>1, <3>1 DEF WalkTo
  <2> QED
    BY <2>1, <2>2, <2>3
<1>4. w = [k \in Nat |-> IF k = 0 THEN readIndex ELSE NextFrame(w[k - 1])]
  <2>1. \A k \in Nat : w[k] = IF k = 0 THEN readIndex ELSE NextFrame(w[k - 1])
    <3> SUFFICES ASSUME NEW k \in Nat, k # 0
                 PROVE  w[k] = NextFrame(w[k - 1])
      BY <1>2
    <3>1. k - 1 \in Nat /\ (k - 1) + 1 = k
      OBVIOUS
    <3> HIDE DEF w
    <3> QED
      BY <1>3, <3>1
  <2>2. w = [k \in Nat |-> w[k]]
    OBVIOUS
  <2> HIDE DEF w
  <2> QED
    BY <2>1, <2>2
<1>5. FrameWalk = CHOOSE h : h = [k \in Nat |-> IF k = 0 THEN readIndex ELSE NextFrame(h[k - 1])]
  BY DEF FrameWalk
<1> HIDE DEF w
<1>6. FrameWalk = [k \in Nat |-> IF k = 0 THEN readIndex ELSE NextFrame(FrameWalk[k - 1])]
  BY <1>4, <1>5
<1>7. \A k \in Nat : k + 1 \in Nat /\ k + 1 # 0 /\ (k + 1) - 1 = k
  OBVIOUS
<1> QED
  BY <1>6, <1>7

(* The walk visits the stored messages one after the other.                *)
LEMMA WalkVisits ==
  ASSUME RingInv
  PROVE  \A i \in 1 .. Len(queued) : FrameWalk[i - 1] = Advance(readIndex, queued[i].off)
<1> DEFINE T == {i \in 1 .. Len(queued) : FrameWalk[i - 1] # Advance(readIndex, queued[i].off)}
<1> SUFFICES ASSUME T # {} PROVE FALSE
  OBVIOUS
<1>0. Len(queued) \in Nat /\ readIndex \in Index
  BY DEF RingInv, TypeOK
<1>1. PICK x \in T : \A y \in T : x <= y
  <2>1. T \in SUBSET Nat
    OBVIOUS
  <2> HIDE DEF T
  <2> QED
    BY <2>1, Least
<1>2. x \in 1 .. Len(queued) /\ FrameWalk[x - 1] # Advance(readIndex, queued[x].off)
  OBVIOUS
<1>3. x # 1
  <2> SUFFICES ASSUME x = 1 PROVE FALSE
    OBVIOUS
  <2>1. queued[1].off = 0
    BY <1>2 DEF RingInv, FramesInOrder
  <2>2. Advance(readIndex, 0) = readIndex
    BY <1>0, BufferLengthAssumption DEF Advance, Index
  <2>3. x - 1 = 0
    OBVIOUS
  <2> QED
    BY <1>2, <2>1, <2>2, <2>3, WalkUnfolds
<1>4. /\ x - 1 \in 1 .. Len(queued) - 1 /\ x - 1 \in 1 .. Len(queued) /\ (x - 1) + 1 = x
      /\ x - 1 \notin T /\ (x - 1) - 1 \in Nat /\ ((x - 1) - 1) + 1 = x - 1
  BY <1>0, <1>1, <1>2, <1>3
<1>5. FrameWalk[(x - 1) - 1] = Advance(readIndex, queued[x - 1].off)
  BY <1>4
<1>6. NextFrame(Advance(readIndex, queued[x - 1].off)) = Advance(readIndex, EntryEnd(x - 1))
  BY <1>4, EntryDecoded
<1>7. queued[(x - 1) + 1].off = EntryEnd(x - 1)
  <2> HIDE DEF T
  <2> QED
    BY <1>4 DEF RingInv, FramesInOrder
<1>8. FrameWalk[((x - 1) - 1) + 1] = NextFrame(FrameWalk[(x - 1) - 1])
  BY <1>4, WalkUnfolds
<1> QED
  BY <1>2, <1>4, <1>5, <1>6, <1>7, <1>8

(* For every ring size, code base and message set: lqueue_front and        *)
(* lqueue_check_element_exists, each with index arithmetic of its own,     *)
(* find exactly what was pushed.                                           *)
THEOREM ReadersRight == Spec => []ReadersAgree
<1>1. RingInv => ReadersAgree
  <2> SUFFICES ASSUME RingInv PROVE ReadersAgree
    OBVIOUS
  <2>1. msgCnt = Len(queued) /\ Len(queued) \in Nat
    BY DEF RingInv, TypeOK, FramesInOrder
  <2>2. ASSUME NEW n \in BufSizes, queued # <<>>, Len(queued[1].msg) <= n
        PROVE  Front(n) = Answer("ok", queued[1].msg)
    <3>1. msgCnt # 0
      BY <2>1, <2>2 DEF RingInv, TypeOK
    <3> DEFINE d == DecodeLength(readIndex)
    <3>2. d.len = Len(queued[1].msg) /\ Payload(d.start, d.len) = queued[1].msg
      BY <2>2, FrontDecoded
    <3>3. 1 \in 1 .. Len(queued)
      BY <2>1, <3>1
    <3>4. d.len \in Nat /\ n \in Nat /\ d.len <= n
      BY <2>2, <3>2, <3>3, Entries, FrameSizes, BufSizesAssumption
    <3> HIDE DEF d
    <3>5. ~(d.len > n)
      BY <3>4
    <3> QED
      BY <3>1, <3>2, <3>4, <3>5 DEF Front, d
  <2>3. ASSUME NEW m \in Messages
        PROVE  ElementExists(m) <=> \E i \in 1 .. Len(queued) : queued[i].msg = m
    <3> DEFINE d(k) == DecodeLength(FrameWalk[k])
    <3>1. \A i \in 1 .. Len(queued) :
             d(i - 1).len = Len(queued[i].msg) /\ Payload(d(i - 1).start, d(i - 1).len) = queued[i].msg
      BY WalkVisits, EntryDecoded
    <3>2. /\ \A k \in 0 .. msgCnt - 1 : k + 1 \in 1 .. Len(queued) /\ (k + 1) - 1 = k
          /\ \A i \in 1 .. Len(queued) : i - 1 \in 0 .. msgCnt - 1
      BY <2>1
    <3>3. ElementExists(m) <=> \E k \in 0 .. msgCnt - 1 :
             d(k).len = Len(m) /\ Payload(d(k).start, d(k).len) = m
      BY DEF ElementExists
    <3> HIDE DEF d
    <3>4. \A k \in 0 .. msgCnt - 1 :
             d(k).len = Len(queued[k + 1].msg) /\ Payload(d(k).start, d(k).len) = queued[k + 1].msg
      BY <3>1, <3>2
    <3> QED
      BY <3>1, <3>2, <3>3, <3>4
  <2> QED
    BY <2>2, <2>3 DEF ReadersAgree
<1> QED
  BY <1>1, RingAlways, PTL

-----------------------------------------------------------------------------
(* The ring implements the queue of messages, step by step.                *)

Mapped == [i \in 1 .. Len(queued) |-> queued[i].msg]
StorableHere == {x \in Messages : 0 < Len(x) /\ Len(x) < Radix * Radix}
CostHere == [m \in StorableHere |-> FrameSize(m)]

(* The mapped queue is a sequence with the oldest message at its head.     *)
LEMMA MappedQueue ==
  ASSUME RingInv
  PROVE  /\ Mapped \in Seq(Messages)
         /\ Len(Mapped) = msgCnt
         /\ Mapped = <<>> <=> msgCnt = 0
         /\ msgCnt # 0 => /\ queued # <<>>
                          /\ Head(Mapped) = queued[1].msg
                          /\ queued[1].msg \in StorableHere
<1>1. Len(queued) \in Nat /\ msgCnt = Len(queued)
  BY DEF RingInv, TypeOK, FramesInOrder
<1>2. \A i \in 1 .. Len(queued) : queued[i].msg \in Messages
  BY Entries
<1>3. Mapped \in Seq(Messages) /\ Len(Mapped) = Len(queued)
  BY <1>1, <1>2 DEF Mapped
<1>4. Mapped = <<>> <=> Len(Mapped) = 0
  BY <1>3
<1>5. ASSUME msgCnt # 0
      PROVE  /\ queued # <<>>
             /\ Head(Mapped) = queued[1].msg
             /\ queued[1].msg \in StorableHere
  <2>1. 1 \in 1 .. Len(queued) /\ queued # <<>>
    BY <1>1, <1>5
  <2>2. Mapped # <<>> /\ Mapped[1] = queued[1].msg
    BY <1>1, <1>3, <1>4, <1>5, <2>1 DEF Mapped
  <2>3. queued[1].msg \in StorableHere
    BY <1>2, <2>1 DEF RingInv, StoredSizes, StorableHere
  <2> QED
    BY <1>3, <2>1, <2>2, <2>3
<1> QED
  BY <1>1, <1>3, <1>4, <1>5

LEMMA StoredImplements ==
  ASSUME RingInv, NEW m \in Messages, PushStored(m)
  PROVE  Fifo!Accept(m)
<1>1. m \in StorableHere /\ CostHere[m] = FrameSize(m)
  BY DEF PushStored, StorableHere, CostHere
<1>2. /\ readIndex \in Index /\ writeIndex \in Index /\ Used \in Index
      /\ FreeSpace = BufferLength - 1 - Used /\ FrameSize(m) \in Nat
  BY FreeAndUsed, FrameSizes, DistanceInside DEF RingInv, TypeOK, Used
<1>3. Used + FrameSize(m) <= BufferLength - 1
  BY <1>2, BufferLengthAssumption DEF PushStored, Index
<1>4. Used' = Used + FrameSize(m)
  <2>1. Used + FrameSize(m) \in Index /\ Used + FrameSize(m) <= BufferLength /\ Used \in Nat
    BY <1>2, <1>3, BufferLengthAssumption DEF Index
  <2>2. Advance(readIndex, Used) = writeIndex
    BY <1>2, DistanceInside DEF Used
  <2>3. writeIndex' = Advance(readIndex, Used + FrameSize(m))
    BY <1>2, <2>1, <2>2, AdvanceTwice DEF PushStored
  <2> QED
    BY <1>2, <2>1, <2>3, DistanceAdvanced DEF Used, PushStored
<1>5. Mapped' = Append(Mapped, m)
  <2> DEFINE n == Len(queued)
             last == [off |-> Distance(readIndex, writeIndex), msg |-> m]
  <2>1. n \in Nat /\ queued \in Seq(Entry) /\ Mapped \in Seq(Messages) /\ Len(Mapped) = n
    BY MappedQueue DEF RingInv, TypeOK, FramesInOrder
  <2>2. last \in Entry
    BY <1>2 DEF Entry, Used
  <2>3. /\ Len(queued') = n + 1 /\ queued'[n + 1].msg = m
        /\ \A i \in 1 .. n : queued'[i] = queued[i]
    BY <2>1, <2>2 DEF PushStored
  <2>4. Append(Mapped, m) \in Seq(Messages) /\ Len(Append(Mapped, m)) = n + 1
    BY <2>1
  <2>5. Mapped' = [i \in 1 .. n + 1 |-> queued'[i].msg]
    BY <2>3 DEF Mapped
  <2>6. \A i \in 1 .. n + 1 : queued'[i].msg = Append(Mapped, m)[i]
    <3> SUFFICES ASSUME NEW i \in 1 .. n + 1
                 PROVE  queued'[i].msg = Append(Mapped, m)[i]
      OBVIOUS
    <3>1. CASE i = n + 1
      BY <2>1, <2>3, <3>1
    <3>2. CASE i \in 1 .. n
      BY <2>1, <2>3, <3>2 DEF Mapped
    <3> QED
      BY <2>1, <3>1, <3>2
  <2>7. Append(Mapped, m) = [i \in 1 .. n + 1 |-> Append(Mapped, m)[i]]
    <3>1. \A q \in Seq(Messages) : q = [i \in 1 .. Len(q) |-> q[i]]
      OBVIOUS
    <3> HIDE DEF n
    <3> QED
      BY <2>4, <3>1
  <2> QED
    BY <2>5, <2>6, <2>7
<1>6. result' = Code("ok")
  BY DEF PushStored
<1> QED
  BY <1>1, <1>3, <1>4, <1>5, <1>6
     DEF Fifo!Accept, Fifo!Storable, Fifo!Code, Fifo!Answer, Code, Answer, Mapped,
         StorableHere, CostHere

(* Both pops leave the abstract queue without its head.                    *)
LEMMA RemovedImplements ==
  ASSUME RingInv, msgCnt # 0, readIndex' = FrontEnd, UNCHANGED writeIndex,
         queued' = Removed(Distance(readIndex, FrontEnd))
  PROVE  /\ Mapped # <<>> /\ Mapped' = Tail(Mapped)
         /\ Used' = Used - CostHere[Head(Mapped)]
<1> DEFINE n == Len(queued)
           s == FrameSize(queued[1].msg)
<1>1. /\ n \in Nat /\ n > 0 /\ queued # <<>> /\ Mapped \in Seq(Messages) /\ Len(Mapped) = n
      /\ Mapped # <<>> /\ Head(Mapped) = queued[1].msg /\ queued[1].msg \in StorableHere
  BY MappedQueue DEF RingInv, TypeOK, FramesInOrder
<1>2. CostHere[Head(Mapped)] = s
  BY <1>1 DEF CostHere
<1>3. readIndex \in Index /\ Used \in Index /\ writeIndex = Advance(readIndex, Used)
  BY DistanceInside DEF RingInv, TypeOK, Used
<1>4. s \in Nat /\ s <= Used
  <2>1. 1 \in 1 .. n /\ queued[1].off = 0
    BY <1>1 DEF RingInv, FramesInOrder
  <2> QED
    BY <2>1, Entries
<1>5. readIndex' = Advance(readIndex, s)
  BY <1>1, FrontDecoded
<1>6. Used' = Used - s
  <2> HIDE DEF s
  <2>1. Distance(Advance(readIndex, s), Advance(readIndex, Used)) = Used - s
    BY <1>3, <1>4, BufferLengthAssumption DEF Advance, Distance, Index
  <2> QED
    BY <1>3, <1>5, <2>1 DEF Used
<1>7. Mapped' = Tail(Mapped)
  <2>1. /\ Len(queued') = n - 1
        /\ \A i \in 1 .. n - 1 : queued'[i].msg = queued[i + 1].msg
    BY <1>1 DEF Removed
  <2>2. Mapped' = [i \in 1 .. n - 1 |-> queued[i + 1].msg]
    BY <2>1 DEF Mapped
  <2>3. Tail(Mapped) = [i \in 1 .. n - 1 |-> Mapped[i + 1]]
    <3>1. \A q \in Seq(Messages) :
            q # <<>> => Tail(q) = [i \in 1 .. Len(q) - 1 |-> q[i + 1]]
      <4> SUFFICES ASSUME NEW q \in Seq(Messages), q # <<>>
                   PROVE  Tail(q) = [i \in 1 .. Len(q) - 1 |-> q[i + 1]]
        OBVIOUS
      <4>1. /\ Tail(q) \in Seq(Messages) /\ Len(Tail(q)) = Len(q) - 1
            /\ \A i \in 1 .. Len(q) - 1 : Tail(q)[i] = q[i + 1]
        OBVIOUS
      <4>2. \A t \in Seq(Messages) : t = [i \in 1 .. Len(t) |-> t[i]]
        OBVIOUS
      <4> QED
        BY <4>1, <4>2
    <3> HIDE DEF n
    <3> QED
      BY <1>1, <3>1
  <2>4. \A i \in 1 .. n - 1 : Mapped[i + 1] = queued[i + 1].msg
    BY <1>1 DEF Mapped
  <2> QED
    BY <2>2, <2>3, <2>4
<1> QED
  BY <1>1, <1>2, <1>6, <1>7

LEMMA UnchangedImplements ==
  ASSUME UNCHANGED <<ring, queued>>
  PROVE  Mapped' = Mapped /\ Used' = Used
  BY DEF ring, Mapped, Used

LEMMA InitImplements == Init => Fifo!Init
<1> SUFFICES ASSUME Init PROVE Fifo!Init
  OBVIOUS
<1>1. Mapped = <<>>
  BY DEF Init, Mapped
<1>2. Used = 0
  BY BufferLengthAssumption DEF Init, Used, Distance
<1> QED
  BY <1>1, <1>2 DEF Init, Fifo!Init, Fifo!Code, Fifo!Answer, Code, Answer, Mapped

LEMMA StepImplements == RingInv /\ [Next]_vars => [Fifo!Next]_(Fifo!vars)
<1> SUFFICES ASSUME RingInv, [Next]_vars
             PROVE  [Fifo!Next]_(Fifo!vars)
  OBVIOUS
<1> USE DEF Fifo!Storable, Fifo!Code, Fifo!Answer, Code, Answer
<1>1. ASSUME NEW m \in Messages, PushRefused(m)
      PROVE  Fifo!Refuse(m)
  <2>1. Mapped' = Mapped /\ Used' = Used
    BY <1>1, UnchangedImplements DEF PushRefused
  <2>2. m \in StorableHere => result' = Code("full") /\ Used + CostHere[m] > BufferLength - 1
    <3> SUFFICES ASSUME m \in StorableHere
                 PROVE  result' = Code("full") /\ Used + CostHere[m] > BufferLength - 1
      OBVIOUS
    <3>1. /\ FreeSpace = BufferLength - 1 - Used /\ Used \in Index
          /\ CostHere[m] = FrameSize(m) /\ FrameSize(m) \in Nat /\ Len(m) \in Nat
      BY FreeAndUsed, FrameSizes, DistanceInside DEF RingInv, TypeOK, Used, StorableHere, CostHere
    <3>2. 0 < Len(m) /\ Len(m) < Radix * Radix /\ Radix * Radix \in Nat
      BY Bases DEF StorableHere
    <3>3. result' = Code("full") /\ FreeSpace < FrameSize(m)
      BY <1>1, <3>1, <3>2 DEF PushRefused
    <3> QED
      BY <3>1, <3>3, BufferLengthAssumption DEF Index
  <2>3. m \notin StorableHere => result' \in {Code("param"), Code("range")}
    BY <1>1 DEF PushRefused, StorableHere
  <2> QED
    BY <2>1, <2>2, <2>3 DEF Fifo!Refuse, Mapped, StorableHere, CostHere
<1>2. ASSUME NEW m \in Messages, PushStored(m)
      PROVE  Fifo!Accept(m)
  BY <1>2, StoredImplements
<1>3. ASSUME NEW n \in BufSizes, PopTooSmall(n)
      PROVE  Fifo!TooSmall(n)
  <2>1. Mapped' = Mapped /\ Used' = Used
    BY <1>3, UnchangedImplements DEF PopTooSmall
  <2>2. Mapped # <<>> /\ Len(Head(Mapped)) > n
    BY <1>3, MappedQueue, FrontDecoded DEF PopTooSmall
  <2> QED
    BY <1>3, <2>1, <2>2 DEF PopTooSmall, Fifo!TooSmall, Mapped
<1>4. ASSUME NEW n \in BufSizes, PopTaken(n)
      PROVE  Fifo!Take(n)
  <2>1. Mapped # <<>> /\ Mapped' = Tail(Mapped) /\ Used' = Used - CostHere[Head(Mapped)]
    BY <1>4, RemovedImplements DEF PopTaken
  <2>2. Len(Head(Mapped)) <= n /\ result' = Answer("ok", Head(Mapped))
    BY <1>4, MappedQueue, FrontDecoded DEF PopTaken
  <2> QED
    BY <2>1, <2>2 DEF Fifo!Take, Mapped, CostHere, StorableHere
<1>5. CASE PopEmpty
  <2>1. Mapped' = Mapped /\ Used' = Used
    BY <1>5, UnchangedImplements DEF PopEmpty
  <2>2. Mapped = <<>>
    BY <1>5, MappedQueue DEF PopEmpty
  <2>3. Fifo!NoMessage
    BY <1>5, <2>1, <2>2 DEF PopEmpty, Fifo!NoMessage, Mapped
  <2> QED
    BY <2>3 DEF Fifo!Next
<1>6. CASE PopNoread
  <2>1. Mapped # <<>> /\ Mapped' = Tail(Mapped) /\ Used' = Used - CostHere[Head(Mapped)]
    BY <1>6, RemovedImplements DEF PopNoread
  <2>2. Fifo!Drop
    BY <1>6, <2>1 DEF PopNoread, Fifo!Drop, Mapped, CostHere, StorableHere
  <2> QED
    BY <2>2 DEF Fifo!Next
<1>7. CASE Empty \/ ReInit
  <2>1. queued' = <<>> /\ writeIndex' = 0 /\ readIndex' = 0 /\ result' = Code("ok")
    BY <1>7 DEF Empty, ReInit, Reset
  <2>2. Mapped' = <<>> /\ Used' = 0
    BY <2>1, BufferLengthAssumption DEF Mapped, Used, Distance
  <2>3. Fifo!Clear
    BY <2>1, <2>2 DEF Fifo!Clear, Mapped
  <2> QED
    BY <2>3 DEF Fifo!Next
<1>8. CASE UNCHANGED vars
  BY <1>8 DEF vars, Fifo!vars, Used
<1> QED
  BY <1>1, <1>2, <1>3, <1>4, <1>5, <1>6, <1>7, <1>8 DEF Next, Fifo!Next

(* Every behaviour of the ring is one of the abstract queue: pop returns   *)
(* the oldest message byte for byte, and a push is refused only when its   *)
(* frame does not fit.                                                     *)
THEOREM RingIsFifo == Spec => FifoSpec
<1> QED
  BY RingAlways, InitImplements, StepImplements, PTL DEF Spec, FifoSpec, Fifo!Spec
=============================================================================
